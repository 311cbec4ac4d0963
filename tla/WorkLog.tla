------------------------------- MODULE WorkLog -------------------------------
(***************************************************************************)
(* The work_log table: a chain of hashes that concurrent calls of Log      *)
(* extend and that VerifyLog walks.  SHA-256 is taken to have no           *)
(* collisions: the hash of an entry is the sequence of all the contents    *)
(* that lead to it.  The content stands for the six text columns.          *)
(***************************************************************************)
EXTENDS Naturals, Sequences

CONSTANTS
  Writers,      \* goroutines that may call Log at the same time
  Contents,     \* what an entry can say
  MaxEntries,   \* bound on the rows of the table
  MaxResets     \* bound on how often the table is archived and cleared

ASSUME BoundsAssumption == MaxEntries \in Nat /\ MaxResets \in Nat

VARIABLES
  log,       \* committed rows in id order
  lock,      \* the writer that holds SQLite's write lock, or NoWriter
  pc,        \* where each call of Log is
  prev,      \* the tail hash each call has read
  row,       \* the row each call has inserted and not committed
  resets

vars == <<log, lock, pc, prev, row, resets>>

NoWriter == "nobody"

ASSUME WritersAssumption == NoWriter \notin Writers

NoHash == <<>>

entryHash(before, content) == Append(before, content)

Entry(before, content) ==
  [content |-> content, prev |-> before, hash |-> entryHash(before, content)]

Blank == [content |-> "none", prev |-> NoHash, hash |-> NoHash]

\* Mutant: the order of the query is the wrong way round.
TailHash_Oldest(l) == IF l = <<>> THEN NoHash ELSE l[1].hash

\* SELECT entry_hash ... ORDER BY id DESC LIMIT 1
TailHash(l) == IF l = <<>> THEN NoHash ELSE l[Len(l)].hash

-----------------------------------------------------------------------------
(* VerifyLog. *)

\* Mutant: the walk trusts the stored hash.
BadRow_NotRehashed(l, i) == i > 1 /\ l[i].prev # l[i-1].hash

\* Row i forks off, does not continue the row before it, or is not what its
\* hash says.  The first row may continue an archive.
BadRow(l, i) ==
  \/ i > 1 /\ l[i].prev # NoHash /\ \E j \in 1..(i-1) : l[j].prev = l[i].prev
  \/ i > 1 /\ l[i].prev # l[i-1].hash
  \/ l[i].hash # entryHash(l[i].prev, l[i].content)

Intact(l) == \A i \in 1..Len(l) : ~BadRow(l, i)

\* The row VerifyLog complains about, 0 when it finds the chain complete.
VerifyLog(l) ==
  IF Intact(l) THEN 0
  ELSE CHOOSE i \in 1..Len(l) : BadRow(l, i) /\ \A j \in 1..(i-1) : ~BadRow(l, j)

-----------------------------------------------------------------------------
(* Log: one transaction. *)

Init ==
  /\ log = <<>>
  /\ lock = NoWriter
  /\ pc = [w \in Writers |-> "idle"]
  /\ prev = [w \in Writers |-> NoHash]
  /\ row = [w \in Writers |-> Blank]
  /\ resets = 0

\* Mutant: a deferred transaction, which takes no lock when it begins.
Begin_Deferred(w) ==
  /\ pc[w] = "idle" /\ Len(log) < MaxEntries
  /\ pc' = [pc EXCEPT ![w] = "read"]
  /\ UNCHANGED <<log, lock, prev, row, resets>>

\* BEGIN IMMEDIATE waits for the write lock; a call that waits for longer than
\* busy_timeout returns an error and has changed nothing.
Begin(w) ==
  /\ pc[w] = "idle" /\ lock = NoWriter /\ Len(log) < MaxEntries
  /\ lock' = w
  /\ pc' = [pc EXCEPT ![w] = "read"]
  /\ UNCHANGED <<log, prev, row, resets>>

ReadPrev(w) ==
  /\ pc[w] = "read"
  /\ prev' = [prev EXCEPT ![w] = TailHash(log)]
  /\ pc' = [pc EXCEPT ![w] = "insert"]
  /\ UNCHANGED <<log, lock, row, resets>>

Insert(w) ==
  /\ pc[w] = "insert"
  /\ \E content \in Contents : row' = [row EXCEPT ![w] = Entry(prev[w], content)]
  /\ pc' = [pc EXCEPT ![w] = "commit"]
  /\ UNCHANGED <<log, lock, prev, resets>>

Ended(w) ==
  /\ lock' = NoWriter
  /\ pc' = [pc EXCEPT ![w] = "idle"]
  /\ prev' = [prev EXCEPT ![w] = NoHash]
  /\ row' = [row EXCEPT ![w] = Blank]

Commit(w) ==
  /\ pc[w] = "commit"
  /\ log' = Append(log, row[w])
  /\ Ended(w)
  /\ UNCHANGED resets

\* A statement fails, or the process dies: the inserted row is gone.
Rollback(w) ==
  /\ pc[w] # "idle"
  /\ Ended(w)
  /\ UNCHANGED <<log, resets>>

\* External: the rows are archived, the table is cleared and its first row
\* continues the archive.
Reset ==
  /\ lock = NoWriter /\ log # <<>> /\ resets < MaxResets
  /\ \E content \in Contents : log' = <<Entry(TailHash(log), content)>>
  /\ resets' = resets + 1
  /\ UNCHANGED <<lock, pc, prev, row>>

Next ==
  \/ \E w \in Writers :
       \/ Begin(w)
       \/ ReadPrev(w)
       \/ Insert(w)
       \/ Commit(w)
       \/ Rollback(w)
  \/ Reset

Spec == Init /\ [][Next]_vars

-----------------------------------------------------------------------------
(* Properties. *)

\* However calls of Log overlap, fail or are cut off by a crash, verify-log
\* finds the chain complete: no fork, no gap, no wrong hash.
LogVerifies == VerifyLog(log) = 0

\* Other values a column could be changed to.
Hashes(l) == {<<>>, <<"forged">>} \cup {l[i].hash : i \in 1..Len(l)}
                                  \cup {l[i].prev : i \in 1..Len(l)}

Changed(l, i) ==
       {[l EXCEPT ![i].content = c] : c \in Contents \cup {"forged"}}
  \cup {[l EXCEPT ![i].prev = h] : h \in Hashes(l)}
  \cup {[l EXCEPT ![i].hash = h] : h \in Hashes(l)}

\* Whichever single column that the hash covers is changed afterwards, in whichever
\* row, verify-log points at that row (TestVerifyLogTamper tries three of these).
SingleChangeIsFound ==
  \A i \in 1..Len(log) : \A l \in Changed(log, i) :
    l # log => VerifyLog(l) = i

-----------------------------------------------------------------------------
(* What makes LogVerifies inductive. *)

\* Each row continues the one before, and the hashes grow, so that no two rows
\* can continue the same one.
Chained(l) ==
  \A i \in 1..Len(l) :
    /\ l[i].hash = entryHash(l[i].prev, l[i].content)
    /\ i > 1 => l[i].prev = l[i-1].hash
    /\ Len(l[i].prev) = Len(l[1].prev) + i - 1

\* Only the holder of the lock is inside its transaction, so that what it has
\* read is still the tail when it commits.
InTransaction ==
  \A w \in Writers :
    /\ pc[w] # "idle" => lock = w
    /\ pc[w] \in {"insert", "commit"} => prev[w] = TailHash(log)
    /\ pc[w] = "commit" =>
         \E content \in Contents : row[w] = Entry(TailHash(log), content)

\* The inductive invariant of the proof, types included.
LogInv ==
  /\ lock \in Writers \cup {NoWriter}
  /\ pc \in [Writers -> {"idle", "read", "insert", "commit"}]
  /\ DOMAIN prev = Writers /\ DOMAIN row = Writers
  /\ log \in Seq([content : Contents, prev : Seq(Contents), hash : Seq(Contents)])
  /\ Chained(log)
  /\ InTransaction
=============================================================================
