---------------------------- MODULE WorkLogProofs ----------------------------
(***************************************************************************)
(* For any number of writers, any contents and any bounds: the chain that  *)
(* concurrent calls of Log leave behind is one that verify-log accepts.    *)
(***************************************************************************)
EXTENDS WorkLog, SequenceTheorems, TLAPS

LogRow == [content : Contents, prev : Seq(Contents), hash : Seq(Contents)]

\* What the next entry continues is a hash.
LEMMA TailHashType ==
  ASSUME NEW l \in Seq(LogRow)
  PROVE  TailHash(l) \in Seq(Contents)
<1>1. CASE l = <<>>
  BY <1>1 DEF TailHash, NoHash
<1>2. CASE l # <<>>
  <2>1. l[Len(l)] \in LogRow
    BY <1>2
  <2>2. l[Len(l)].hash \in Seq(Contents)
    BY <2>1 DEF LogRow
  <2> QED BY <1>2, <2>2 DEF TailHash
<1> QED BY <1>1, <1>2

\* An entry made from a hash and a content is a row of the table.
LEMMA EntryType ==
  ASSUME NEW h \in Seq(Contents), NEW c \in Contents
  PROVE  /\ Entry(h, c) \in LogRow
         /\ Entry(h, c).prev = h
         /\ Entry(h, c).hash = entryHash(h, Entry(h, c).content)
         /\ Len(Entry(h, c).hash) = Len(h) + 1
BY DEF Entry, entryHash, LogRow

\* No two rows of a chain continue the same row: verify-log finds no fork, no
\* gap and no wrong hash in it.
LEMMA ChainHasNoBadRow ==
  ASSUME NEW l \in Seq(LogRow), Chained(l)
  PROVE  Intact(l)
<1>1. ASSUME NEW i \in 1..Len(l), BadRow(l, i) PROVE FALSE
  <2>1. /\ l[i].hash = entryHash(l[i].prev, l[i].content)
        /\ i > 1 => l[i].prev = l[i-1].hash
    BY DEF Chained
  <2>2. PICK j \in 1..(i-1) : l[j].prev = l[i].prev
    BY <1>1, <2>1 DEF BadRow
  <2>3. j \in 1..Len(l) /\ 1 \in 1..Len(l)
    OBVIOUS
  <2>4. /\ Len(l[i].prev) = Len(l[1].prev) + i - 1
        /\ Len(l[j].prev) = Len(l[1].prev) + j - 1
    BY <2>3 DEF Chained
  <2>5. Len(l[1].prev) \in Nat
    <3>1. l[1] \in LogRow
      BY <2>3
    <3> QED BY <3>1 DEF LogRow
  <2> QED BY <2>2, <2>4, <2>5
<1> QED BY <1>1 DEF Intact

\* So verify-log accepts every chain, one that continues an archive included.
THEOREM ChainIsIntact ==
  ASSUME NEW l \in Seq(LogRow), Chained(l)
  PROVE  VerifyLog(l) = 0
BY ChainHasNoBadRow DEF VerifyLog

\* A chain of one row, which may continue an archive.
LEMMA FirstRowChains ==
  ASSUME NEW h \in Seq(Contents), NEW c \in Contents
  PROVE  Chained(<<Entry(h, c)>>)
<1> DEFINE l == <<Entry(h, c)>>
<1>1. Len(l) = 1 /\ l[1] = Entry(h, c)
  OBVIOUS
<1>2. Len(h) \in Nat
  OBVIOUS
<1> QED BY <1>1, <1>2, EntryType DEF Chained

\* A row that continues the last one keeps the chain.
LEMMA ChainGrows ==
  ASSUME NEW l \in Seq(LogRow), Chained(l), NEW c \in Contents
  PROVE  Chained(Append(l, Entry(TailHash(l), c)))
<1> DEFINE e == Entry(TailHash(l), c)
           new == Append(l, e)
<1>1. TailHash(l) \in Seq(Contents)
  BY TailHashType
<1>2. /\ e \in LogRow
      /\ e.prev = TailHash(l)
      /\ e.hash = entryHash(e.prev, e.content)
  BY <1>1, EntryType
<1> HIDE DEF e
<1>3. CASE l = <<>>
  <2>1. Len(new) = 1 /\ new[1] = e
    BY <1>3
  <2>2. Len(e.prev) \in Nat
    BY <1>1, <1>2
  <2> HIDE DEF new
  <2>3. Chained(new)
    BY <1>2, <2>1, <2>2 DEF Chained
  <2> QED BY <2>3 DEF new, e
<1>4. CASE l # <<>>
  <2>1. /\ Len(l) \in Nat \ {0}
        /\ Len(new) = Len(l) + 1
        /\ new[Len(l) + 1] = e
        /\ \A i \in 1..Len(l) : new[i] = l[i]
    BY <1>2, <1>4
  <2>2. TailHash(l) = l[Len(l)].hash
    BY <1>4 DEF TailHash
  <2>3. /\ l[Len(l)] \in LogRow
        /\ l[1] \in LogRow
        /\ l[Len(l)].hash = entryHash(l[Len(l)].prev, l[Len(l)].content)
        /\ Len(l[Len(l)].prev) = Len(l[1].prev) + Len(l) - 1
    BY <2>1 DEF Chained
  <2>4. Len(l[Len(l)].hash) = Len(l[Len(l)].prev) + 1
    BY <2>3 DEF LogRow, entryHash
  <2>5. Len(l[1].prev) \in Nat
    BY <2>3 DEF LogRow
  <2> HIDE DEF new
  <2>6. ASSUME NEW i \in 1..Len(new)
        PROVE  /\ new[i].hash = entryHash(new[i].prev, new[i].content)
               /\ i > 1 => new[i].prev = new[i-1].hash
               /\ Len(new[i].prev) = Len(new[1].prev) + i - 1
    <3>1. new[1] = l[1]
      BY <2>1
    <3>2. CASE i \in 1..Len(l)
      <4>1. i > 1 => i-1 \in 1..Len(l)
        BY <3>2, <2>1
      <4> QED BY <2>1, <3>1, <3>2, <4>1 DEF Chained
    <3>3. CASE i = Len(l) + 1
      <4>1. new[i-1] = l[Len(l)]
        BY <2>1, <3>3
      <4> QED BY <1>2, <2>1, <2>2, <2>3, <2>4, <2>5, <3>1, <3>3, <4>1
    <3> QED BY <2>1, <3>2, <3>3
  <2>7. Chained(new)
    BY <2>6 DEF Chained
  <2> QED BY <2>7 DEF new, e
<1> QED BY <1>3, <1>4

\* Empty table, nobody inside a transaction.
LEMMA InitInv == Init => LogInv
BY DEF Init, LogInv, InTransaction, Chained, LogRow

\* Each step of a transaction, its end, and an archive-and-clear.
LEMMA StepInv == LogInv /\ [Next]_vars => LogInv'
<1> SUFFICES ASSUME LogInv, [Next]_vars PROVE LogInv'
  OBVIOUS
<1> USE DEF LogInv
<1>t. log \in Seq(LogRow)
  BY DEF LogRow
<1>1. ASSUME NEW w \in Writers, Begin(w) PROVE LogInv'
  BY <1>1, WritersAssumption DEF Begin, InTransaction
<1>2. ASSUME NEW w \in Writers, ReadPrev(w) PROVE LogInv'
  BY <1>2 DEF ReadPrev, InTransaction
<1>3. ASSUME NEW w \in Writers, Insert(w) PROVE LogInv'
  BY <1>3 DEF Insert, InTransaction
<1>4. ASSUME NEW w \in Writers, Commit(w) PROVE LogInv'
  <2>1. PICK content \in Contents : row[w] = Entry(TailHash(log), content)
    BY <1>4 DEF Commit, InTransaction
  <2>2. log' = Append(log, Entry(TailHash(log), content))
    BY <1>4, <2>1 DEF Commit
  <2>3. Chained(log')
    BY <1>t, <2>2, ChainGrows
  <2>4. log' \in Seq(LogRow)
    BY <1>t, <2>2, TailHashType, EntryType
  <2>5. InTransaction'
    BY <1>4, WritersAssumption DEF Commit, Ended, InTransaction
  <2> QED BY <1>4, <2>3, <2>4, <2>5 DEF Commit, Ended, LogRow
<1>5. ASSUME NEW w \in Writers, Rollback(w) PROVE LogInv'
  BY <1>5, WritersAssumption DEF Rollback, Ended, InTransaction
<1>6. ASSUME Reset PROVE LogInv'
  <2>1. PICK content \in Contents : log' = <<Entry(TailHash(log), content)>>
    BY <1>6 DEF Reset
  <2>2. Chained(log')
    BY <1>t, <2>1, TailHashType, FirstRowChains
  <2>3. log' \in Seq(LogRow)
    BY <1>t, <2>1, TailHashType, EntryType
  <2>4. InTransaction'
    BY <1>6, WritersAssumption DEF Reset, InTransaction
  <2> QED BY <1>6, <2>2, <2>3, <2>4 DEF Reset, LogRow
<1>7. CASE UNCHANGED vars
  BY <1>7 DEF vars, InTransaction
<1> QED BY <1>1, <1>2, <1>3, <1>4, <1>5, <1>6, <1>7 DEF Next

\* The invariant that TLC checks as LogInv, for every value of the constants.
THEOREM LogInvariance == Spec => []LogInv
<1> QED BY InitInv, StepInv, PTL DEF Spec

\* However calls of Log overlap, fail or are cut off, verify-log finds the
\* chain complete.
THEOREM LogAlwaysVerifies == Spec => []LogVerifies
<1>1. LogInv => LogVerifies
  BY ChainIsIntact DEF LogInv, LogVerifies, LogRow
<1> QED BY <1>1, LogInvariance, PTL
-----------------------------------------------------------------------------
(* Changed rows. *)

\* What a forger writes.
Text == Contents \cup {"forged"}

\* Two entries with the same hash continue the same one and say the same.
LEMMA HashesDiffer ==
  ASSUME NEW g \in Seq(Text), NEW h \in Seq(Text), NEW c \in Text, NEW d \in Text,
         entryHash(g, c) = entryHash(h, d)
  PROVE  g = h /\ c = d
BY AppendInjective DEF entryHash

\* The walk stops at the first row that is bad.
LEMMA FirstBadRow ==
  ASSUME NEW l, Len(l) \in Nat, NEW i \in 1..Len(l), BadRow(l, i),
         \A j \in 1..(i-1) : ~BadRow(l, j)
  PROVE  VerifyLog(l) = i
<1>1. ~Intact(l)  BY DEF Intact
<1>2. ASSUME NEW k \in 1..Len(l), BadRow(l, k), \A j \in 1..(k-1) : ~BadRow(l, j)
      PROVE  k = i
  <2>1. ~(k < i)  BY <1>2
  <2>2. ~(i < k)  BY <1>2
  <2> QED BY <2>1, <2>2
<1> HIDE DEF BadRow
<1> QED BY <1>1, <1>2 DEF VerifyLog

\* Whether a row is bad depends on it and on what is before it.
LEMMA BadRowLooksBack ==
  ASSUME NEW l, NEW k, NEW i \in Nat, \A j \in 1..i : l[j] = k[j], NEW j \in 1..i
  PROVE  BadRow(l, j) <=> BadRow(k, j)
<1>1. \A b \in 1..(j-1) : l[b] = k[b]  OBVIOUS
<1>2. j > 1 => j - 1 \in 1..i  OBVIOUS
<1> QED BY <1>1, <1>2 DEF BadRow

\* A value in place of another one in one column makes the row disagree with its
\* hash.
LEMMA ChangedRowIsBad ==
  ASSUME NEW l \in Seq(LogRow), Chained(l), NEW i \in 1..Len(l),
         NEW new \in Changed(l, i), new # l
  PROVE  /\ Len(new) = Len(l)
         /\ \A j \in 1..Len(l) : j # i => new[j] = l[j]
         /\ BadRow(new, i)
<1> DEFINE r == l[i]
<1>1. /\ r \in LogRow /\ r.content \in Text /\ r.prev \in Seq(Text) /\ r.hash \in Seq(Text)
      /\ r.hash = entryHash(r.prev, r.content)
  <2>1. r \in LogRow  BY ElementOfSeq
  <2>2. Contents \subseteq Text  BY DEF Text
  <2> QED BY <2>1, <2>2, SeqMonotonic DEF LogRow, Chained
<1>2. ASSUME NEW h \in Hashes(l) PROVE h \in Seq(Text)
  <2>1. <<>> \in Seq(Text)  BY EmptySeq
  <2>2. <<"forged">> \in Seq(Text)  BY DEF Text
  <2>3. ASSUME NEW j \in 1..Len(l) PROVE l[j].hash \in Seq(Text) /\ l[j].prev \in Seq(Text)
    <3>1. l[j] \in LogRow  BY ElementOfSeq
    <3>2. Contents \subseteq Text  BY DEF Text
    <3> QED BY <3>1, <3>2, SeqMonotonic DEF LogRow
  <2> QED BY <2>1, <2>2, <2>3 DEF Hashes
<1>3. \E row1 : /\ new = [l EXCEPT ![i] = row1]
                /\ row1 # r
                /\ row1.hash # entryHash(row1.prev, row1.content)
  <2>1. CASE \E c \in Contents \cup {"forged"} : new = [l EXCEPT ![i].content = c]
    <3>1. PICK c \in Text : new = [l EXCEPT ![i].content = c]  BY <2>1 DEF Text
    <3> DEFINE row1 == [r EXCEPT !.content = c]
    <3>2. new = [l EXCEPT ![i] = row1]  BY <3>1
    <3>3. row1.content = c /\ row1.prev = r.prev /\ row1.hash = r.hash
      BY <1>1 DEF LogRow
    <3>4. c # r.content
      <4>1. c = r.content => row1 = r  BY <1>1 DEF LogRow
      <4>2. row1 = r => new = l  BY <3>2
      <4> QED BY <4>1, <4>2
    <3> HIDE DEF row1, r
    <3>5. entryHash(r.prev, r.content) # entryHash(r.prev, c)
      BY <1>1, <3>4, HashesDiffer
    <3> QED BY <1>1, <3>2, <3>3, <3>4, <3>5
  <2>2. CASE \E h \in Hashes(l) : new = [l EXCEPT ![i].prev = h]
    <3>1. PICK h \in Hashes(l) : new = [l EXCEPT ![i].prev = h]  BY <2>2
    <3> DEFINE row1 == [r EXCEPT !.prev = h]
    <3>2. new = [l EXCEPT ![i] = row1]  BY <3>1
    <3>3. row1.content = r.content /\ row1.prev = h /\ row1.hash = r.hash
      BY <1>1 DEF LogRow
    <3>4. h # r.prev
      <4>1. h = r.prev => row1 = r  BY <1>1 DEF LogRow
      <4>2. row1 = r => new = l  BY <3>2
      <4> QED BY <4>1, <4>2
    <3> HIDE DEF row1, r
    <3>5. entryHash(r.prev, r.content) # entryHash(h, r.content)
      BY <1>1, <1>2, <3>4, HashesDiffer
    <3> QED BY <1>1, <3>2, <3>3, <3>4, <3>5
  <2>3. CASE \E h \in Hashes(l) : new = [l EXCEPT ![i].hash = h]
    <3>1. PICK h \in Hashes(l) : new = [l EXCEPT ![i].hash = h]  BY <2>3
    <3> DEFINE row1 == [r EXCEPT !.hash = h]
    <3>2. new = [l EXCEPT ![i] = row1]  BY <3>1
    <3>3. row1.content = r.content /\ row1.prev = r.prev /\ row1.hash = h
      BY <1>1 DEF LogRow
    <3>4. h # r.hash
      <4>1. h = r.hash => row1 = r  BY <1>1 DEF LogRow
      <4>2. row1 = r => new = l  BY <3>2
      <4> QED BY <4>1, <4>2
    <3> HIDE DEF row1, r
    <3> QED BY <1>1, <3>2, <3>3, <3>4
  <2> QED BY <2>1, <2>2, <2>3 DEF Changed
<1>4. PICK row1 : /\ new = [l EXCEPT ![i] = row1]
                  /\ row1.hash # entryHash(row1.prev, row1.content)
  BY <1>3
<1>5. /\ new[i] = row1 /\ Len(new) = Len(l)
      /\ \A j \in 1..Len(l) : j # i => new[j] = l[j]
  BY <1>4
<1> QED BY <1>4, <1>5 DEF BadRow

\* Any value the run tries in any column of any row of a chain: verify-log names
\* that row, for logs of any length.
THEOREM SingleChangesAreFound == Spec => []SingleChangeIsFound
<1>1. LogInv => SingleChangeIsFound
  <2> SUFFICES ASSUME LogInv, NEW i \in 1..Len(log), NEW l \in Changed(log, i), l # log
               PROVE  VerifyLog(l) = i
    BY DEF SingleChangeIsFound
  <2>1. log \in Seq(LogRow) /\ Chained(log)  BY DEF LogInv, LogRow
  <2>2. /\ Len(l) = Len(log) /\ Len(log) \in Nat
        /\ \A j \in 1..Len(log) : j # i => l[j] = log[j]
        /\ BadRow(l, i)
    BY <2>1, ChangedRowIsBad
  <2>3. Intact(log)  BY <2>1, ChainHasNoBadRow
  <2>4. ASSUME NEW j \in 1..(i-1) PROVE ~BadRow(l, j)
    <3>1. \A k \in 1..(i-1) : l[k] = log[k]  BY <2>2
    <3>2. BadRow(l, j) <=> BadRow(log, j)  BY <3>1, BadRowLooksBack
    <3>3. ~BadRow(log, j)  BY <2>2, <2>3 DEF Intact
    <3> QED BY <3>2, <3>3
  <2> QED BY <2>2, <2>4, FirstBadRow
<1> QED BY <1>1, LogInvariance, PTL
=============================================================================
