------------------------------ MODULE TaskDirs ------------------------------
(***************************************************************************)
(* The directory tasks/ and those who change it: requests that create a    *)
(* task, each in its goroutine, and people.  Directories TASK-n are told   *)
(* apart by their number; of a task.md only its version matters.           *)
(***************************************************************************)
EXTENDS Naturals, FiniteSets

CONSTANTS
  MaxNumber,   \* bound on the numbers of tasks
  Versions,    \* versions of a task.md
  Creators     \* goroutines that serve createTask

ASSUME NumberAssumption == MaxNumber \in Nat \ {0}

VARIABLES
  disk,      \* what each directory holds
  creator    \* where each creation is, and the number it tries next

dirVars == <<disk, creator>>

Numbers == 1..MaxNumber

\* No directory; a directory without a readable task.md.
Gone == "gone"
Empty == "empty"

ASSUME VersionsAssumption == Gone \notin Versions /\ Empty \notin Versions

NoCreation == [pc |-> "idle", next |-> 1]

Present == {d \in Numbers : disk[d] # Gone}

DirsInit ==
  /\ disk \in [Numbers -> {Gone, Empty} \cup Versions]
  /\ creator = [c \in Creators |-> NoCreation]

-----------------------------------------------------------------------------
(* createTaskDir, then the rest of createTask. *)

\* One above the highest number in the listing.
ListDirs(c) ==
  /\ creator[c].pc = "idle"
  /\ \E n \in Numbers :
       /\ \A d \in Present : d < n
       /\ n = 1 \/ n - 1 \in Present
       /\ creator' = [creator EXCEPT ![c] = [pc |-> "mkdir", next |-> n]]
  /\ UNCHANGED disk

\* Mutant: MkdirAll, which is content with a directory that is there.
Mkdir_All(c) ==
  /\ creator[c].pc = "mkdir"
  /\ disk' = [disk EXCEPT ![creator[c].next] = IF @ = Gone THEN Empty ELSE @]
  /\ creator' = [creator EXCEPT ![c].pc = "fill"]

\* Mkdir fails on a directory that is there; the next number is tried, up to the
\* bound MaxNumber.
Mkdir(c) ==
  /\ creator[c].pc = "mkdir"
  /\ LET n == creator[c].next IN
     IF disk[n] = Gone
     THEN /\ disk' = [disk EXCEPT ![n] = Empty]
          /\ creator' = [creator EXCEPT ![c].pc = "fill"]
     ELSE /\ creator' = [creator EXCEPT ![c] =
                           IF n < MaxNumber THEN [pc |-> "mkdir", next |-> n + 1] ELSE NoCreation]
          /\ UNCHANGED disk

\* WriteFile; when it fails the directory stays behind without a task.md.
Fill(c) ==
  /\ creator[c].pc = "fill"
  /\ \E v \in Versions \cup {Empty} : disk' = [disk EXCEPT ![creator[c].next] = v]
  /\ creator' = [creator EXCEPT ![c] = NoCreation]

-----------------------------------------------------------------------------
(* External: people and sessions write a task.md, move a directory in and    *)
(* take one away.  They leave the ones just being created alone.             *)

BeingCreated(d) == \E c \in Creators : creator[c] = [pc |-> "fill", next |-> d]

Write(d) ==
  /\ d \in Present /\ ~BeingCreated(d)
  /\ \E v \in Versions \ {disk[d]} : disk' = [disk EXCEPT ![d] = v]
  /\ UNCHANGED creator

MoveIn(d) ==
  /\ d \notin Present
  /\ \E v \in Versions : disk' = [disk EXCEPT ![d] = v]
  /\ UNCHANGED creator

Remove(d) ==
  /\ d \in Present /\ ~BeingCreated(d)
  /\ disk' = [disk EXCEPT ![d] = Gone]
  /\ UNCHANGED creator

Creation == \E c \in Creators : ListDirs(c) \/ Mkdir(c) \/ Fill(c)

ByHand == \E d \in Numbers : Write(d) \/ MoveIn(d) \/ Remove(d)

-----------------------------------------------------------------------------

\* Two creations never fill the same directory, however their listings and
\* their attempts overlap: each task is born under a number of its own.
NumbersAreUnique ==
  \A b, c \in Creators :
    b # c /\ creator[b].pc = "fill" /\ creator[c].pc = "fill"
      => creator[b].next # creator[c].next
=============================================================================
