------------------------------ MODULE HotReload ------------------------------
(***************************************************************************)
(* Reloading pipeline.yaml while the server runs.  Every lookup of the     *)
(* engine first compares the file's time stamp and size with those of the  *)
(* last load, and parses the file again when they differ.  Lookups of      *)
(* several goroutines and edits of the file overlap.  What the file says   *)
(* is told apart by the number of the edit that wrote it.                  *)
(***************************************************************************)
EXTENDS Naturals

CONSTANTS
  Slots,             \* goroutines that look something up
  MaxEdits,          \* bound on edits of the file
  EditsDuringLoad    \* may the file be edited while Load runs?

ASSUME ReloadAssumption == MaxEdits \in Nat /\ EditsDuringLoad \in BOOLEAN

VARIABLES
  disk,      \* pipeline.yaml: the edit that wrote it, and what came of it
  loaded,    \* the edit whose stages are in force
  stamp,     \* Pipeline.mtime and .size, as the edit they belong to
  watched,   \* Pipeline.path is set: lookups compare stamps at all
  load,      \* how far Load has come
  pc,        \* where the lookup of each goroutine is
  info       \* the stamp it was given by Stat

vars == <<disk, loaded, stamp, watched, load, pc, info>>

\* parseFile fails on YAML it cannot read, on no stages and on an automatic
\* merge stage alike.
Outcomes == {"valid", "broken", "gone"}

Init ==
  /\ disk = [edit |-> 0, outcome |-> "valid"]
  /\ loaded = 0
  /\ stamp = 0
  /\ watched = FALSE
  /\ load = "parse"
  /\ pc = [s \in Slots |-> "idle"]
  /\ info = [s \in Slots |-> 0]

\* External: somebody writes, breaks or removes the file.  Each edit changes
\* the time stamp or the size.
Edit ==
  /\ disk.edit < MaxEdits
  /\ load # "done" => EditsDuringLoad
  /\ \E o \in Outcomes : disk' = [edit |-> disk.edit + 1, outcome |-> o]
  /\ UNCHANGED <<loaded, stamp, watched, load, pc, info>>

\* A server whose first parse fails does not start.
LoadParse ==
  /\ load = "parse" /\ disk.outcome = "valid"
  /\ loaded' = disk.edit
  /\ load' = "stat"
  /\ UNCHANGED <<disk, stamp, watched, pc, info>>

LoadStat ==
  /\ load = "stat"
  /\ watched' = (disk.outcome # "gone")
  /\ stamp' = IF disk.outcome = "gone" THEN stamp ELSE disk.edit
  /\ load' = "done"
  /\ UNCHANGED <<disk, loaded, pc, info>>

-----------------------------------------------------------------------------
(* snapshot: refresh, then read. *)

\* Mutant: while another goroutine reloads, a lookup does not wait for it.
Stat_Skips(s) ==
  /\ load = "done" /\ pc[s] = "idle"
  /\ pc' = [pc EXCEPT ![s] =
              IF \E r \in Slots : pc[r] = "reload" THEN "read" ELSE "compare"]
  /\ info' = [info EXCEPT ![s] = disk.edit]
  /\ UNCHANGED <<disk, loaded, stamp, watched, load>>

Stat(s) ==
  /\ load = "done" /\ pc[s] = "idle"
  /\ pc' = [pc EXCEPT ![s] =
              IF watched /\ disk.outcome # "gone" THEN "compare" ELSE "read"]
  /\ info' = [info EXCEPT ![s] = disk.edit]
  /\ UNCHANGED <<disk, loaded, stamp, watched, load>>

\* Under the read lock.
Compare(s) ==
  /\ pc[s] = "compare"
  /\ pc' = [pc EXCEPT ![s] = IF info[s] = stamp THEN "read" ELSE "reload"]
  /\ UNCHANGED <<disk, loaded, stamp, watched, load, info>>

\* Mutant: what was parsed is what Stat saw, not what the file says now.
Reload_ParsedBefore(s) ==
  /\ pc[s] = "reload"
  /\ IF info[s] = stamp \/ disk.outcome # "valid" THEN UNCHANGED loaded
     ELSE loaded' = info[s]
  /\ stamp' = info[s]
  /\ pc' = [pc EXCEPT ![s] = "read"]
  /\ UNCHANGED <<disk, watched, load, info>>

\* Under the write lock: compare again, parse, keep the stages of a file that
\* does not parse, and take note of the stamp in either case.
Reload(s) ==
  /\ pc[s] = "reload"
  /\ IF info[s] = stamp \/ disk.outcome # "valid" THEN UNCHANGED loaded
     ELSE loaded' = disk.edit
  /\ stamp' = info[s]
  /\ pc' = [pc EXCEPT ![s] = "read"]
  /\ UNCHANGED <<disk, watched, load, info>>

Read(s) ==
  /\ pc[s] = "read"
  /\ pc' = [pc EXCEPT ![s] = "idle"]
  /\ info' = [info EXCEPT ![s] = 0]
  /\ UNCHANGED <<disk, loaded, stamp, watched, load>>

Next ==
  \/ Edit
  \/ LoadParse
  \/ LoadStat
  \/ \E s \in Slots :
       \/ Stat(s)
       \/ Compare(s)
       \/ Reload(s)
       \/ Read(s)

Spec == Init /\ [][Next]_vars

-----------------------------------------------------------------------------
(* Properties. *)

\* A lookup that began after the last edit sees what that edit wrote, unless
\* the file does not parse: neither a reload by another goroutine with an older
\* stamp nor a broken file in between makes it miss the edit.
FreshAfterStat ==
  \A s \in Slots :
    pc[s] = "read" /\ info[s] = disk.edit /\ disk.outcome = "valid"
      => loaded = disk.edit

\* The stages in force never go back to an older version of the file, however
\* slow reloads overlap.
VersionsGoForward == [][loaded' >= loaded]_loaded

-----------------------------------------------------------------------------
(* What makes them inductive. *)

\* A noted stamp that is still the file's stamp tells the truth.
StampIsHonest == stamp = disk.edit /\ disk.outcome = "valid" => loaded = disk.edit

\* The inductive invariant of the proof, types and bounds included.
ReloadInv ==
  /\ disk \in [edit : Nat, outcome : Outcomes]
  /\ loaded \in Nat /\ stamp \in Nat
  /\ pc \in [Slots -> {"idle", "compare", "reload", "read"}]
  /\ info \in [Slots -> Nat]
  /\ loaded <= disk.edit /\ stamp <= disk.edit
  /\ \A s \in Slots : info[s] <= disk.edit
  /\ load \in {"parse", "stat", "done"}
  /\ load # "done" => /\ loaded = disk.edit
                      /\ disk.outcome = "valid"
                      /\ \A s \in Slots : pc[s] = "idle"
  /\ load = "done" => watched
  /\ StampIsHonest
  /\ FreshAfterStat
=============================================================================
