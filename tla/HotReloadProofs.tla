--------------------------- MODULE HotReloadProofs ---------------------------
(***************************************************************************)
(* For any number of goroutines and edits: if the file is left alone while *)
(* Load runs, lookups see every edit made before they began, and the       *)
(* stages in force never go back to an older version of the file.          *)
(***************************************************************************)
EXTENDS HotReload, TLAPS

\* Load has not read anything but the first version.
LEMMA InitInv == Init => ReloadInv
BY DEF Init, ReloadInv, Outcomes, StampIsHonest, FreshAfterStat

\* One step per action.  Reload is the one that can put an old stamp beside
\* new stages; the stages it loads are those of the file as it is.
LEMMA StepInv ==
  ASSUME EditsDuringLoad = FALSE
  PROVE  ReloadInv /\ [Next]_vars => ReloadInv'
<1> SUFFICES ASSUME ReloadInv, [Next]_vars PROVE ReloadInv'
  OBVIOUS
<1> USE DEF ReloadInv, StampIsHonest, FreshAfterStat, Outcomes
<1>1. ASSUME Edit PROVE ReloadInv'
  <2>1. PICK o \in Outcomes : disk' = [edit |-> disk.edit + 1, outcome |-> o]
    BY <1>1 DEF Edit
  <2>2. /\ disk'.edit = disk.edit + 1 /\ disk'.outcome = o
        /\ disk' \in [edit : Nat, outcome : Outcomes]
        /\ load = "done"
    BY <1>1, <2>1 DEF Edit
  <2>3. \A s \in Slots : info'[s] # disk'.edit
    BY <1>1, <2>2 DEF Edit
  <2> QED BY <1>1, <2>2, <2>3 DEF Edit
<1>2. ASSUME LoadParse PROVE ReloadInv'
  BY <1>2 DEF LoadParse
<1>3. ASSUME LoadStat PROVE ReloadInv'
  <2>1. /\ loaded = disk.edit /\ disk.outcome = "valid"
        /\ \A s \in Slots : pc[s] = "idle"
    BY <1>3 DEF LoadStat
  <2> QED BY <1>3, <2>1 DEF LoadStat
<1>4. ASSUME NEW s \in Slots, Stat(s) PROVE ReloadInv'
  BY <1>4 DEF Stat
<1>5. ASSUME NEW s \in Slots, Compare(s) PROVE ReloadInv'
  BY <1>5 DEF Compare
<1>6. ASSUME NEW s \in Slots, Reload(s) PROVE ReloadInv'
  <2>1. loaded' \in {loaded, disk.edit} /\ stamp' = info[s] /\ info' = info
    BY <1>6 DEF Reload
  <2>2. disk.outcome = "valid" /\ info[s] = disk.edit => loaded' = disk.edit
    BY <1>6 DEF Reload
  <2>3. load = "done"
    BY <1>6 DEF Reload
  <2> QED BY <1>6, <2>1, <2>2, <2>3 DEF Reload
<1>7. ASSUME NEW s \in Slots, Read(s) PROVE ReloadInv'
  BY <1>7 DEF Read
<1>8. CASE UNCHANGED vars
  BY <1>8 DEF vars
<1> QED BY <1>1, <1>2, <1>3, <1>4, <1>5, <1>6, <1>7, <1>8 DEF Next

\* The invariant that TLC checks as ReloadInv.
THEOREM ReloadInvariance ==
  ASSUME EditsDuringLoad = FALSE
  PROVE  Spec => []ReloadInv
<1>1. ReloadInv /\ [Next]_vars => ReloadInv'
  BY StepInv
<1> QED BY InitInv, <1>1, PTL DEF Spec

\* A lookup that began after the last edit sees what that edit wrote.
THEOREM LookupsAreFresh ==
  ASSUME EditsDuringLoad = FALSE
  PROVE  Spec => []FreshAfterStat
<1>1. Spec => []ReloadInv
  BY ReloadInvariance
<1>2. ReloadInv => FreshAfterStat
  BY DEF ReloadInv
<1> QED BY <1>1, <1>2, PTL

\* Overlapping reloads never put an older version in force.
THEOREM StagesGoForward ==
  ASSUME EditsDuringLoad = FALSE
  PROVE  Spec => VersionsGoForward
<1>1. Spec => []ReloadInv
  BY ReloadInvariance
<1>2. ReloadInv /\ [Next]_vars => [loaded' >= loaded]_loaded
  <2> SUFFICES ASSUME ReloadInv, [Next]_vars, loaded' # loaded
               PROVE  loaded' >= loaded
    OBVIOUS
  <2>1. loaded \in Nat /\ disk.edit \in Nat /\ loaded <= disk.edit
    BY DEF ReloadInv
  <2>2. loaded' = disk.edit
    BY DEF Next, vars, Edit, LoadParse, LoadStat, Stat, Compare, Reload, Read
  <2> QED BY <2>1, <2>2
<1> QED BY <1>1, <1>2, PTL DEF Spec, VersionsGoForward
=============================================================================
