-------------------------- MODULE RefinementProofs --------------------------
(***************************************************************************)
(* That the running server, as long as requests do not overlap, implements *)
(* TaskLifecycle: for every pipeline, any tasks, any number of crashes and *)
(* whatever is refused.  A request under way has carried out a prefix of   *)
(* its plan on the rows and the file it found (Faithful); where it ends,   *)
(* is refused or is cut off by a crash, that prefix is the one step of     *)
(* TaskLifecycle it amounts to.  What TaskLifecycleProofs and              *)
(* TaskStepProofs say then holds of the server.                            *)
(***************************************************************************)
EXTENDS HandlersRefinement, HandlersProofs, FiniteSetTheorems

\* One goroutine, and the role query does not fail: a request goes on without
\* asking for a role when it does, which TaskLifecycle does not allow.
OneAfterAnother == (\E x : Slots = {x}) /\ "route" \notin Refusals

-----------------------------------------------------------------------------
(* How far a request has come. *)

By(r) == IF r.call = "merged" THEN "webhook" ELSE r.user

\* The rows a request leaves behind, from those it found.
DecidedRows(r) ==
  IF PlanOf(r).decide = "" THEN r.rows
  ELSE Decide(r.rows, r.m.stage, PlanOf(r).decide, By(r))

OpenedRows(r) ==
  IF PlanOf(r).open = NoStage THEN DecidedRows(r)
  ELSE NewApproval(DecidedRows(r), PlanOf(r).open)

\* The request was let in, and its decision will find a row.
LetIn(r) ==
  /\ PlanOf(r).ok
  /\ r.call \in Decidable => CanDecide(r.user, ApprovalRoleOf(r.rows))
  /\ r.pc = "decide" => PlanOf(r).decide # ""
  /\ r.pc \in Effect /\ PlanOf(r).decide # "" => HasPending(r.rows, r.m.stage)

\* The rows are those it found, with what it has done to them since.
RowsFollow(r, rowsOf) ==
  /\ r.pc \in {"search", "decide"} => rowsOf[r.t] = r.rows
  /\ r.pc = "open" => rowsOf[r.t] = DecidedRows(r)
  /\ r.pc \in {"read", "truncate", "write", "index"} => rowsOf[r.t] = OpenedRows(r)

Faithful(r, rowsOf, tornOf) ==
  /\ r.pc \notin {"idle", "fill"} /\ r.call \in Decidable => r.user \in Roles
  /\ r.pc = "parse" /\ r.call \in Decidable
       => CanDecide(r.user, ApprovalRoleOf(rowsOf[r.t]))
  /\ r.pc = "search" => r.call = "advance"
  /\ r.pc \in Holding => Readable(r.m) /\ Len(r.rows) <= MaxRows + 1
  /\ r.pc \in Holding \ {"search"} => LetIn(r)
  /\ RowsFollow(r, rowsOf)
  /\ r.pc \in Holding \ {"write"} => ~tornOf[r.t]
  /\ r.pc \in {"write", "fill"} => tornOf[r.t]
  /\ r.pc = "fill" => r.m = Absent /\ r.rows = <<>>

\* A task that was never there has no rows.
NoFileNoRows == \A t \in Tasks : file[t] = Absent => approval[t] = <<>>

RowsBounded == \A t \in Tasks : Len(approval[t]) <= MaxRows + 1

SerialInv ==
  /\ torn \in [Tasks -> BOOLEAN] /\ broken \in [Tasks -> BOOLEAN]
  /\ NoFileNoRows
  /\ RowsBounded
  /\ \A s \in Procs : Faithful(slot[s], approval, torn)

-----------------------------------------------------------------------------
(* Plans and rows. *)

LEMMA ReadableIsThere == \A m : Readable(m) => m # Absent
<1>1. Absent.status = "absent" /\ "absent" \notin Statuses  BY DEF Absent, Statuses
<1> QED BY <1>1 DEF Readable

\* Decide keeps the number of rows.
LEMMA DecideKeepsLength ==
  ASSUME NEW rows \in Seq(ApprovalRow), NEW stage, NEW decision, NEW by
  PROVE  Len(Decide(rows, stage, decision, by)) = Len(rows)
BY DEF Decide

\* A request that only moves on leaves the same behind.
LEMMA SameEffects ==
  ASSUME NEW r, NEW new, new.call = r.call, new.m = r.m, new.basis = r.basis,
         new.user = r.user, new.rows = r.rows
  PROVE  /\ PlanOf(new) = PlanOf(r)
         /\ DecidedRows(new) = DecidedRows(r) /\ OpenedRows(new) = OpenedRows(r)
BY SamePlan DEF DecidedRows, OpenedRows, By

-----------------------------------------------------------------------------
(* SerialInv is kept. *)

LEMMA IdleIsFaithful == \A rowsOf, tornOf : Faithful(Idle, rowsOf, tornOf)
<1>1. Idle.pc = "idle"  BY DEF Idle
<1> QED BY <1>1 DEF Faithful, RowsFollow, Holding

\* The only request under way goes on to the state new.
LEMMA SerialMoves ==
  ASSUME GateTypes, NEW s \in Procs, \A p \in Procs : p # s => slot[p] = Idle,
         NEW new, slot' = [slot EXCEPT ![s] = new], Faithful(new, approval', torn'),
         torn' \in [Tasks -> BOOLEAN], broken' \in [Tasks -> BOOLEAN],
         NoFileNoRows', RowsBounded'
  PROVE  SerialInv'
<1>1. ASSUME NEW p \in Procs PROVE Faithful(slot'[p], approval', torn')
  <2>1. CASE p = s
    <3>1. slot'[p] = new  BY <2>1 DEF GateTypes
    <3> QED BY <3>1
  <2>2. CASE p # s
    <3>1. slot'[p] = Idle  BY <2>2 DEF GateTypes
    <3> QED BY <3>1, IdleIsFaithful
  <2> QED BY <2>1, <2>2
<1> QED BY <1>1 DEF SerialInv

\* What is known of the request that is under way.
Alone(s) ==
  /\ GateTypes /\ slot[s] \in Request /\ slot[s].t \in Tasks /\ slot[s].pc # "idle"
  /\ slot[s].pc # "fill" => slot[s].call \in Calls
  /\ slot[s].pc = "open" => PlanOf(slot[s]).open # NoStage
  /\ slot[s].m \in Meta
  /\ UpToDate(slot[s], file)
  /\ Faithful(slot[s], approval, torn)
  /\ \A p \in Procs : p # s => slot[p] = Idle

LEMMA RequestIsAlone ==
  ASSUME GateInv, PauseInv, SerialInv, OneSlot, NEW s \in Procs, slot[s].pc # "idle"
  PROVE  Alone(s)
<1>1. /\ GateTypes /\ slot[s] \in Request /\ slot[s].t \in Tasks
      /\ slot[s].pc # "fill" => slot[s].call \in Calls
  BY SlotFacts DEF GateInv
<1>2. slot[s].m \in Meta  BY <1>1 DEF Request
<1>4. slot[s].pc = "open" => PlanOf(slot[s]).open # NoStage
  BY SlotFacts DEF Good
<1>3. UpToDate(slot[s], file) /\ \A p \in Procs : p # s => slot[p] = Idle
  BY OthersAreIdle DEF PauseInv
<1> QED BY <1>1, <1>2, <1>3, <1>4 DEF Alone, SerialInv

\* Nothing but the request changes, and the history of calls cut off.
LEMMA OnlyMoves ==
  ASSUME SerialInv, NEW s \in Procs, Alone(s), NEW new,
         slot' = [slot EXCEPT ![s] = new], Faithful(new, approval, torn),
         UNCHANGED <<file, approval, torn>>, broken' \in [Tasks -> BOOLEAN]
  PROVE  SerialInv'
<1>1. NoFileNoRows' /\ RowsBounded'  BY DEF SerialInv, NoFileNoRows, RowsBounded
<1>2. torn' \in [Tasks -> BOOLEAN]  BY DEF SerialInv
<1>3. Faithful(new, approval', torn')  OBVIOUS
<1> QED BY <1>1, <1>2, <1>3, SerialMoves DEF Alone

\* The call ends, or is refused.
LEMMA StopsSerial ==
  ASSUME SerialInv, NEW s \in Procs, Alone(s), slot' = [slot EXCEPT ![s] = Idle],
         UNCHANGED <<file, approval, torn>>, broken' \in [Tasks -> BOOLEAN]
  PROVE  SerialInv'
BY IdleIsFaithful, OnlyMoves

LEMMA AbandonTypes ==
  ASSUME SerialInv, NEW s \in Procs, Alone(s), Abandon(s)
  PROVE  broken' \in [Tasks -> BOOLEAN]
<1> DEFINE t == slot[s].t
<1>1. t \in Tasks /\ broken \in [Tasks -> BOOLEAN]  BY DEF Alone, SerialInv
<1>2. broken' \in {broken, [broken EXCEPT ![t] = TRUE]}  BY DEF Abandon
<1> HIDE DEF t
<1> QED BY <1>1, <1>2

\* The place of the request changes, and nothing else about it.
LEMMA Moved ==
  ASSUME NEW r \in Request, NEW pc
  PROVE  LET new == [r EXCEPT !.pc = pc] IN
         /\ new.pc = pc /\ new.call = r.call /\ new.t = r.t /\ new.user = r.user
         /\ new.m = r.m /\ new.rows = r.rows /\ PlanOf(new) = PlanOf(r)
         /\ DecidedRows(new) = DecidedRows(r) /\ OpenedRows(new) = OpenedRows(r)
<1> DEFINE new == [r EXCEPT !.pc = pc]
<1>1. /\ new.pc = pc /\ new.call = r.call /\ new.t = r.t /\ new.user = r.user
      /\ new.m = r.m /\ new.rows = r.rows /\ new.basis = r.basis
  BY DEF Request
<1> HIDE DEF new
<1>2. /\ PlanOf(new) = PlanOf(r)
      /\ DecidedRows(new) = DecidedRows(r) /\ OpenedRows(new) = OpenedRows(r)
  BY <1>1, SameEffects
<1> QED BY <1>1, <1>2 DEF new

LEMMA RouteSerial ==
  ASSUME SerialInv, OneAfterAnother, NEW s \in Procs, Alone(s), Route(s)
  PROVE  SerialInv'
<1> DEFINE r == slot[s]
           new == [r EXCEPT !.pc = "parse"]
<1>1. UNCHANGED <<file, approval, torn, broken>> /\ r.pc = "route"  BY DEF Route
<1>2. \/ slot' = [slot EXCEPT ![s] = Idle]
      \/ /\ slot' = [slot EXCEPT ![s] = new]
         /\ CanDecide(r.user, ApprovalRoleOf(approval[r.t]))
  BY DEF Route, Goto, OneAfterAnother
<1>3. broken' \in [Tasks -> BOOLEAN]  BY <1>1 DEF SerialInv
<1>4. ASSUME CanDecide(r.user, ApprovalRoleOf(approval[r.t]))
      PROVE  Faithful(new, approval, torn)
  <2>1. r \in Request /\ Faithful(r, approval, torn)  BY DEF Alone
  <2>2. new.pc = "parse" /\ new.call = r.call /\ new.t = r.t /\ new.user = r.user
    BY <2>1, Moved
  <2> HIDE DEF new, r
  <2> QED BY <1>1, <1>4, <2>1, <2>2 DEF Faithful, RowsFollow, Holding
<1> HIDE DEF new, r
<1> QED BY <1>1, <1>2, <1>3, <1>4, OnlyMoves, StopsSerial

LEMMA ParseSerial ==
  ASSUME SerialInv, OneAfterAnother, NEW s \in Procs, Alone(s), Parse(s)
  PROVE  SerialInv'
<1> DEFINE r == slot[s]
           q == [r EXCEPT !.m = OnDisk(r.t),
                          !.rows = IF Serial THEN approval[r.t] ELSE <<>>]
           next == IF q.call = "advance" THEN "search" ELSE FirstEffect(PlanOf(q))
           new == [q EXCEPT !.pc = next]
<1>1. UNCHANGED <<file, approval, torn, broken>> /\ r.pc = "parse"  BY DEF Parse
<1>2. slot' = [slot EXCEPT ![s] = IF Admitted(q) THEN new ELSE Idle]  BY DEF Parse
<1>3. broken' \in [Tasks -> BOOLEAN]  BY <1>1 DEF SerialInv
<1>4. Serial  BY FS_Singleton DEF OneAfterAnother, Serial
<1>5. /\ r \in Request /\ r.t \in Tasks /\ r.call \in Calls
      /\ Faithful(r, approval, torn)
  BY <1>1 DEF Alone
<1>6. /\ q.m = OnDisk(r.t) /\ q.rows = approval[r.t] /\ q.t = r.t /\ q.call = r.call
      /\ q.user = r.user /\ q.basis = r.basis
  BY <1>4, <1>5 DEF Request
<1>7. /\ new.pc = next /\ new.m = q.m /\ new.rows = q.rows /\ new.t = r.t
      /\ new.call = r.call /\ new.user = r.user /\ new.basis = q.basis
  BY <1>5 DEF Request
<1>8. /\ next \in {"search", "decide", "open", "read"}
      /\ next = "search" <=> r.call = "advance"
      /\ next = "decide" => PlanOf(q).decide # ""
      /\ next = "open" => PlanOf(q).decide = ""
      /\ next = "read" => PlanOf(q).decide = "" /\ PlanOf(q).open = NoStage
  BY <1>6 DEF FirstEffect
<1> HIDE DEF q, next, new, r
<1>9. ASSUME Admitted(q) PROVE Faithful(new, approval, torn)
  <2>1. PlanOf(new) = PlanOf(q) /\ DecidedRows(new) = DecidedRows(q)
        /\ OpenedRows(new) = OpenedRows(q)
    BY <1>6, <1>7, SameEffects
  <2>2. Readable(q.m) /\ (r.call # "advance" => PlanOf(q).ok)
    BY <1>6, <1>9 DEF Admitted
  <2>3. ~torn[r.t]
    BY <1>6, <2>2 DEF OnDisk, Readable, Unreadable, Statuses
  <2>4. Len(approval[r.t]) <= MaxRows + 1  BY <1>5 DEF SerialInv, RowsBounded
  <2>5. r.call \in Decidable =>
          r.user \in Roles /\ CanDecide(r.user, ApprovalRoleOf(approval[r.t]))
    BY <1>1, <1>5 DEF Faithful, r
  <2>6. new.pc # "search" => LetIn(new)
    BY <1>6, <1>7, <1>8, <2>1, <2>2, <2>5 DEF LetIn, Effect
  <2>7. RowsFollow(new, approval)
    BY <1>6, <1>7, <1>8, <2>1 DEF RowsFollow, DecidedRows, OpenedRows
  <2> QED BY <1>6, <1>7, <1>8, <2>2, <2>3, <2>4, <2>5, <2>6, <2>7 DEF Faithful, Holding
<1> QED BY <1>1, <1>2, <1>3, <1>9, OnlyMoves, StopsSerial

LEMMA SearchSerial ==
  ASSUME SerialInv, NEW s \in Procs, Alone(s), Search(s)
  PROVE  SerialInv'
<1> DEFINE r == slot[s]
<1>1. PICK basis \in BOOLEAN :
        LET q == [r EXCEPT !.basis = basis] IN
        IF PlanOf(q).ok
        THEN slot' = [slot EXCEPT ![s] = [q EXCEPT !.pc = FirstEffect(PlanOf(q))]]
        ELSE slot' = [slot EXCEPT ![s] = Idle]
  BY DEF Search
<1> DEFINE q == [r EXCEPT !.basis = basis]
           next == FirstEffect(PlanOf(q))
           new == [q EXCEPT !.pc = next]
<1>2. UNCHANGED <<file, approval, torn, broken>> /\ r.pc = "search"  BY DEF Search
<1>3. broken' \in [Tasks -> BOOLEAN]  BY <1>2 DEF SerialInv
<1>4. /\ r \in Request /\ r.t \in Tasks /\ Faithful(r, approval, torn)
  BY DEF Alone
<1>5. /\ q.m = r.m /\ q.rows = r.rows /\ q.t = r.t /\ q.call = r.call
      /\ q.user = r.user
      /\ new.pc = next /\ new.m = q.m /\ new.rows = q.rows /\ new.t = r.t
      /\ new.call = r.call /\ new.user = r.user /\ new.basis = q.basis
  BY <1>4 DEF Request
<1>6. /\ next \in {"decide", "open", "read"}
      /\ next = "decide" => PlanOf(q).decide # ""
      /\ next = "open" => PlanOf(q).decide = ""
      /\ next = "read" => PlanOf(q).decide = "" /\ PlanOf(q).open = NoStage
  BY DEF FirstEffect
<1>7. \/ PlanOf(q).ok /\ slot' = [slot EXCEPT ![s] = new]
      \/ slot' = [slot EXCEPT ![s] = Idle]
  BY <1>1
<1> HIDE DEF q, next, new, r
<1>8. ASSUME PlanOf(q).ok PROVE Faithful(new, approval, torn)
  <2>1. PlanOf(new) = PlanOf(q) /\ DecidedRows(new) = DecidedRows(q)
        /\ OpenedRows(new) = OpenedRows(q)
    BY <1>5, SameEffects
  <2>2. /\ r.call = "advance" /\ Readable(r.m) /\ Len(r.rows) <= MaxRows + 1
        /\ ~torn[r.t] /\ approval[r.t] = r.rows
    BY <1>2, <1>4 DEF Faithful, Holding, RowsFollow
  <2>3. LetIn(new)
    BY <1>5, <1>6, <1>8, <2>1, <2>2 DEF LetIn, Effect, Decidable
  <2>4. RowsFollow(new, approval)
    BY <1>5, <1>6, <2>1, <2>2 DEF RowsFollow, DecidedRows, OpenedRows
  <2> QED BY <1>5, <1>6, <2>2, <2>3, <2>4 DEF Faithful, Holding, Decidable
<1> QED BY <1>2, <1>3, <1>7, <1>8, OnlyMoves, StopsSerial

\* A request that goes on to pc, past its decision.
LEMMA GoesOnFaithfully ==
  ASSUME NEW r \in Request, NEW rows, NEW rowsOf, NEW tears, NEW tornOf,
         Faithful(r, rows, tears),
         r.pc \in Holding \ {"search"},
         NEW pc \in {"open", "read", "truncate", "write", "index"},
         PlanOf(r).decide # "" => HasPending(r.rows, r.m.stage),
         RowsFollow([r EXCEPT !.pc = pc], rowsOf),
         tornOf[r.t] <=> pc = "write"
  PROVE  Faithful([r EXCEPT !.pc = pc], rowsOf, tornOf)
<1> DEFINE new == [r EXCEPT !.pc = pc]
<1>1. /\ new.pc = pc /\ new.call = r.call /\ new.t = r.t /\ new.user = r.user
      /\ new.m = r.m /\ new.rows = r.rows /\ PlanOf(new) = PlanOf(r)
  BY Moved
<1> HIDE DEF new
<1>2. /\ LetIn(r) /\ Readable(r.m) /\ Len(r.rows) <= MaxRows + 1
      /\ r.call \in Decidable => r.user \in Roles
  BY DEF Faithful, Holding
<1>3. LetIn(new)  BY <1>1, <1>2 DEF LetIn, Effect
<1>4. Faithful(new, rowsOf, tornOf)
  BY <1>1, <1>2, <1>3 DEF Faithful, Holding, new
<1> QED BY <1>4 DEF new

LEMMA DecideSerial ==
  ASSUME SerialInv, NEW s \in Procs, Alone(s), DecideRows(s)
  PROVE  SerialInv'
<1> DEFINE r == slot[s]
           rows == Decide(approval[r.t], r.m.stage, PlanOf(r).decide, By(r))
           next == IF PlanOf(r).open # NoStage THEN "open" ELSE "read"
           new == [r EXCEPT !.pc = next]
<1>1. UNCHANGED <<file, torn, broken>> /\ r.pc = "decide"  BY DEF DecideRows
<1>2. broken' \in [Tasks -> BOOLEAN] /\ torn' \in [Tasks -> BOOLEAN]
  BY <1>1 DEF SerialInv
<1>3. /\ r \in Request /\ r.t \in Tasks /\ Faithful(r, approval, torn)
      /\ approval \in [Tasks -> Seq(ApprovalRow)] /\ file[r.t] = r.m
  BY <1>1 DEF Alone, GateTypes, UpToDate, Copying
<1>4. \/ slot' = [slot EXCEPT ![s] = Idle] /\ approval' = approval
      \/ /\ HasPending(approval[r.t], r.m.stage)
         /\ approval' = [approval EXCEPT ![r.t] = rows]
         /\ slot' = [slot EXCEPT ![s] = new]
  BY DEF DecideRows, Goto, By
<1>5. CASE slot' = [slot EXCEPT ![s] = Idle] /\ approval' = approval
  BY <1>1, <1>2, <1>5, StopsSerial
<1>6. CASE /\ HasPending(approval[r.t], r.m.stage)
           /\ approval' = [approval EXCEPT ![r.t] = rows]
           /\ slot' = [slot EXCEPT ![s] = new]
  <2>1. /\ Readable(r.m) /\ ~torn[r.t] /\ approval[r.t] = r.rows
        /\ PlanOf(r).decide # ""
    BY <1>1, <1>3 DEF Faithful, Holding, RowsFollow, LetIn
  <2>2. rows = DecidedRows(r)  BY <2>1 DEF DecidedRows
  <2>3. Len(rows) = Len(approval[r.t])  BY <1>3, DecideKeepsLength
  <2>4. /\ next \in {"open", "read"}
        /\ next = "read" => PlanOf(r).open = NoStage
    OBVIOUS
  <2> HIDE DEF rows, r, next
  <2>5. /\ new.pc = next /\ new.t = r.t
        /\ DecidedRows(new) = DecidedRows(r) /\ OpenedRows(new) = OpenedRows(r)
    BY <1>3, Moved
  <2> HIDE DEF new
  <2>6. /\ approval'[r.t] = rows
        /\ \A t \in Tasks : t # r.t => approval'[t] = approval[t]
    BY <1>3, <1>6
  <2>7. RowsBounded'  BY <2>3, <2>6 DEF SerialInv, RowsBounded
  <2>8. NoFileNoRows'
    <3>1. file[r.t] # Absent  BY <1>3, <2>1, ReadableIsThere
    <3> QED BY <1>1, <2>6, <3>1 DEF SerialInv, NoFileNoRows
  <2>9. RowsFollow(new, approval')
    BY <2>2, <2>4, <2>5, <2>6 DEF RowsFollow, OpenedRows
  <2>10. Faithful(new, approval', torn')
    BY <1>1, <1>3, <1>6, <2>1, <2>4, <2>9, GoesOnFaithfully DEF Holding, new
  <2> QED BY <1>2, <1>6, <2>7, <2>8, <2>10, SerialMoves DEF Alone
<1> QED BY <1>4, <1>5, <1>6

LEMMA OpenSerial ==
  ASSUME SerialInv, NEW s \in Procs, Alone(s), OpenRow(s)
  PROVE  SerialInv'
<1> DEFINE r == slot[s]
           rows == NewApproval(approval[r.t], PlanOf(r).open)
           new == [r EXCEPT !.pc = "read"]
<1>1. /\ UNCHANGED <<file, torn, broken>> /\ r.pc = "open"
      /\ Len(approval[r.t]) <= MaxRows
      /\ approval' = [approval EXCEPT ![r.t] = rows]
      /\ slot' = [slot EXCEPT ![s] = new]
  BY DEF OpenRow, Goto
<1>2. broken' \in [Tasks -> BOOLEAN] /\ torn' \in [Tasks -> BOOLEAN]
  BY <1>1 DEF SerialInv
<1>3. /\ r \in Request /\ r.t \in Tasks /\ Faithful(r, approval, torn)
      /\ approval \in [Tasks -> Seq(ApprovalRow)] /\ file[r.t] = r.m
  BY <1>1 DEF Alone, GateTypes, UpToDate, Copying
<1>4. /\ Readable(r.m) /\ ~torn[r.t] /\ approval[r.t] = DecidedRows(r)
      /\ PlanOf(r).decide # "" => HasPending(r.rows, r.m.stage)
  BY <1>1, <1>3 DEF Faithful, Holding, RowsFollow, LetIn, Effect
<1>5. Len(rows) <= MaxRows + 1
  <2>1. Len(rows) = Len(approval[r.t]) + 1 /\ Len(approval[r.t]) \in Nat
    BY <1>3 DEF NewApproval
  <2> HIDE DEF rows, r
  <2> QED BY <1>1, <2>1, HandlersAssumption
<1>6. /\ new.pc = "read" /\ new.t = r.t /\ OpenedRows(new) = OpenedRows(r)
  BY <1>3, Moved
<1>7. rows = OpenedRows(r)  BY <1>1, <1>4 DEF OpenedRows, Alone
<1> HIDE DEF rows, new, r
<1>8. /\ approval'[r.t] = rows
      /\ \A t \in Tasks : t # r.t => approval'[t] = approval[t]
  BY <1>1, <1>3
<1>9. RowsBounded'  BY <1>5, <1>8 DEF SerialInv, RowsBounded
<1>10. NoFileNoRows'
  <2>1. file[r.t] # Absent  BY <1>3, <1>4, ReadableIsThere
  <2> QED BY <1>1, <1>8, <2>1 DEF SerialInv, NoFileNoRows
<1>11. RowsFollow(new, approval')  BY <1>6, <1>7, <1>8 DEF RowsFollow
<1>12. Faithful(new, approval', torn')
  BY <1>1, <1>3, <1>4, <1>11, GoesOnFaithfully DEF Holding, new
<1> QED BY <1>1, <1>2, <1>9, <1>10, <1>12, SerialMoves DEF Alone

LEMMA ReadBodySerial ==
  ASSUME SerialInv, NEW s \in Procs, Alone(s), ReadBody(s)
  PROVE  SerialInv'
<1> DEFINE r == slot[s]
           new == [r EXCEPT !.pc = "truncate"]
<1>1. UNCHANGED <<file, approval, torn>> /\ r.pc = "read"  BY DEF ReadBody
<1>2. /\ r \in Request /\ Faithful(r, approval, torn)  BY DEF Alone
<1>3. CASE Abandon(s)
  <2>1. slot' = [slot EXCEPT ![s] = Idle]  BY <1>3 DEF Abandon
  <2> QED BY <1>1, <1>3, <2>1, AbandonTypes, StopsSerial
<1>4. CASE ~Abandon(s)
  <2>1. slot' = [slot EXCEPT ![s] = new] /\ broken' = broken
    BY <1>4 DEF ReadBody, Goto
  <2>2. new.pc = "truncate" /\ new.t = r.t /\ OpenedRows(new) = OpenedRows(r)
    BY <1>2, Moved
  <2> HIDE DEF new, r
  <2>3. /\ ~torn[r.t] /\ approval[r.t] = OpenedRows(r)
        /\ PlanOf(r).decide # "" => HasPending(r.rows, r.m.stage)
    BY <1>1, <1>2 DEF Faithful, Holding, RowsFollow, LetIn, Effect
  <2>4. RowsFollow(new, approval)  BY <2>2, <2>3 DEF RowsFollow
  <2>5. Faithful(new, approval, torn)
    BY <1>1, <1>2, <2>3, <2>4, GoesOnFaithfully DEF Holding, new
  <2>6. broken' \in [Tasks -> BOOLEAN]  BY <2>1 DEF SerialInv
  <2> QED BY <1>1, <2>1, <2>5, <2>6, OnlyMoves
<1> QED BY <1>3, <1>4

LEMMA TruncateSerial ==
  ASSUME SerialInv, NEW s \in Procs, Alone(s), Truncate(s)
  PROVE  SerialInv'
<1> DEFINE r == slot[s]
           new == [r EXCEPT !.pc = "write"]
<1>1. /\ UNCHANGED <<file, approval, broken>> /\ r.pc = "truncate"
      /\ torn' = [torn EXCEPT ![r.t] = TRUE]
      /\ slot' = [slot EXCEPT ![s] = new]
  BY DEF Truncate, Goto
<1>2. r \in Request /\ r.t \in Tasks /\ Faithful(r, approval, torn)  BY DEF Alone
<1>3. new.pc = "write" /\ new.t = r.t /\ OpenedRows(new) = OpenedRows(r)
  BY <1>2, Moved
<1> HIDE DEF new, r
<1>4. /\ torn' \in [Tasks -> BOOLEAN] /\ broken' \in [Tasks -> BOOLEAN] /\ torn'[r.t]
  BY <1>1, <1>2 DEF SerialInv
<1>5. /\ approval[r.t] = OpenedRows(r)
      /\ PlanOf(r).decide # "" => HasPending(r.rows, r.m.stage)
  BY <1>1, <1>2 DEF Faithful, Holding, RowsFollow, LetIn, Effect
<1>6. RowsFollow(new, approval')  BY <1>1, <1>3, <1>5 DEF RowsFollow
<1>7. Faithful(new, approval', torn')
  BY <1>1, <1>2, <1>4, <1>5, <1>6, GoesOnFaithfully DEF Holding, new
<1>8. NoFileNoRows' /\ RowsBounded'  BY <1>1 DEF SerialInv, NoFileNoRows, RowsBounded
<1> QED BY <1>1, <1>4, <1>7, <1>8, SerialMoves DEF Alone

LEMMA WriteBackSerial ==
  ASSUME SerialInv, NEW s \in Procs, Alone(s), WriteBack(s)
  PROVE  SerialInv'
<1> DEFINE r == slot[s]
           new == [r EXCEPT !.pc = "index"]
<1>1. /\ UNCHANGED <<approval, broken>> /\ r.pc = "write"
      /\ file' = [file EXCEPT ![r.t] = PlanOf(r).meta]
      /\ torn' = [torn EXCEPT ![r.t] = FALSE]
      /\ slot' = [slot EXCEPT ![s] = new]
  BY DEF WriteBack, Goto
<1>2. /\ r \in Request /\ r.t \in Tasks /\ Faithful(r, approval, torn)
      /\ r.call \in Calls /\ r.m \in Meta /\ file \in [Tasks -> Meta]
  BY <1>1 DEF Alone, GateTypes
<1>3. new.pc = "index" /\ new.t = r.t /\ OpenedRows(new) = OpenedRows(r)
  BY <1>2, Moved
<1> HIDE DEF new, r
<1>4. /\ torn' \in [Tasks -> BOOLEAN] /\ broken' \in [Tasks -> BOOLEAN] /\ ~torn'[r.t]
  BY <1>1, <1>2 DEF SerialInv
<1>5. /\ approval[r.t] = OpenedRows(r) /\ Readable(r.m)
      /\ PlanOf(r).decide # "" => HasPending(r.rows, r.m.stage)
  BY <1>1, <1>2 DEF Faithful, Holding, RowsFollow, LetIn, Effect
<1>6. RowsFollow(new, approval')  BY <1>1, <1>3, <1>5 DEF RowsFollow
<1>7. Faithful(new, approval', torn')
  BY <1>1, <1>2, <1>4, <1>5, <1>6, GoesOnFaithfully DEF Holding, new
<1>8. RowsBounded'  BY <1>1 DEF SerialInv, RowsBounded
<1>9. NoFileNoRows'
  <2>1. PlanOf(r).meta # Absent
    BY <1>2, <1>5, PlanShape, ReadableIsThere DEF Shaped
  <2>2. /\ file'[r.t] = PlanOf(r).meta
        /\ \A t \in Tasks : t # r.t => file'[t] = file[t]
    BY <1>1, <1>2
  <2> QED BY <1>1, <2>1, <2>2 DEF SerialInv, NoFileNoRows
<1> QED BY <1>1, <1>4, <1>7, <1>8, <1>9, SerialMoves DEF Alone

LEMMA UpsertSerial ==
  ASSUME SerialInv, NEW s \in Procs, Alone(s), UpsertTask(s)
  PROVE  SerialInv'
<1> DEFINE r == slot[s]
           new == [r EXCEPT !.pc = "read", !.m = PlanOf(r).meta, !.again = TRUE]
           kept == [r.m EXCEPT !.archived = TRUE]
<1>1. /\ UNCHANGED <<file, approval, torn, broken>> /\ r.pc = "index"
      /\ \/ slot' = [slot EXCEPT ![s] = Idle]
         \/ r.call = "archive" /\ slot' = [slot EXCEPT ![s] = new]
  BY DEF UpsertTask
<1>2. broken' \in [Tasks -> BOOLEAN]  BY <1>1 DEF SerialInv
<1>3. /\ r \in Request /\ Faithful(r, approval, torn) /\ r.m \in Meta  BY DEF Alone
<1>4. ASSUME r.call = "archive" PROVE Faithful(new, approval, torn)
  <2>1. /\ new.pc = "read" /\ new.m = PlanOf(r).meta /\ new.rows = r.rows
        /\ new.t = r.t /\ new.call = "archive"
    BY <1>3, <1>4 DEF Request
  <2>2. /\ LetIn(r) /\ ~torn[r.t] /\ approval[r.t] = OpenedRows(r)
        /\ Len(r.rows) <= MaxRows + 1
    BY <1>1, <1>3 DEF Faithful, Holding, RowsFollow
  <2> HIDE DEF new, r
  <2>3. PlanOf(r) = ArchivePlan(r.m) /\ PlanOf(new) = ArchivePlan(new.m)
    BY <1>4, <2>1 DEF PlanOf
  <2>4. r.m.status = "delivered" /\ ArchivePlan(r.m) = Commit(kept)
    <3>1. ~Refused(r.m).ok  BY DEF Refused
    <3>2. ArchivePlan(r.m).ok  BY <2>2, <2>3 DEF LetIn
    <3> QED BY <3>1, <3>2 DEF ArchivePlan
  <2>5. kept.status = "delivered"  BY <1>3, <2>4 DEF Meta
  <2> HIDE DEF kept
  <2>6. /\ PlanOf(r).decide = "" /\ PlanOf(r).open = NoStage /\ new.m = kept
    BY <2>1, <2>3, <2>4, CommitFields
  <2>7. PlanOf(new).ok /\ PlanOf(new).decide = "" /\ PlanOf(new).open = NoStage
    <3>1. new.m.status = "delivered"  BY <2>5, <2>6
    <3>2. \E meta : ArchivePlan(new.m) = Commit(meta)  BY <3>1 DEF ArchivePlan
    <3> QED BY <2>3, <3>2, CommitFields
  <2>8. LetIn(new)  BY <2>1, <2>7 DEF LetIn, Decidable
  <2>9. RowsFollow(new, approval)
    BY <2>1, <2>2, <2>6, <2>7 DEF RowsFollow, OpenedRows, DecidedRows
  <2>10. Readable(new.m)  BY <2>5, <2>6 DEF Readable, Statuses
  <2> QED BY <2>1, <2>2, <2>8, <2>9, <2>10 DEF Faithful, Holding, Decidable
<1> HIDE DEF new, r
<1> QED BY <1>1, <1>2, <1>4, OnlyMoves, StopsSerial

LEMMA FillSerial ==
  ASSUME SerialInv, NEW s \in Procs, Alone(s), Fill(s)
  PROVE  SerialInv'
<1> DEFINE t == slot[s].t
<1>1. /\ UNCHANGED <<approval, broken>>
      /\ file' = [file EXCEPT ![t] = Fresh]
      /\ torn' = [torn EXCEPT ![t] = FALSE]
      /\ slot' = [slot EXCEPT ![s] = Idle]
  BY DEF Fill
<1>2. t \in Tasks /\ file \in [Tasks -> Meta]  BY DEF Alone, GateTypes
<1> HIDE DEF t
<1>3. torn' \in [Tasks -> BOOLEAN] /\ broken' \in [Tasks -> BOOLEAN]
  BY <1>1, <1>2 DEF SerialInv
<1>4. RowsBounded'  BY <1>1 DEF SerialInv, RowsBounded
<1>5. NoFileNoRows'
  <2>1. Fresh # Absent  BY DEF Fresh, Absent
  <2> QED BY <1>1, <1>2, <2>1 DEF SerialInv, NoFileNoRows
<1> QED BY <1>1, <1>3, <1>4, <1>5, IdleIsFaithful, SerialMoves DEF Alone

LEMMA OneGoroutine ==
  ASSUME OneAfterAnother PROVE OneSlot /\ Serial
BY FS_Singleton DEF OneAfterAnother, OneSlot, Serial

\* A request is taken from whoever connects, and boot recovery visits a task,
\* when nothing else is under way.
LEMMA NobodyElse ==
  ASSUME OneSlot, OneAtATime
  PROVE  /\ server = "serving" =>
              \A s \in Slots : \A p \in Procs : p # s => slot[p] = Idle
         /\ server = "recovering" => \A p \in Procs : p # "boot" => slot[p] = Idle
BY DEF OneSlot, OneAtATime, Procs

LEMMA SubmitSerial ==
  ASSUME OneSlot, GateTypes, OneAtATime, SerialInv, NEW s \in Slots, Submit(s)
  PROVE  SerialInv'
<1>1. PICK t \in Tasks, call \in WebCalls \cup Webhooks, user \in Roles :
        slot' = [slot EXCEPT ![s] =
            [Idle EXCEPT !.call = call, !.t = t, !.user = user,
                         !.pc = IF call \in Decidable THEN "route" ELSE "parse"]]
  BY DEF Submit
<1> DEFINE new == [Idle EXCEPT !.call = call, !.t = t, !.user = user,
                         !.pc = IF call \in Decidable THEN "route" ELSE "parse"]
<1>2. /\ new.pc \in {"route", "parse"} /\ new.user = user /\ new.call = call
      /\ new.pc = "parse" => call \notin Decidable
  BY DEF Idle
<1>3. /\ slot' = [slot EXCEPT ![s] = new] /\ server = "serving"
      /\ UNCHANGED <<file, approval, torn, broken>>
  BY <1>1 DEF Submit
<1> HIDE DEF new
<1>4. Faithful(new, approval', torn')  BY <1>2 DEF Faithful, Holding, RowsFollow
<1>5. /\ torn' \in [Tasks -> BOOLEAN] /\ broken' \in [Tasks -> BOOLEAN]
      /\ NoFileNoRows' /\ RowsBounded'
  BY <1>3 DEF SerialInv, NoFileNoRows, RowsBounded
<1>6. s \in Procs /\ \A p \in Procs : p # s => slot[p] = Idle
  BY <1>3, NobodyElse, BootIsNoSlot
<1> QED BY <1>3, <1>4, <1>5, <1>6, SerialMoves

LEMMA MkdirSerial ==
  ASSUME OneSlot, GateTypes, OneAtATime, SerialInv, NEW s \in Slots, Mkdir(s)
  PROVE  SerialInv'
<1>1. PICK t \in Tasks :
        /\ torn' = [torn EXCEPT ![t] = TRUE]
        /\ slot' = [slot EXCEPT ![s] =
                      [Idle EXCEPT !.call = "create", !.t = t, !.pc = "fill"]]
  BY DEF Mkdir
<1> DEFINE new == [Idle EXCEPT !.call = "create", !.t = t, !.pc = "fill"]
<1>2. /\ new.pc = "fill" /\ new.t = t /\ new.m = Absent /\ new.rows = <<>>
  BY DEF Idle
<1>3. /\ slot' = [slot EXCEPT ![s] = new] /\ server = "serving"
      /\ UNCHANGED <<file, approval, broken>>
  BY <1>1 DEF Mkdir
<1> HIDE DEF new
<1>4. torn' \in [Tasks -> BOOLEAN] /\ torn'[t]  BY <1>1 DEF SerialInv
<1>5. Faithful(new, approval', torn')
  BY <1>2, <1>4 DEF Faithful, Holding, RowsFollow
<1>6. /\ broken' \in [Tasks -> BOOLEAN] /\ NoFileNoRows' /\ RowsBounded'
  BY <1>3 DEF SerialInv, NoFileNoRows, RowsBounded
<1>7. s \in Procs /\ \A p \in Procs : p # s => slot[p] = Idle
  BY <1>3, NobodyElse, BootIsNoSlot
<1> QED BY <1>3, <1>4, <1>5, <1>6, <1>7, SerialMoves

LEMMA RecoverSerial ==
  ASSUME OneSlot, Serial, GateInv, OneAtATime, SerialInv, RecoverNext
  PROVE  SerialInv'
<1>1. PICK t \in Tasks :
        slot' = IF RecoverPlan(OnDisk(t)).ok
                THEN [slot EXCEPT !["boot"] =
                        [Idle EXCEPT !.call = "recover", !.t = t, !.pc = "read",
                                     !.m = OnDisk(t), !.rows = approval[t]]]
                ELSE slot
  BY DEF RecoverNext, GateInv, GateTypes
<1> DEFINE new == [Idle EXCEPT !.call = "recover", !.t = t, !.pc = "read",
                               !.m = OnDisk(t), !.rows = approval[t]]
<1>2. /\ new.pc = "read" /\ new.t = t /\ new.m = OnDisk(t) /\ new.rows = approval[t]
      /\ new.call = "recover"
  BY DEF Idle
<1>3. /\ slot' = slot \/ slot' = [slot EXCEPT !["boot"] = new]
      /\ slot' # slot => RecoverPlan(OnDisk(t)).ok
      /\ server = "recovering" /\ UNCHANGED <<file, approval, torn, broken>>
  BY <1>1 DEF RecoverNext
<1> HIDE DEF new
<1>4. ASSUME RecoverPlan(OnDisk(t)).ok PROVE Faithful(new, approval, torn)
  <2>1. OnDisk(t).status = "running"
    <3>1. \A m : ~Refused(m).ok  BY DEF Refused
    <3> QED BY <1>4, <3>1 DEF RecoverPlan
  <2>2. Readable(OnDisk(t))  BY <2>1 DEF Readable, Statuses
  <2>3. ~torn[t]  BY <2>2 DEF OnDisk, Readable, Unreadable, Statuses
  <2>4. PlanOf(new) = RecoverPlan(OnDisk(t))  BY <1>2 DEF PlanOf
  <2>5. PlanOf(new).decide = "" /\ PlanOf(new).open = NoStage
    BY <2>1, <2>4, CommitFields DEF RecoverPlan
  <2>6. LetIn(new)  BY <1>2, <1>4, <2>4, <2>5 DEF LetIn, Decidable
  <2>7. RowsFollow(new, approval)
    BY <1>2, <2>5 DEF RowsFollow, OpenedRows, DecidedRows
  <2>8. Len(approval[t]) <= MaxRows + 1  BY DEF SerialInv, RowsBounded
  <2> QED BY <1>2, <2>2, <2>3, <2>6, <2>7, <2>8 DEF Faithful, Holding, Decidable
<1>5. /\ torn' \in [Tasks -> BOOLEAN] /\ broken' \in [Tasks -> BOOLEAN]
      /\ NoFileNoRows' /\ RowsBounded'
  BY <1>3 DEF SerialInv, NoFileNoRows, RowsBounded
<1>6. CASE slot' = slot  BY <1>3, <1>5, <1>6 DEF SerialInv
<1>7. CASE slot' # slot
  BY <1>3, <1>4, <1>5, <1>7, NobodyElse, BootIsNoSlot, SerialMoves DEF GateInv
<1> QED BY <1>6, <1>7

LEMMA SerialStart == Init => SerialInv
<1> SUFFICES ASSUME Init PROVE SerialInv  OBVIOUS
<1>1. /\ torn \in [Tasks -> BOOLEAN] /\ broken \in [Tasks -> BOOLEAN] /\ NoFileNoRows
  BY DEF Init, NoFileNoRows
<1>2. RowsBounded
  <2>1. \A t \in Tasks : approval[t] = <<>>  BY DEF Init
  <2>2. Len(<<>>) <= MaxRows + 1  BY HandlersAssumption
  <2> QED BY <2>1, <2>2 DEF RowsBounded
<1>3. \A s \in Procs : slot[s] = Idle  BY DEF Init
<1> QED BY <1>1, <1>2, <1>3, IdleIsFaithful DEF SerialInv

\* With one goroutine a request is faithful to its plan at every step.
LEMMA SerialStep ==
  ASSUME OneAfterAnother
  PROVE  GateInv /\ PauseInv /\ SerialInv /\ [Next]_vars => SerialInv'
<1> SUFFICES ASSUME GateInv, PauseInv, SerialInv, [Next]_vars PROVE SerialInv'  OBVIOUS
<1>1. OneSlot /\ Serial /\ GateTypes /\ OneAtATime
  BY OneGoroutine DEF GateInv, PauseInv
<1>2. ASSUME NEW s \in Slots, Submit(s) \/ Mkdir(s) PROVE SerialInv'
  BY <1>1, <1>2, SubmitSerial, MkdirSerial
<1>3. ASSUME NEW s \in Procs, Step(s) \/ Fail(s) PROVE SerialInv'
  <2>1. Alone(s)  BY <1>1, <1>3, SlotChanges, RequestIsAlone
  <2>2. CASE Fail(s)
    <3>1. /\ Abandon(s) /\ slot' = [slot EXCEPT ![s] = Idle]
          /\ UNCHANGED <<file, approval, torn>>
      BY <2>2 DEF Fail, Abandon
    <3> QED BY <2>1, <3>1, AbandonTypes, StopsSerial
  <2>3. CASE Step(s)
    BY <2>1, <2>3, FillSerial, RouteSerial, ParseSerial, SearchSerial, DecideSerial,
       OpenSerial, ReadBodySerial, TruncateSerial, WriteBackSerial, UpsertSerial DEF Step
  <2> QED BY <1>3, <2>2, <2>3
<1>4. ASSUME RecoverNext PROVE SerialInv'  BY <1>1, <1>4, RecoverSerial
<1>5. ASSUME Crash PROVE SerialInv'
  <2>1. /\ \A s \in Procs : slot'[s] = Idle
        /\ UNCHANGED <<file, torn, approval>>
    BY <1>5 DEF Crash
  <2>2. broken' \in [Tasks -> BOOLEAN]
    <3>1. \A t \in Tasks : (broken[t] \/ \E s \in Procs : slot[s].t = t /\ HalfDone(s)) \in BOOLEAN
      BY DEF SerialInv
    <3>2. broken' = [t \in Tasks |->
                  broken[t] \/ \E s \in Procs : slot[s].t = t /\ HalfDone(s)]
      BY <1>5 DEF Crash
    <3> QED BY <3>1, <3>2
  <2> QED BY <2>1, <2>2, IdleIsFaithful DEF SerialInv, NoFileNoRows, RowsBounded
<1>6. ASSUME WatchScan \/ WatchUpsert \/ Boot \/ Listen \/ UNCHANGED vars PROVE SerialInv'
  <2>1. UNCHANGED <<file, torn, approval, slot, broken>>
    BY <1>6 DEF WatchScan, WatchUpsert, Boot, Listen, vars
  <2> QED BY <2>1 DEF SerialInv, NoFileNoRows, RowsBounded
<1> QED BY <1>2, <1>3, <1>4, <1>5, <1>6 DEF Next

-----------------------------------------------------------------------------
(* The state of TaskLifecycle, seen through the one request. *)

\* The request keeps the task as it read it.
Shown(r, t) == r.t = t /\ r.pc \in Effect \cup {"fill"}

SeenTask(r, t, files, tears) ==
  IF Shown(r, t) THEN r.m ELSE IF tears[t] THEN Unreadable ELSE files[t]

SeenRows(r, t, rowsOf) == IF Shown(r, t) THEN r.rows ELSE rowsOf[t]

LEMMA OneIsShown ==
  ASSUME NEW sl, NEW s \in Procs, \A p \in Procs : p # s => sl[p] = Idle, NEW t
  PROVE  {p \in Procs : sl[p].t = t /\ sl[p].pc \in Effect \cup {"fill"}}
           = IF Shown(sl[s], t) THEN {s} ELSE {}
<1>1. Idle.pc \notin Effect \cup {"fill"}  BY DEF Idle, Effect
<1>2. \A p \in Procs : sl[p].t = t /\ sl[p].pc \in Effect \cup {"fill"}
                         <=> p = s /\ Shown(sl[s], t)
  BY <1>1 DEF Shown
<1> QED BY <1>2

LEMMA Views ==
  ASSUME NEW s \in Procs, \A p \in Procs : p # s => slot[p] = Idle
  PROVE  /\ TaskOf = [t \in Tasks |-> SeenTask(slot[s], t, file, torn)]
         /\ RowsOf = [t \in Tasks |-> SeenRows(slot[s], t, approval)]
<1>1. \A t \in Tasks : Changing(t) = IF Shown(slot[s], t) THEN {s} ELSE {}
  BY OneIsShown DEF Changing
<1>2. (CHOOSE p \in {s} : TRUE) = s  OBVIOUS
<1>3. ASSUME NEW t \in Tasks
      PROVE  /\ (IF Changing(t) = {} THEN OnDisk(t)
                 ELSE slot[CHOOSE p \in Changing(t) : TRUE].m)
                  = SeenTask(slot[s], t, file, torn)
             /\ (IF Changing(t) = {} THEN approval[t]
                 ELSE slot[CHOOSE p \in Changing(t) : TRUE].rows)
                  = SeenRows(slot[s], t, approval)
  <2>1. CASE Shown(slot[s], t)
    <3>1. Changing(t) = {s}  BY <1>1, <2>1
    <3> QED BY <1>2, <2>1, <3>1 DEF SeenTask, SeenRows
  <2>2. CASE ~Shown(slot[s], t)
    <3>1. Changing(t) = {}  BY <1>1, <2>2
    <3> QED BY <2>2, <3>1 DEF SeenTask, SeenRows, OnDisk
  <2> QED BY <2>1, <2>2
<1> QED BY <1>3 DEF TaskOf, RowsOf

LEMMA NextViews ==
  ASSUME NEW s \in Procs, \A p \in Procs : p # s => slot'[p] = Idle
  PROVE  /\ TaskOf' = [t \in Tasks |-> SeenTask(slot'[s], t, file', torn')]
         /\ RowsOf' = [t \in Tasks |-> SeenRows(slot'[s], t, approval')]
<1>1. \A t \in Tasks : Changing(t)' = IF Shown(slot'[s], t) THEN {s} ELSE {}
  BY OneIsShown DEF Changing
<1>2. (CHOOSE p \in {s} : TRUE) = s  OBVIOUS
<1>3. ASSUME NEW t \in Tasks
      PROVE  /\ (IF Changing(t)' = {} THEN OnDisk(t)'
                 ELSE slot'[CHOOSE p \in Changing(t)' : TRUE].m)
                  = SeenTask(slot'[s], t, file', torn')
             /\ (IF Changing(t)' = {} THEN approval'[t]
                 ELSE slot'[CHOOSE p \in Changing(t)' : TRUE].rows)
                  = SeenRows(slot'[s], t, approval')
  <2>1. CASE Shown(slot'[s], t)
    <3>1. Changing(t)' = {s}  BY <1>1, <2>1
    <3> QED BY <1>2, <2>1, <3>1 DEF SeenTask, SeenRows
  <2>2. CASE ~Shown(slot'[s], t)
    <3>1. Changing(t)' = {}  BY <1>1, <2>2
    <3> QED BY <2>2, <3>1 DEF SeenTask, SeenRows, OnDisk
  <2> QED BY <2>1, <2>2
<1> QED BY <1>3 DEF TaskOf, RowsOf

\* A step of the request, on its task t: what TaskLifecycle sees of it.
LEMMA ViewsStep ==
  ASSUME NEW s \in Procs, \A p \in Procs : p # s => slot[p] = Idle,
         \A p \in Procs : p # s => slot'[p] = Idle,
         NEW t \in Tasks, \A u \in Tasks : u # t => ~Shown(slot[s], u) /\ ~Shown(slot'[s], u),
         \A u \in Tasks : u # t => /\ file'[u] = file[u] /\ torn'[u] = torn[u]
                                   /\ approval'[u] = approval[u]
  PROVE  /\ TaskOf[t] = SeenTask(slot[s], t, file, torn)
         /\ RowsOf[t] = SeenRows(slot[s], t, approval)
         /\ TaskOf' = [TaskOf EXCEPT ![t] = SeenTask(slot'[s], t, file', torn')]
         /\ RowsOf' = [RowsOf EXCEPT ![t] = SeenRows(slot'[s], t, approval')]
<1>1. /\ TaskOf = [u \in Tasks |-> SeenTask(slot[s], u, file, torn)]
      /\ RowsOf = [u \in Tasks |-> SeenRows(slot[s], u, approval)]
  BY Views
<1>2. /\ TaskOf' = [u \in Tasks |-> SeenTask(slot'[s], u, file', torn')]
      /\ RowsOf' = [u \in Tasks |-> SeenRows(slot'[s], u, approval')]
  BY NextViews
<1>3. ASSUME NEW u \in Tasks, u # t
      PROVE  /\ SeenTask(slot'[s], u, file', torn') = SeenTask(slot[s], u, file, torn)
             /\ SeenRows(slot'[s], u, approval') = SeenRows(slot[s], u, approval)
  BY <1>3 DEF SeenTask, SeenRows
<1> QED BY <1>1, <1>2, <1>3

\* A step that changes neither the task nor its rows as TaskLifecycle sees them.
LEMMA NothingIsSeen ==
  ASSUME GateTypes, NEW s \in Procs, \A p \in Procs : p # s => slot[p] = Idle,
         NEW new, slot' = [slot EXCEPT ![s] = new],
         NEW t \in Tasks, \A u \in Tasks : u # t => ~Shown(slot[s], u) /\ ~Shown(new, u),
         \A u \in Tasks : u # t => /\ file'[u] = file[u] /\ torn'[u] = torn[u]
                                   /\ approval'[u] = approval[u],
         SeenTask(new, t, file', torn') = SeenTask(slot[s], t, file, torn),
         SeenRows(new, t, approval') = SeenRows(slot[s], t, approval),
         broken' = broken
  PROVE  UNCHANGED Serially!vars
<1>1. slot'[s] = new /\ \A p \in Procs : p # s => slot'[p] = Idle  BY DEF GateTypes
<1>2. /\ TaskOf = [u \in Tasks |-> SeenTask(slot[s], u, file, torn)]
      /\ RowsOf = [u \in Tasks |-> SeenRows(slot[s], u, approval)]
  BY Views
<1>3. /\ TaskOf' = [TaskOf EXCEPT ![t] = SeenTask(slot'[s], t, file', torn')]
      /\ RowsOf' = [RowsOf EXCEPT ![t] = SeenRows(slot'[s], t, approval')]
  BY <1>1, ViewsStep
<1>4. TaskOf' = TaskOf /\ RowsOf' = RowsOf  BY <1>1, <1>2, <1>3
<1> QED BY <1>4 DEF Serially!vars

-----------------------------------------------------------------------------
(* Where a request ends it is one call of TaskLifecycle. *)

\* TaskLifecycle has its own copy of Engine and Pipeline.
LEMMA SamePlans ==
  /\ \A p, m, mode, basis :
       Serially!AdvancePlan(p, m, mode, basis) = AdvancePlan(p, m, mode, basis)
  /\ \A p, m : /\ Serially!ApprovePlan(p, m) = ApprovePlan(p, m)
               /\ Serially!RejectPlan(p, m) = RejectPlan(p, m)
               /\ Serially!DeliverPlan(p, m) = DeliverPlan(p, m)
  /\ \A m : /\ Serially!PausePlan(m) = PausePlan(m)
            /\ Serially!ResumePlan(m) = ResumePlan(m)
            /\ Serially!MarkMergedPlan(m) = MarkMergedPlan(m)
            /\ Serially!ArchivePlan(m) = ArchivePlan(m)
            /\ Serially!RecoverPlan(m) = RecoverPlan(m)
<1> USE DEF Serially!NoStage, NoStage, Serially!StageIds, StageIds,
      Serially!StageOf, StageOf, Serially!First, First, Serially!Known, Known,
      Serially!IsLast, IsLast, Serially!NextStage, NextStage,
      Serially!Approval, Approval, Serially!IsTeamReview, IsTeamReview,
      Serially!NeedsApproval, NeedsApproval, Serially!RejectTarget, RejectTarget,
      Serially!Current, Current, Serially!Grounded, Grounded,
      Serially!Refused, Refused, Serially!Commit, Commit,
      Serially!EnterNext, EnterNext, Serially!WebDecidable, WebDecidable
<1>1. \A p, m, mode, basis :
        Serially!AdvancePlan(p, m, mode, basis) = AdvancePlan(p, m, mode, basis)
  BY DEF Serially!AdvancePlan, AdvancePlan
<1>2. \A p, m : Serially!ApprovePlan(p, m) = ApprovePlan(p, m)
  BY DEF Serially!ApprovePlan, ApprovePlan
<1>3. \A p, m : Serially!RejectPlan(p, m) = RejectPlan(p, m)
  BY DEF Serially!RejectPlan, RejectPlan
<1>4. \A p, m : Serially!DeliverPlan(p, m) = DeliverPlan(p, m)
  BY DEF Serially!DeliverPlan, DeliverPlan
<1>5. \A m : /\ Serially!PausePlan(m) = PausePlan(m)
             /\ Serially!ResumePlan(m) = ResumePlan(m)
             /\ Serially!MarkMergedPlan(m) = MarkMergedPlan(m)
             /\ Serially!ArchivePlan(m) = ArchivePlan(m)
             /\ Serially!RecoverPlan(m) = RecoverPlan(m)
  BY DEF Serially!PausePlan, PausePlan, Serially!ResumePlan, ResumePlan,
     Serially!MarkMergedPlan, MarkMergedPlan, Serially!ArchivePlan, ArchivePlan,
     Serially!RecoverPlan, RecoverPlan
<1> QED BY <1>1, <1>2, <1>3, <1>4, <1>5

LEMMA SameRowOperators ==
  /\ Serially!NoStage = NoStage /\ Serially!Unreadable = Unreadable
  /\ Serially!Absent = Absent /\ Serially!Fresh = Fresh
  /\ \A m : Serially!Readable(m) <=> Readable(m)
  /\ \A rows, stage : /\ Serially!HasPending(rows, stage) <=> HasPending(rows, stage)
                      /\ Serially!NewApproval(rows, stage) = NewApproval(rows, stage)
  /\ \A rows, stage, decision, by :
       Serially!Decide(rows, stage, decision, by) = Decide(rows, stage, decision, by)
  /\ \A rows : Serially!ApprovalRoleOf(rows) = ApprovalRoleOf(rows)
  /\ \A user, role : Serially!CanDecide(user, role) <=> CanDecide(user, role)
<1> USE DEF Serially!NoStage, NoStage, Serially!Pending, Pending, Serially!RoleFor,
      RoleFor, Serially!Statuses, Statuses
<1>1. /\ Serially!Unreadable = Unreadable
      /\ Serially!Absent = Absent /\ Serially!Fresh = Fresh
      /\ \A m : Serially!Readable(m) <=> Readable(m)
  BY DEF Serially!Unreadable, Unreadable, Serially!Absent, Absent, Serially!Fresh,
     Fresh, Serially!Readable, Readable
<1>2. \A rows, stage : /\ Serially!HasPending(rows, stage) <=> HasPending(rows, stage)
                       /\ Serially!NewApproval(rows, stage) = NewApproval(rows, stage)
  BY DEF Serially!HasPending, HasPending, Serially!NewApproval, NewApproval
<1>3. \A rows, stage, decision, by :
        Serially!Decide(rows, stage, decision, by) = Decide(rows, stage, decision, by)
  BY DEF Serially!Decide, Decide
<1>4. \A rows : Serially!ApprovalRoleOf(rows) = ApprovalRoleOf(rows)
  BY DEF Serially!ApprovalRoleOf, ApprovalRoleOf
<1>5. \A user, role : Serially!CanDecide(user, role) <=> CanDecide(user, role)
  BY DEF Serially!CanDecide, CanDecide
<1> QED BY <1>1, <1>2, <1>3, <1>4, <1>5

LEMMA FirstSteps == 1 < 2 /\ \A reached \in {2, 3, 4} : ~(reached < 2)
OBVIOUS

\* The rows a request leaves behind that got as far as reached.
LEMMA RowsReached ==
  ASSUME NEW r, NEW by, PlanOf(r).decide # "" => by = By(r)
  PROVE  /\ Serially!RowsAfter(r.rows, r.m, PlanOf(r), by, 1) = DecidedRows(r)
         /\ \A reached \in {2, 3, 4} :
              Serially!RowsAfter(r.rows, r.m, PlanOf(r), by, reached) = OpenedRows(r)
<1> DEFINE decided == IF PlanOf(r).decide = "" THEN r.rows
                      ELSE Decide(r.rows, r.m.stage, PlanOf(r).decide, by)
<1>1. decided = DecidedRows(r)  BY DEF DecidedRows
<1>2. \A reached : Serially!RowsAfter(r.rows, r.m, PlanOf(r), by, reached)
        = IF PlanOf(r).open = NoStage \/ reached < 2 THEN decided
          ELSE NewApproval(decided, PlanOf(r).open)
  BY SameRowOperators DEF Serially!RowsAfter, Serially!Opened
<1> HIDE DEF decided
<1>3. OpenedRows(r) = IF PlanOf(r).open = NoStage THEN decided
                      ELSE NewApproval(decided, PlanOf(r).open)
  BY <1>1 DEF OpenedRows
<1>4. ASSUME NEW reached \in {2, 3, 4}
      PROVE  Serially!RowsAfter(r.rows, r.m, PlanOf(r), by, reached) = OpenedRows(r)
  BY <1>2, <1>3, FirstSteps
<1>5. Serially!RowsAfter(r.rows, r.m, PlanOf(r), by, 1) = decided
  BY <1>2, FirstSteps
<1> QED BY <1>1, <1>4, <1>5

LEMMA FileReached ==
  ASSUME NEW m, NEW plan
  PROVE  /\ Serially!FileAfter(m, plan, 1) = m /\ Serially!FileAfter(m, plan, 2) = m
         /\ Serially!FileAfter(m, plan, 3) = Unreadable
         /\ Serially!FileAfter(m, plan, 4) = plan.meta
BY SameRowOperators DEF Serially!FileAfter, Serially!Truncated

LEMMA HistoryStep ==
  ASSUME broken \in [Tasks -> BOOLEAN], NEW t \in Tasks, NEW reached \in 1..4,
         broken' = IF reached = 4 THEN broken ELSE [broken EXCEPT ![t] = TRUE]
  PROVE  broken' = [broken EXCEPT ![t] = @ \/ reached # 4]
<1>1. CASE reached = 4
  <2>1. (broken[t] \/ reached # 4) = broken[t]  BY <1>1
  <2> QED BY <1>1, <2>1
<1>2. CASE reached # 4
  <2>1. (broken[t] \/ reached # 4) = TRUE  BY <1>2
  <2> QED BY <1>2, <2>1
<1> QED BY <1>1, <1>2

\* The request has begun to change its task.
Underway(r) ==
  /\ r \in Request /\ r.call \in Calls /\ r.m \in Meta
  /\ Readable(r.m) /\ LetIn(r) /\ r.pc \in Effect /\ Len(r.rows) <= MaxRows + 1
  /\ r.call \in Decidable => r.user \in Roles
  /\ r.call = "advance" => r.m.status \in {"pending", "running"}

\* Its call, as far as it got.
LEMMA CallPerformed ==
  ASSUME broken \in [Tasks -> BOOLEAN],
         NEW r, Underway(r), NEW t \in Tasks, TaskOf[t] = r.m, RowsOf[t] = r.rows,
         NEW reached \in 1..4,
         ~PlanOf(r).commits => reached = 1,
         TaskOf' = [TaskOf EXCEPT ![t] = Serially!FileAfter(r.m, PlanOf(r), reached)],
         RowsOf' = [RowsOf EXCEPT ![t] = IF reached = 1 THEN DecidedRows(r)
                                         ELSE OpenedRows(r)],
         broken' = IF reached = 4 THEN broken ELSE [broken EXCEPT ![t] = TRUE]
  PROVE  Serially!Next
<1>0. /\ r \in Request /\ r.rows \in Seq(ApprovalRow) /\ r.m \in Meta /\ r.call \in Calls
      /\ Readable(r.m) /\ LetIn(r) /\ r.pc \in Effect /\ Len(r.rows) <= MaxRows + 1
      /\ r.call \in Decidable => r.user \in Roles
      /\ r.call = "advance" => r.m.status \in {"pending", "running"}
  BY DEF Underway, Request
<1>1. /\ PlanOf(r).ok
      /\ r.call \in Decidable => CanDecide(r.user, ApprovalRoleOf(r.rows))
      /\ PlanOf(r).decide # "" => HasPending(r.rows, r.m.stage)
  BY <1>0 DEF LetIn
<1>2. Len(r.rows) < MaxRows + 2
  <2>1. Len(r.rows) \in Nat  BY <1>0
  <2> QED BY <1>0, <2>1, HandlersAssumption
<1>3. r.call \notin Decidable \cup {"merged"} => PlanOf(r).decide = ""
  BY <1>0, PlanShape
<1>4. ASSUME NEW by, PlanOf(r).decide # "" => by = By(r)
      PROVE  Serially!Perform(t, PlanOf(r), by)
  <2>1. Serially!RowsAfter(r.rows, r.m, PlanOf(r), by, reached)
          = IF reached = 1 THEN DecidedRows(r) ELSE OpenedRows(r)
    <3>1. reached = 1 \/ reached \in {2, 3, 4}  OBVIOUS
    <3> QED BY <1>4, <3>1, RowsReached
  <2>2. /\ reached \in Serially!Decided .. Serially!Written
        /\ ~PlanOf(r).commits => reached = Serially!Decided
        /\ reached # 4 <=> reached # Serially!Written
    BY DEF Serially!Decided, Serially!Written
  <2>3. /\ RowsOf' = [RowsOf EXCEPT ![t] =
                        Serially!RowsAfter(@, TaskOf[t], PlanOf(r), by, reached)]
        /\ TaskOf' = [TaskOf EXCEPT ![t] = Serially!FileAfter(@, PlanOf(r), reached)]
        /\ broken' = [broken EXCEPT ![t] = @ \/ reached # Serially!Written]
    BY <2>1, <2>2, HistoryStep DEF Serially!Written
  <2> QED BY <1>1, <1>2, <2>2, <2>3, SameRowOperators DEF Serially!Perform
<1>5. /\ Serially!Readable(TaskOf[t])
      /\ By(r) = IF r.call = "merged" THEN "webhook" ELSE r.user
  BY <1>0, SameRowOperators DEF By
<1>6. CASE r.call = "advance"
  <2>1. PlanOf(r) = AdvancePlan(Stages, TaskOf[t], KBMode, r.basis) /\ r.basis \in BOOLEAN
    BY <1>0, <1>6 DEF PlanOf, Request
  <2>2. Serially!Perform(t, PlanOf(r), "agent")  BY <1>3, <1>4, <1>6 DEF Decidable
  <2>3. Serially!Advance(t)  BY <1>0, <1>6, <2>1, <2>2, SamePlans, SameRowOperators DEF Serially!Advance
  <2> QED BY <2>3 DEF Serially!Next
<1>7. CASE r.call \in Decidable
  <2>1. Serially!Perform(t, PlanOf(r), r.user)  BY <1>4, <1>5, <1>7 DEF Decidable
  <2>2. r.user \in Roles /\ CanDecide(r.user, ApprovalRoleOf(RowsOf[t]))
    BY <1>0, <1>1, <1>7
  <2>3. CASE r.call = "approve"
    <3>1. PlanOf(r) = ApprovePlan(Stages, TaskOf[t])  BY <2>3 DEF PlanOf
    <3>2. Serially!Approve(t)  BY <1>5, <2>1, <2>2, <3>1, SamePlans, SameRowOperators DEF Serially!Approve
    <3> QED BY <3>2 DEF Serially!Next
  <2>4. CASE r.call = "reject"
    <3>1. PlanOf(r) = RejectPlan(Stages, TaskOf[t])  BY <2>4 DEF PlanOf
    <3>2. Serially!Reject(t)  BY <1>5, <2>1, <2>2, <3>1, SamePlans, SameRowOperators DEF Serially!Reject
    <3> QED BY <3>2 DEF Serially!Next
  <2> QED BY <1>7, <2>3, <2>4 DEF Decidable
<1>8. CASE r.call = "merged"
  <2>1. PlanOf(r) = MarkMergedPlan(TaskOf[t])  BY <1>8 DEF PlanOf
  <2>2. Serially!MarkMerged(t)  BY <1>4, <1>5, <1>8, <2>1, SamePlans, SameRowOperators DEF Serially!MarkMerged
  <2> QED BY <2>2 DEF Serially!Next
<1>9. CASE r.call \in {"pause", "resume", "deliver", "archive", "recover"}
  <2>1. /\ Serially!Perform(t, PlanOf(r), "human")
        /\ Serially!Perform(t, PlanOf(r), "agent")
    BY <1>3, <1>4, <1>9 DEF Decidable
  <2>2. \/ PlanOf(r) = PausePlan(TaskOf[t])
        \/ PlanOf(r) = ResumePlan(TaskOf[t])
        \/ PlanOf(r) = DeliverPlan(Stages, TaskOf[t])
        \/ PlanOf(r) = ArchivePlan(TaskOf[t])
        \/ PlanOf(r) = RecoverPlan(TaskOf[t])
    BY <1>9 DEF PlanOf
  <2>3. \/ Serially!Pause(t) \/ Serially!Resume(t) \/ Serially!Deliver(t)
        \/ Serially!Archive(t) \/ Serially!RecoverOnBoot(t)
    BY <1>5, <2>1, <2>2, SamePlans DEF Serially!Pause, Serially!Resume, Serially!Deliver,
       Serially!Archive, Serially!RecoverOnBoot
  <2> QED BY <2>3 DEF Serially!Next
<1> QED BY <1>0, <1>6, <1>7, <1>8, <1>9 DEF Calls, Decidable

-----------------------------------------------------------------------------
(* Every other step is none of TaskLifecycle. *)

\* What is seen of a task whose file is whole.
LEMMA WholeIsSeen ==
  ASSUME NEW r, NEW t, NEW files, NEW tears, NEW rowsOf,
         ~tears[t], files[t] = r.m, rowsOf[t] = r.rows
  PROVE  /\ SeenTask(r, t, files, tears) = r.m
         /\ SeenRows(r, t, rowsOf) = r.rows
BY DEF SeenTask, SeenRows

LEMMA ShownIsSeen ==
  ASSUME NEW r, NEW t, r.t = t, r.pc \in Effect \cup {"fill"},
         NEW files, NEW tears, NEW rowsOf
  PROVE  /\ SeenTask(r, t, files, tears) = r.m /\ SeenRows(r, t, rowsOf) = r.rows
BY DEF SeenTask, SeenRows, Shown

LEMMA NotShownIsThere ==
  ASSUME NEW r, NEW t, r.pc \notin Effect \cup {"fill"},
         NEW files, NEW tears, NEW rowsOf
  PROVE  /\ SeenTask(r, t, files, tears) = IF tears[t] THEN Unreadable ELSE files[t]
         /\ SeenRows(r, t, rowsOf) = rowsOf[t]
BY DEF SeenTask, SeenRows, Shown

\* The request moves between places where it has changed nothing.
LEMMA UnseenMove ==
  ASSUME GateTypes, NEW s \in Procs, \A p \in Procs : p # s => slot[p] = Idle,
         NEW new, slot' = [slot EXCEPT ![s] = new], NEW t \in Tasks,
         slot[s].pc \notin Effect \cup {"fill"}, new.pc \notin Effect \cup {"fill"},
         UNCHANGED <<file, torn, approval, broken>>
  PROVE  UNCHANGED Serially!vars
<1>1. \A u : ~Shown(slot[s], u) /\ ~Shown(new, u)  BY DEF Shown
<1>2. /\ SeenTask(new, t, file', torn') = SeenTask(slot[s], t, file, torn)
      /\ SeenRows(new, t, approval') = SeenRows(slot[s], t, approval)
  BY <1>1 DEF SeenTask, SeenRows
<1>3. \A u \in Tasks : /\ file'[u] = file[u] /\ torn'[u] = torn[u]
                        /\ approval'[u] = approval[u]
  OBVIOUS
<1> QED BY <1>1, <1>2, <1>3, NothingIsSeen

\* The request begins: what it keeps is what is there.
LEMMA Beginning ==
  ASSUME GateTypes, NEW s \in Procs, \A p \in Procs : p # s => slot[p] = Idle,
         NEW new, slot' = [slot EXCEPT ![s] = new], NEW t \in Tasks,
         slot[s].pc \notin Effect \cup {"fill"}, new.pc \in Effect \cup {"fill"},
         new.t = t, ~torn[t], file[t] = new.m, approval[t] = new.rows,
         \A u \in Tasks : u # t => /\ file'[u] = file[u] /\ torn'[u] = torn[u]
                                   /\ approval'[u] = approval[u],
         broken' = broken
  PROVE  UNCHANGED Serially!vars
<1>1. \A u : ~Shown(slot[s], u)  BY DEF Shown
<1>2. /\ SeenTask(new, t, file', torn') = new.m
      /\ SeenRows(new, t, approval') = new.rows
  BY ShownIsSeen
<1>3. /\ SeenTask(slot[s], t, file, torn) = new.m
      /\ SeenRows(slot[s], t, approval) = new.rows
  BY <1>1 DEF SeenTask, SeenRows
<1>4. /\ SeenTask(new, t, file', torn') = SeenTask(slot[s], t, file, torn)
      /\ SeenRows(new, t, approval') = SeenRows(slot[s], t, approval)
  BY <1>2, <1>3
<1>5. \A u \in Tasks : u # t => ~Shown(new, u)  BY DEF Shown
<1> QED BY <1>1, <1>4, <1>5, NothingIsSeen

\* The request goes on, and keeps what it read.
LEMMA GoingOn ==
  ASSUME NEW s \in Procs, Alone(s), NEW pc \in Effect, slot[s].pc \in Effect,
         slot' = [slot EXCEPT ![s] = [slot[s] EXCEPT !.pc = pc]],
         broken' = broken,
         \A u \in Tasks : u # slot[s].t => /\ file'[u] = file[u] /\ torn'[u] = torn[u]
                                           /\ approval'[u] = approval[u]
  PROVE  UNCHANGED Serially!vars
<1> DEFINE r == slot[s]
           new == [r EXCEPT !.pc = pc]
<1>1. /\ GateTypes /\ r.t \in Tasks /\ \A p \in Procs : p # s => slot[p] = Idle
      /\ r \in Request
  BY DEF Alone
<1>2. /\ new.pc = pc /\ new.t = r.t /\ new.m = r.m /\ new.rows = r.rows
  BY <1>1, Moved
<1>3. slot' = [slot EXCEPT ![s] = new]  OBVIOUS
<1> HIDE DEF new
<1>4. /\ SeenTask(new, r.t, file', torn') = r.m
      /\ SeenRows(new, r.t, approval') = r.rows
      /\ SeenTask(r, r.t, file, torn) = r.m
      /\ SeenRows(r, r.t, approval) = r.rows
  BY <1>2, ShownIsSeen
<1>5. /\ SeenTask(new, r.t, file', torn') = SeenTask(r, r.t, file, torn)
      /\ SeenRows(new, r.t, approval') = SeenRows(r, r.t, approval)
  BY <1>4
<1>6. \A u \in Tasks : u # r.t => ~Shown(slot[s], u) /\ ~Shown(new, u)
  BY <1>2 DEF Shown
<1>7. \A u \in Tasks : u # r.t => /\ file'[u] = file[u] /\ torn'[u] = torn[u]
                                  /\ approval'[u] = approval[u]
  OBVIOUS
<1> QED BY <1>1, <1>3, <1>5, <1>6, <1>7, NothingIsSeen

-----------------------------------------------------------------------------
(* A call is cut off. *)

\* Whatever the request has done so far stays; it is the call of TaskLifecycle
\* that reached so far, or nothing if it has done nothing.
LEMMA CutOff ==
  ASSUME SerialInv, NEW s \in Procs, Alone(s)
  PROVE  /\ TaskOf' = [t \in Tasks |-> OnDisk(t)] /\ RowsOf' = approval
         /\ broken' = IF HalfDone(s) THEN [broken EXCEPT ![slot[s].t] = TRUE] ELSE broken
         => [Serially!Next]_Serially!vars
<1>0. SUFFICES
        ASSUME TaskOf' = [t \in Tasks |-> OnDisk(t)], RowsOf' = approval,
               broken' = IF HalfDone(s) THEN [broken EXCEPT ![slot[s].t] = TRUE] ELSE broken
        PROVE  [Serially!Next]_Serially!vars
  OBVIOUS
<1> DEFINE r == slot[s]
           t == r.t
<1>1. /\ GateTypes /\ r \in Request /\ t \in Tasks /\ r.pc # "idle"
      /\ r.m \in Meta /\ Faithful(r, approval, torn)
      /\ r.pc # "fill" => r.call \in Calls
      /\ broken \in [Tasks -> BOOLEAN]
  BY DEF Alone, SerialInv
<1>2. /\ TaskOf = [u \in Tasks |-> SeenTask(r, u, file, torn)]
      /\ RowsOf = [u \in Tasks |-> SeenRows(r, u, approval)]
  BY Views DEF Alone
<1>3. CASE r.pc \notin Effect \cup {"fill"}
  <2>1. ~HalfDone(s)  BY <1>3 DEF HalfDone, Effect
  <2>2. TaskOf = [u \in Tasks |-> OnDisk(u)] /\ RowsOf = approval
    BY <1>1, <1>2, <1>3, NotShownIsThere DEF OnDisk, GateTypes
  <2> QED BY <1>0, <2>1, <2>2 DEF Serially!vars
<1>4. CASE r.pc \in Effect \cup {"fill"}
  <2>1. TaskOf[t] = r.m /\ RowsOf[t] = r.rows
    BY <1>1, <1>2, <1>4, ShownIsSeen
  <2>2. ASSUME NEW u \in Tasks, u # t
        PROVE  TaskOf[u] = OnDisk(u) /\ RowsOf[u] = approval[u]
    BY <1>2, <2>2 DEF SeenTask, SeenRows, Shown, OnDisk
  <2>3. TaskOf' = [TaskOf EXCEPT ![t] = OnDisk(t)]
    BY <1>0, <1>2, <2>2
  <2>4. RowsOf' = [RowsOf EXCEPT ![t] = approval[t]]
    BY <1>0, <1>1, <1>2, <2>2 DEF GateTypes
  <2> HIDE DEF r, t
  <2>5. ASSUME OnDisk(t) = r.m, approval[t] = r.rows, broken' = broken
        PROVE  UNCHANGED Serially!vars
    BY <1>2, <2>1, <2>3, <2>4, <2>5 DEF Serially!vars
  <2>6. CASE r.pc = "fill"
    <3>1. /\ r.m = Absent /\ r.rows = <<>> /\ torn[t] /\ file[t] = Absent
      BY <1>1, <2>6 DEF Faithful, Alone, UpToDate, r, t
    <3>2. approval[t] = <<>>  BY <1>1, <3>1 DEF SerialInv, NoFileNoRows
    <3>3. OnDisk(t) = Unreadable  BY <3>1 DEF OnDisk
    <3>4. broken' = broken  BY <1>0, <2>6 DEF HalfDone, r
    <3>5. RowsOf' = RowsOf  BY <1>2, <2>1, <2>4, <3>1, <3>2
    <3>6. Serially!CreateTask(t)
      BY <2>1, <2>3, <3>1, <3>3, <3>4, <3>5, SameRowOperators DEF Serially!CreateTask
    <3> QED BY <1>1, <3>6 DEF Serially!Next
  <2>7. CASE r.pc \in Effect
    <3> DEFINE plan == PlanOf(r)
    <3>1. /\ Underway(r) /\ Readable(r.m) /\ r.call \in Calls
      <4>1. /\ r.call = "advance" => r.m.status \in {"pending", "running"}
            /\ r.call \in Calls
        BY <1>1, <2>7 DEF Effect, Alone, UpToDate, Copying, r
      <4> QED BY <1>1, <2>7, <4>1 DEF Underway, Faithful, Holding, Effect
    <3>2. r.pc # "write" => OnDisk(t) = r.m
      <4>1. r.pc # "write" => ~torn[t] /\ file[t] = r.m
        BY <1>1, <2>7 DEF Faithful, Holding, Effect, Alone, UpToDate, Copying, r, t
      <4> QED BY <4>1 DEF OnDisk
    <3>3. ASSUME NEW reached \in {1, 2, 3}, ~plan.commits => reached = 1,
                 OnDisk(t) = IF reached = 3 THEN Unreadable ELSE r.m,
                 approval[t] = IF reached = 1 THEN DecidedRows(r) ELSE OpenedRows(r),
                 HalfDone(s)
          PROVE  Serially!Next
      <4>1. OnDisk(t) = Serially!FileAfter(r.m, plan, reached)
        BY <3>3, FileReached
      <4>2. broken' = IF reached = 4 THEN broken ELSE [broken EXCEPT ![t] = TRUE]
        BY <1>0, <3>3 DEF r, t
      <4>3. /\ TaskOf' = [TaskOf EXCEPT ![t] = Serially!FileAfter(r.m, plan, reached)]
            /\ RowsOf' = [RowsOf EXCEPT ![t] = IF reached = 1 THEN DecidedRows(r)
                                               ELSE OpenedRows(r)]
        BY <2>3, <2>4, <3>3, <4>1
      <4>4. reached \in 1..4 /\ (~PlanOf(r).commits => reached = 1)
        BY <3>3
      <4>5. /\ broken \in [Tasks -> BOOLEAN] /\ t \in Tasks /\ Underway(r)
            /\ TaskOf[t] = r.m /\ RowsOf[t] = r.rows
        BY <1>1, <2>1, <3>1
      <4> QED BY <4>2, <4>3, <4>4, <4>5, CallPerformed
    <3>4. Shaped(plan)  BY <1>1, <3>1, PlanShape
    <3>5. CASE ~HalfDone(s)
      <4>1. r.pc # "write" /\ plan.decide = "" /\ (plan.open = NoStage \/ r.pc = "open")
        BY <2>7, <3>5 DEF HalfDone, Effect, r
      <4>2. DecidedRows(r) = r.rows  BY <4>1 DEF DecidedRows
      <4>3. approval[t] = r.rows
        BY <1>1, <2>7, <4>1, <4>2 DEF Faithful, RowsFollow, Effect, OpenedRows, t
      <4> QED BY <1>0, <2>5, <3>2, <3>5, <4>1, <4>3
    <3>6. CASE HalfDone(s) /\ r.pc = "open"
      <4>1. approval[t] = DecidedRows(r)  BY <1>1, <3>6 DEF Faithful, RowsFollow, t
      <4> QED BY <3>2, <3>3, <3>6, <4>1
    <3>7. CASE HalfDone(s) /\ r.pc \in {"read", "truncate"}
      <4>1. approval[t] = OpenedRows(r)  BY <1>1, <3>7 DEF Faithful, RowsFollow, t
      <4>2. CASE plan.open = NoStage
        <5>1. OpenedRows(r) = DecidedRows(r)  BY <4>2 DEF OpenedRows
        <5> QED BY <3>2, <3>3, <3>7, <4>1, <5>1
      <4>3. CASE plan.open # NoStage
        <5>1. plan.commits  BY <3>4, <4>3 DEF Shaped
        <5> QED BY <3>2, <3>3, <3>7, <4>1, <5>1
      <4> QED BY <4>2, <4>3
    <3>8. CASE HalfDone(s) /\ r.pc = "write"
      <4>1. approval[t] = OpenedRows(r) /\ torn[t]
        BY <1>1, <3>8 DEF Faithful, RowsFollow, t
      <4>2. OnDisk(t) = Unreadable  BY <4>1 DEF OnDisk
      <4>3. plan.commits  BY <3>8 DEF Alone, UpToDate, r
      <4> QED BY <3>3, <3>8, <4>1, <4>2, <4>3
    <3> QED BY <2>7, <3>5, <3>6, <3>7, <3>8 DEF Effect
  <2> QED BY <1>4, <2>6, <2>7
<1> QED BY <1>3, <1>4

-----------------------------------------------------------------------------
(* Every step of the server. *)

\* A goroutine goes idle and the files are left alone.
LEMMA EndViews ==
  ASSUME GateTypes, \A p \in Procs : slot'[p] = Idle, UNCHANGED <<file, torn, approval>>
  PROVE  TaskOf' = [t \in Tasks |-> OnDisk(t)] /\ RowsOf' = approval
<1>1. /\ TaskOf' = [t \in Tasks |-> SeenTask(slot'["boot"], t, file', torn')]
      /\ RowsOf' = [t \in Tasks |-> SeenRows(slot'["boot"], t, approval')]
  BY BootIsNoSlot, NextViews
<1>2. slot'["boot"] = Idle  BY BootIsNoSlot
<1>3. \A t : ~Shown(Idle, t)  BY DEF Shown, Idle, Effect
<1> QED BY <1>1, <1>2, <1>3 DEF SeenTask, SeenRows, OnDisk, GateTypes

LEMMA AbandonImplements ==
  ASSUME SerialInv, NEW s \in Procs, Alone(s), Abandon(s), UNCHANGED <<file, torn, approval>>
  PROVE  [Serially!Next]_Serially!vars
<1>1. GateTypes /\ \A p \in Procs : p # s => slot[p] = Idle  BY DEF Alone
<1>2. \A p \in Procs : slot'[p] = Idle  BY <1>1 DEF Abandon, GateTypes
<1>3. TaskOf' = [t \in Tasks |-> OnDisk(t)] /\ RowsOf' = approval
  BY <1>1, <1>2, EndViews
<1>4. broken' = IF HalfDone(s) THEN [broken EXCEPT ![slot[s].t] = TRUE] ELSE broken
  BY DEF Abandon
<1> QED BY <1>3, <1>4, CutOff

LEMMA CrashImplements ==
  ASSUME GateInv, PauseInv, SerialInv, OneSlot, Crash
  PROVE  [Serially!Next]_Serially!vars
<1>1. /\ GateTypes /\ \A p \in Procs : slot'[p] = Idle
      /\ UNCHANGED <<file, torn, approval>>
  BY DEF Crash, GateInv
<1>2. TaskOf' = [t \in Tasks |-> OnDisk(t)] /\ RowsOf' = approval
  BY <1>1, EndViews
<1>3. /\ broken' = [t \in Tasks |-> broken[t] \/ \E p \in Procs : slot[p].t = t /\ HalfDone(p)]
      /\ broken \in [Tasks -> BOOLEAN]
  BY DEF Crash, SerialInv
<1>4. \A p \in Procs : slot[p].pc = "idle" => ~HalfDone(p)  BY DEF HalfDone
<1>5. CASE \A p \in Procs : slot[p].pc = "idle"
  <2>1. broken' = broken  BY <1>3, <1>4, <1>5
  <2>2. \A t \in Tasks : Changing(t) = {}  BY <1>5 DEF Changing, Effect
  <2>3. TaskOf = [t \in Tasks |-> OnDisk(t)] /\ RowsOf = approval
    BY <1>1, <2>2 DEF TaskOf, RowsOf, GateTypes
  <2> QED BY <1>2, <2>1, <2>3 DEF Serially!vars
<1>6. ASSUME NEW s \in Procs, slot[s].pc # "idle" PROVE [Serially!Next]_Serially!vars
  <2>1. Alone(s)  BY <1>6, RequestIsAlone
  <2>2. /\ \A p \in Procs : p # s => ~HalfDone(p)
        /\ slot[s].t \in Tasks
    BY <1>4, <2>1 DEF Alone, Idle
  <2>3. \A t \in Tasks : (\E p \in Procs : slot[p].t = t /\ HalfDone(p))
                          <=> slot[s].t = t /\ HalfDone(s)
    BY <2>2
  <2>4. broken' = IF HalfDone(s) THEN [broken EXCEPT ![slot[s].t] = TRUE] ELSE broken
    <3>1. CASE HalfDone(s)
      <4>1. \A t \in Tasks : (broken[t] \/ \E p \in Procs : slot[p].t = t /\ HalfDone(p))
              = (IF t = slot[s].t THEN TRUE ELSE broken[t])
        BY <1>3, <2>3, <3>1
      <4> QED BY <1>3, <2>2, <3>1, <4>1
    <3>2. CASE ~HalfDone(s)
      <4>1. \A t \in Tasks : (broken[t] \/ \E p \in Procs : slot[p].t = t /\ HalfDone(p))
              = broken[t]
        BY <1>3, <2>3, <3>2
      <4> QED BY <1>3, <3>2, <4>1
    <3> QED BY <3>1, <3>2
  <2> QED BY <1>2, <2>1, <2>4, CutOff
<1> QED BY <1>5, <1>6

LEMMA FillImplements ==
  ASSUME SerialInv, NEW s \in Procs, Alone(s), Fill(s)
  PROVE  Serially!Next
<1> DEFINE r == slot[s]
           t == r.t
<1>1. /\ GateTypes /\ t \in Tasks /\ \A p \in Procs : p # s => slot[p] = Idle
      /\ r.pc = "fill" /\ r.m = Absent /\ r.rows = <<>> /\ file[t] = Absent
  BY DEF Alone, Fill, Faithful, UpToDate
<1>2. /\ file' = [file EXCEPT ![t] = Fresh] /\ torn' = [torn EXCEPT ![t] = FALSE]
      /\ slot' = [slot EXCEPT ![s] = Idle] /\ UNCHANGED <<approval, broken>>
  BY DEF Fill
<1> HIDE DEF r, t
<1>3. \A u : ~Shown(Idle, u)  BY DEF Shown, Idle, Effect
<1>4. /\ file'[t] = Fresh /\ ~torn'[t]
      /\ \A u \in Tasks : u # t => file'[u] = file[u] /\ torn'[u] = torn[u]
  BY <1>1, <1>2 DEF SerialInv, GateTypes
<1>5. /\ TaskOf' = [TaskOf EXCEPT ![t] = SeenTask(Idle, t, file', torn')]
      /\ RowsOf' = [RowsOf EXCEPT ![t] = SeenRows(Idle, t, approval')]
      /\ TaskOf[t] = SeenTask(slot[s], t, file, torn)
      /\ RowsOf[t] = SeenRows(slot[s], t, approval)
  <2>1. slot'[s] = Idle /\ \A p \in Procs : p # s => slot'[p] = Idle
    BY <1>1, <1>2 DEF GateTypes
  <2>2. \A u \in Tasks : u # t => ~Shown(slot[s], u) /\ ~Shown(slot'[s], u)
    BY <1>3, <2>1 DEF Shown, r, t
  <2>3. \A u \in Tasks : u # t => /\ file'[u] = file[u] /\ torn'[u] = torn[u]
                                  /\ approval'[u] = approval[u]
    BY <1>2, <1>4
  <2> QED BY <1>1, <2>1, <2>2, <2>3, ViewsStep
<1>6. TaskOf[t] = Absent /\ RowsOf[t] = <<>>
  BY <1>1, <1>5 DEF SeenTask, SeenRows, Shown, r, t
<1>7. SeenTask(Idle, t, file', torn') = Fresh /\ SeenRows(Idle, t, approval') = <<>>
  <2>1. approval[t] = <<>>  BY <1>1 DEF SerialInv, NoFileNoRows
  <2> QED BY <1>2, <1>3, <1>4, <2>1 DEF SeenTask, SeenRows
<1>8. RowsOf' = RowsOf /\ TaskOf' = [TaskOf EXCEPT ![t] = Fresh]
  <2>1. RowsOf = [RowsOf EXCEPT ![t] = RowsOf[t]]  BY DEF RowsOf
  <2> QED BY <1>5, <1>6, <1>7, <2>1
<1>9. Serially!CreateTask(t)
  BY <1>2, <1>6, <1>8, SameRowOperators DEF Serially!CreateTask
<1> QED BY <1>1, <1>9 DEF Serially!Next

LEMMA WriteBackImplements ==
  ASSUME SerialInv, NEW s \in Procs, Alone(s), WriteBack(s)
  PROVE  Serially!Next
<1> DEFINE r == slot[s]
           t == r.t
           new == [r EXCEPT !.pc = "index"]
<1>1. /\ GateTypes /\ t \in Tasks /\ \A p \in Procs : p # s => slot[p] = Idle
      /\ r.pc = "write" /\ r \in Request /\ r.m \in Meta /\ r.call \in Calls
      /\ Faithful(r, approval, torn) /\ UpToDate(r, file)
      /\ broken \in [Tasks -> BOOLEAN]
  BY DEF Alone, WriteBack, SerialInv
<1>2. /\ file' = [file EXCEPT ![t] = PlanOf(r).meta] /\ torn' = [torn EXCEPT ![t] = FALSE]
      /\ slot' = [slot EXCEPT ![s] = new] /\ UNCHANGED <<approval, broken>>
  BY DEF WriteBack, Goto
<1>3. new.pc = "index"  BY <1>1, Moved
<1> HIDE DEF r, t, new
<1>4. \A u : ~Shown(new, u)  BY <1>3 DEF Shown, Effect
<1>5. /\ file'[t] = PlanOf(r).meta /\ ~torn'[t]
      /\ \A u \in Tasks : u # t => file'[u] = file[u] /\ torn'[u] = torn[u]
  BY <1>1, <1>2 DEF SerialInv, GateTypes
<1>6. /\ TaskOf' = [TaskOf EXCEPT ![t] = SeenTask(new, t, file', torn')]
      /\ RowsOf' = [RowsOf EXCEPT ![t] = SeenRows(new, t, approval')]
      /\ TaskOf[t] = SeenTask(slot[s], t, file, torn)
      /\ RowsOf[t] = SeenRows(slot[s], t, approval)
  <2>1. slot'[s] = new /\ \A p \in Procs : p # s => slot'[p] = Idle
    BY <1>1, <1>2 DEF GateTypes
  <2>2. \A u \in Tasks : u # t => ~Shown(slot[s], u) /\ ~Shown(slot'[s], u)
    BY <1>4, <2>1 DEF Shown, r, t
  <2>3. \A u \in Tasks : u # t => /\ file'[u] = file[u] /\ torn'[u] = torn[u]
                                  /\ approval'[u] = approval[u]
    BY <1>2, <1>5
  <2> QED BY <1>1, <2>1, <2>2, <2>3, ViewsStep
<1>7. TaskOf[t] = r.m /\ RowsOf[t] = r.rows
  BY <1>1, <1>6, ShownIsSeen DEF r, t, Effect
<1>8. /\ SeenTask(new, t, file', torn') = Serially!FileAfter(r.m, PlanOf(r), 4)
      /\ SeenRows(new, t, approval') = OpenedRows(r)
  <2>1. approval[t] = OpenedRows(r)  BY <1>1 DEF Faithful, RowsFollow, t
  <2> QED BY <1>2, <1>4, <1>5, <2>1, FileReached DEF SeenTask, SeenRows
<1>9. Underway(r) /\ PlanOf(r).commits
  BY <1>1 DEF Underway, Faithful, Holding, Effect, UpToDate, Copying
<1>10. /\ TaskOf' = [TaskOf EXCEPT ![t] = Serially!FileAfter(r.m, PlanOf(r), 4)]
       /\ RowsOf' = [RowsOf EXCEPT ![t] = IF 4 = 1 THEN DecidedRows(r) ELSE OpenedRows(r)]
       /\ broken' = IF 4 = 4 THEN broken ELSE [broken EXCEPT ![t] = TRUE]
       /\ 4 \in 1..4
  <2>1. /\ (IF 4 = 1 THEN DecidedRows(r) ELSE OpenedRows(r)) = OpenedRows(r)
        /\ 4 \in 1..4
    OBVIOUS
  <2> QED BY <1>2, <1>6, <1>8, <2>1
<1> QED BY <1>1, <1>7, <1>9, <1>10, CallPerformed

LEMMA RouteImplements ==
  ASSUME NEW s \in Procs, Alone(s), Route(s)
  PROVE  UNCHANGED Serially!vars
<1> DEFINE r == slot[s]
           new == [r EXCEPT !.pc = "parse"]
<1>1. UNCHANGED <<file, torn, approval, broken>> /\ r.pc = "route"  BY DEF Route
<1>2. slot' = [slot EXCEPT ![s] = new] \/ slot' = [slot EXCEPT ![s] = Idle]
  BY DEF Route, Goto
<1>3. /\ GateTypes /\ r.t \in Tasks /\ \A p \in Procs : p # s => slot[p] = Idle
      /\ r \in Request
  BY DEF Alone
<1>4. new.pc = "parse" /\ Idle.pc = "idle"  BY <1>3, Moved DEF Idle
<1>5. /\ new.pc \notin Effect \cup {"fill"} /\ Idle.pc \notin Effect \cup {"fill"}
      /\ r.pc \notin Effect \cup {"fill"}
  BY <1>1, <1>4 DEF Effect
<1> HIDE DEF new
<1> QED BY <1>1, <1>2, <1>3, <1>5, UnseenMove

LEMMA ParseImplements ==
  ASSUME OneAfterAnother, NEW s \in Procs, Alone(s), Parse(s)
  PROVE  UNCHANGED Serially!vars
<1> DEFINE r == slot[s]
           q == [r EXCEPT !.m = OnDisk(r.t),
                          !.rows = IF Serial THEN approval[r.t] ELSE <<>>]
           next == IF q.call = "advance" THEN "search" ELSE FirstEffect(PlanOf(q))
           new == [q EXCEPT !.pc = next]
<1>1. UNCHANGED <<file, approval, torn, broken>> /\ r.pc = "parse"  BY DEF Parse
<1>2. slot' = [slot EXCEPT ![s] = IF Admitted(q) THEN new ELSE Idle]  BY DEF Parse
<1>3. /\ GateTypes /\ r.t \in Tasks /\ \A p \in Procs : p # s => slot[p] = Idle
      /\ r \in Request
  BY DEF Alone
<1>4. q.m = OnDisk(r.t) /\ q.rows = approval[r.t]
  BY <1>3, OneGoroutine DEF Request
<1>5. /\ new.pc = next /\ new.m = q.m /\ new.rows = q.rows /\ new.t = r.t
  BY <1>3 DEF Request
<1>6. next \in {"search", "decide", "open", "read"}  BY DEF FirstEffect
<1>7. /\ Idle.pc \notin Effect \cup {"fill"} /\ r.pc \notin Effect \cup {"fill"}
  BY <1>1 DEF Effect, Idle
<1> HIDE DEF q, next, new
<1>8. CASE ~Admitted(q)
  <2>1. slot' = [slot EXCEPT ![s] = Idle]  BY <1>2, <1>8
  <2> QED BY <1>1, <1>3, <1>7, <2>1, UnseenMove
<1>9. CASE Admitted(q) /\ next \in {"search", "decide"}
  <2>1. slot' = [slot EXCEPT ![s] = new]  BY <1>2, <1>9
  <2>2. new.pc \notin Effect \cup {"fill"}  BY <1>5, <1>9 DEF Effect
  <2> QED BY <1>1, <1>3, <1>7, <2>1, <2>2, UnseenMove
<1>10. CASE Admitted(q) /\ next \in {"open", "read"}
  <2>1. slot' = [slot EXCEPT ![s] = new]  BY <1>2, <1>10
  <2>2. new.pc \in Effect \cup {"fill"}  BY <1>5, <1>10 DEF Effect
  <2>3. ~torn[r.t] /\ file[r.t] = new.m
    <3>1. Readable(OnDisk(r.t))  BY <1>4, <1>10 DEF Admitted
    <3> QED BY <1>4, <1>5, <3>1 DEF OnDisk, Readable, Unreadable, Statuses
  <2> QED BY <1>1, <1>3, <1>4, <1>5, <1>7, <2>1, <2>2, <2>3, Beginning
<1> QED BY <1>6, <1>8, <1>9, <1>10

LEMMA SearchImplements ==
  ASSUME NEW s \in Procs, Alone(s), Search(s)
  PROVE  UNCHANGED Serially!vars
<1> DEFINE r == slot[s]
<1>1. PICK basis \in BOOLEAN :
        LET q == [r EXCEPT !.basis = basis] IN
        IF PlanOf(q).ok
        THEN slot' = [slot EXCEPT ![s] = [q EXCEPT !.pc = FirstEffect(PlanOf(q))]]
        ELSE slot' = [slot EXCEPT ![s] = Idle]
  BY DEF Search
<1> DEFINE q == [r EXCEPT !.basis = basis]
           next == FirstEffect(PlanOf(q))
           new == [q EXCEPT !.pc = next]
<1>2. UNCHANGED <<file, approval, torn, broken>> /\ r.pc = "search"  BY DEF Search
<1>3. /\ GateTypes /\ r.t \in Tasks /\ \A p \in Procs : p # s => slot[p] = Idle
      /\ r \in Request
  BY DEF Alone
<1>4. /\ ~torn[r.t] /\ approval[r.t] = r.rows /\ file[r.t] = r.m
  BY <1>2 DEF Alone, Faithful, Holding, RowsFollow, UpToDate, Copying
<1>5. /\ new.pc = next /\ new.m = r.m /\ new.rows = r.rows /\ new.t = r.t
  BY <1>3 DEF Request
<1>6. next \in {"decide", "open", "read"}  BY DEF FirstEffect
<1>7. slot' = [slot EXCEPT ![s] = new] \/ slot' = [slot EXCEPT ![s] = Idle]
  BY <1>1
<1>8. /\ Idle.pc \notin Effect \cup {"fill"} /\ r.pc \notin Effect \cup {"fill"}
  BY <1>2 DEF Effect, Idle
<1> HIDE DEF q, next, new
<1>9. CASE slot' = [slot EXCEPT ![s] = Idle]
  BY <1>2, <1>3, <1>8, <1>9, UnseenMove
<1>10. CASE slot' = [slot EXCEPT ![s] = new] /\ next = "decide"
  <2>1. new.pc \notin Effect \cup {"fill"}  BY <1>5, <1>10 DEF Effect
  <2> QED BY <1>2, <1>3, <1>8, <1>10, <2>1, UnseenMove
<1>11. CASE slot' = [slot EXCEPT ![s] = new] /\ next \in {"open", "read"}
  <2>1. new.pc \in Effect \cup {"fill"}  BY <1>5, <1>11 DEF Effect
  <2> QED BY <1>2, <1>3, <1>4, <1>5, <1>8, <1>11, <2>1, Beginning
<1> QED BY <1>6, <1>7, <1>9, <1>10, <1>11

LEMMA DecideImplements ==
  ASSUME NEW s \in Procs, Alone(s), DecideRows(s)
  PROVE  UNCHANGED Serially!vars
<1> DEFINE r == slot[s]
           next == IF PlanOf(r).open # NoStage THEN "open" ELSE "read"
           new == [r EXCEPT !.pc = next]
<1>1. UNCHANGED <<file, torn, broken>> /\ r.pc = "decide"  BY DEF DecideRows
<1>2. \/ slot' = [slot EXCEPT ![s] = Idle] /\ approval' = approval
      \/ slot' = [slot EXCEPT ![s] = new]
  BY DEF DecideRows, Goto
<1>3. \E rows : approval' = [approval EXCEPT ![r.t] = rows] \/ approval' = approval
  BY DEF DecideRows
<1>4. /\ GateTypes /\ r.t \in Tasks /\ \A p \in Procs : p # s => slot[p] = Idle
      /\ r \in Request
  BY DEF Alone
<1>5. /\ ~torn[r.t] /\ approval[r.t] = r.rows /\ file[r.t] = r.m
  BY <1>1 DEF Alone, Faithful, Holding, RowsFollow, UpToDate, Copying
<1>6. /\ new.pc = next /\ new.m = r.m /\ new.rows = r.rows /\ new.t = r.t
  BY <1>4 DEF Request
<1>7. /\ Idle.pc \notin Effect \cup {"fill"} /\ r.pc \notin Effect \cup {"fill"}
      /\ next \in Effect \cup {"fill"}
  BY <1>1 DEF Effect, Idle
<1> HIDE DEF next, new
<1>8. CASE slot' = [slot EXCEPT ![s] = Idle] /\ approval' = approval
  BY <1>1, <1>4, <1>7, <1>8, UnseenMove
<1>9. CASE slot' = [slot EXCEPT ![s] = new]
  <2>1. \A u \in Tasks : u # r.t => /\ file'[u] = file[u] /\ torn'[u] = torn[u]
                                    /\ approval'[u] = approval[u]
    BY <1>1, <1>3, <1>4 DEF GateTypes
  <2> QED BY <1>1, <1>4, <1>5, <1>6, <1>7, <1>9, <2>1, Beginning
<1> QED BY <1>2, <1>8, <1>9

LEMMA WalkImplements ==
  ASSUME NEW s \in Procs, Alone(s), SerialInv,
         OpenRow(s) \/ Truncate(s) \/ (ReadBody(s) /\ ~Abandon(s))
  PROVE  UNCHANGED Serially!vars
<1> DEFINE r == slot[s]
<1>1. r.t \in Tasks /\ GateTypes /\ torn \in [Tasks -> BOOLEAN]  BY DEF Alone, SerialInv
<1>2. CASE OpenRow(s)
  <2>1. /\ UNCHANGED <<file, torn, broken>> /\ r.pc = "open"
        /\ approval' = [approval EXCEPT ![r.t] = NewApproval(@, PlanOf(r).open)]
        /\ slot' = [slot EXCEPT ![s] = [r EXCEPT !.pc = "read"]]
    BY <1>2 DEF OpenRow, Goto
  <2>2. \A u \in Tasks : u # r.t => /\ file'[u] = file[u] /\ torn'[u] = torn[u]
                                    /\ approval'[u] = approval[u]
    BY <1>1, <2>1 DEF GateTypes
  <2> QED BY <2>1, <2>2, GoingOn DEF Effect
<1>3. CASE Truncate(s)
  <2>1. /\ UNCHANGED <<file, approval, broken>> /\ r.pc = "truncate"
        /\ torn' = [torn EXCEPT ![r.t] = TRUE]
        /\ slot' = [slot EXCEPT ![s] = [r EXCEPT !.pc = "write"]]
    BY <1>3 DEF Truncate, Goto
  <2>2. \A u \in Tasks : u # r.t => /\ file'[u] = file[u] /\ torn'[u] = torn[u]
                                    /\ approval'[u] = approval[u]
    BY <1>1, <2>1
  <2> QED BY <2>1, <2>2, GoingOn DEF Effect
<1>4. CASE ReadBody(s) /\ ~Abandon(s)
  <2>1. /\ UNCHANGED <<file, torn, approval, broken>> /\ r.pc = "read"
        /\ slot' = [slot EXCEPT ![s] = [r EXCEPT !.pc = "truncate"]]
    BY <1>4 DEF ReadBody, Goto
  <2> QED BY <2>1, GoingOn DEF Effect
<1> QED BY <1>2, <1>3, <1>4

LEMMA UpsertImplements ==
  ASSUME NEW s \in Procs, Alone(s), UpsertTask(s)
  PROVE  UNCHANGED Serially!vars
<1> DEFINE r == slot[s]
           new == [r EXCEPT !.pc = "read", !.m = PlanOf(r).meta, !.again = TRUE]
<1>1. /\ UNCHANGED <<file, approval, torn, broken>> /\ r.pc = "index"
      /\ \/ slot' = [slot EXCEPT ![s] = Idle]
         \/ r.call = "archive" /\ slot' = [slot EXCEPT ![s] = new]
  BY DEF UpsertTask
<1>2. /\ GateTypes /\ r.t \in Tasks /\ \A p \in Procs : p # s => slot[p] = Idle
      /\ r \in Request /\ r.call \in Calls /\ r.m \in Meta
  BY <1>1 DEF Alone
<1>3. /\ ~torn[r.t] /\ approval[r.t] = OpenedRows(r) /\ file[r.t] = PlanOf(r).meta
      /\ Readable(r.m)
  BY <1>1 DEF Alone, Faithful, Holding, RowsFollow, UpToDate, Copying
<1>4. /\ new.pc = "read" /\ new.m = PlanOf(r).meta /\ new.rows = r.rows /\ new.t = r.t
  BY <1>2 DEF Request
<1>5. /\ Idle.pc \notin Effect \cup {"fill"} /\ r.pc \notin Effect \cup {"fill"}
      /\ new.pc \in Effect \cup {"fill"}
  BY <1>1, <1>4 DEF Effect, Idle
<1> HIDE DEF new
<1>6. CASE slot' = [slot EXCEPT ![s] = Idle]
  BY <1>1, <1>2, <1>5, <1>6, UnseenMove
<1>7. CASE r.call = "archive" /\ slot' = [slot EXCEPT ![s] = new]
  <2>1. PlanOf(r).decide = ""  BY <1>2, <1>3, <1>7, PlanShape DEF Decidable
  <2>2. PlanOf(r).open = NoStage
    <3>1. PlanOf(r) = ArchivePlan(r.m)  BY <1>7 DEF PlanOf
    <3>2. Refused(r.m).open = NoStage  BY DEF Refused
    <3> QED BY <3>1, <3>2, CommitFields DEF ArchivePlan
  <2>3. approval[r.t] = new.rows  BY <1>3, <1>4, <2>1, <2>2 DEF OpenedRows, DecidedRows
  <2> QED BY <1>1, <1>2, <1>3, <1>4, <1>5, <1>7, <2>3, Beginning
<1> QED BY <1>1, <1>6, <1>7

LEMMA SubmitImplements ==
  ASSUME OneSlot, GateTypes, OneAtATime, NEW s \in Slots, Submit(s)
  PROVE  UNCHANGED Serially!vars
<1>1. PICK t \in Tasks, call \in WebCalls \cup Webhooks, user \in Roles :
        slot' = [slot EXCEPT ![s] =
            [Idle EXCEPT !.call = call, !.t = t, !.user = user,
                         !.pc = IF call \in Decidable THEN "route" ELSE "parse"]]
  BY DEF Submit
<1> DEFINE new == [Idle EXCEPT !.call = call, !.t = t, !.user = user,
                         !.pc = IF call \in Decidable THEN "route" ELSE "parse"]
<1>2. new.pc \in {"route", "parse"} /\ slot[s].pc = "idle"  BY DEF Idle, Submit
<1>3. /\ slot' = [slot EXCEPT ![s] = new]
      /\ UNCHANGED <<file, approval, torn, broken>>
  BY <1>1 DEF Submit
<1> HIDE DEF new
<1>4. /\ s \in Procs /\ \A p \in Procs : p # s => slot[p] = Idle
  BY NobodyElse, BootIsNoSlot DEF Submit
<1>5. /\ new.pc \notin Effect \cup {"fill"} /\ slot[s].pc \notin Effect \cup {"fill"}
  BY <1>2 DEF Effect
<1> QED BY <1>3, <1>4, <1>5, UnseenMove

LEMMA MkdirImplements ==
  ASSUME OneSlot, GateTypes, OneAtATime, SerialInv, NEW s \in Slots, Mkdir(s)
  PROVE  UNCHANGED Serially!vars
<1>1. PICK t \in Tasks :
        /\ file[t] = Absent /\ ~torn[t]
        /\ torn' = [torn EXCEPT ![t] = TRUE]
        /\ slot' = [slot EXCEPT ![s] =
                      [Idle EXCEPT !.call = "create", !.t = t, !.pc = "fill"]]
  BY DEF Mkdir
<1> DEFINE new == [Idle EXCEPT !.call = "create", !.t = t, !.pc = "fill"]
<1>2. /\ new.pc = "fill" /\ new.t = t /\ new.m = Absent /\ new.rows = <<>>
      /\ slot[s].pc = "idle"
  BY DEF Idle, Mkdir
<1>3. /\ slot' = [slot EXCEPT ![s] = new]
      /\ UNCHANGED <<file, approval, broken>>
  BY <1>1 DEF Mkdir
<1> HIDE DEF new
<1>4. /\ s \in Procs /\ \A p \in Procs : p # s => slot[p] = Idle
  BY NobodyElse, BootIsNoSlot DEF Mkdir
<1>5. /\ new.pc \in Effect \cup {"fill"} /\ slot[s].pc \notin Effect \cup {"fill"}
  BY <1>2 DEF Effect
<1>6. \A u \in Tasks : u # t => /\ file'[u] = file[u] /\ torn'[u] = torn[u]
                                 /\ approval'[u] = approval[u]
  BY <1>1, <1>3 DEF SerialInv
<1>7. approval[t] = new.rows  BY <1>1, <1>2 DEF SerialInv, NoFileNoRows
<1> QED BY <1>1, <1>2, <1>3, <1>4, <1>5, <1>6, <1>7, Beginning

LEMMA RecoverImplements ==
  ASSUME OneSlot, Serial, GateTypes, OneAtATime, RecoverNext
  PROVE  UNCHANGED Serially!vars
<1>1. PICK t \in Tasks :
        slot' = IF RecoverPlan(OnDisk(t)).ok
                THEN [slot EXCEPT !["boot"] =
                        [Idle EXCEPT !.call = "recover", !.t = t, !.pc = "read",
                                     !.m = OnDisk(t), !.rows = approval[t]]]
                ELSE slot
  BY DEF RecoverNext, GateTypes
<1> DEFINE new == [Idle EXCEPT !.call = "recover", !.t = t, !.pc = "read",
                               !.m = OnDisk(t), !.rows = approval[t]]
<1>2. /\ new.pc = "read" /\ new.t = t /\ new.m = OnDisk(t) /\ new.rows = approval[t]
      /\ slot["boot"].pc = "idle"
  BY DEF Idle, RecoverNext
<1>3. /\ slot' = slot \/ slot' = [slot EXCEPT !["boot"] = new]
      /\ slot' # slot => RecoverPlan(OnDisk(t)).ok
      /\ UNCHANGED <<file, approval, torn, broken>>
  BY <1>1 DEF RecoverNext
<1> HIDE DEF new
<1>4. CASE slot' = slot
  BY <1>3, <1>4 DEF Serially!vars, TaskOf, RowsOf, Changing, OnDisk
<1>5. CASE slot' # slot
  <2>1. ~torn[t] /\ file[t] = new.m
    <3>1. \A m : ~Refused(m).ok  BY DEF Refused
    <3>2. OnDisk(t).status = "running"  BY <1>3, <1>5, <3>1 DEF RecoverPlan
    <3> QED BY <1>2, <3>2 DEF OnDisk, Unreadable
  <2>2. /\ "boot" \in Procs /\ \A p \in Procs : p # "boot" => slot[p] = Idle
    BY NobodyElse, BootIsNoSlot DEF RecoverNext
  <2>3. /\ new.pc \in Effect \cup {"fill"} /\ slot["boot"].pc \notin Effect \cup {"fill"}
    BY <1>2 DEF Effect
  <2> QED BY <1>2, <1>3, <1>5, <2>1, <2>2, <2>3, Beginning
<1> QED BY <1>4, <1>5

LEMMA StepImplements ==
  ASSUME OneAfterAnother, SerialInv, NEW s \in Procs, Alone(s), Step(s)
  PROVE  [Serially!Next]_Serially!vars
<1>1. CASE ReadBody(s) /\ Abandon(s)
  <2>1. UNCHANGED <<file, torn, approval>>  BY <1>1 DEF ReadBody
  <2> QED BY <1>1, <2>1, AbandonImplements
<1>2. CASE Fill(s) \/ WriteBack(s)  BY <1>2, FillImplements, WriteBackImplements
<1>3. CASE ~Fill(s) /\ ~WriteBack(s) /\ ~(ReadBody(s) /\ Abandon(s))
  BY <1>3, RouteImplements, ParseImplements, SearchImplements, DecideImplements,
     WalkImplements, UpsertImplements DEF Step
<1> QED BY <1>1, <1>2, <1>3

LEMMA NextImplements ==
  ASSUME OneAfterAnother
  PROVE  GateInv /\ PauseInv /\ SerialInv /\ [Next]_vars => [Serially!Next]_Serially!vars
<1> SUFFICES ASSUME GateInv, PauseInv, SerialInv, [Next]_vars
             PROVE  [Serially!Next]_Serially!vars
  OBVIOUS
<1>1. OneSlot /\ Serial /\ GateTypes /\ OneAtATime
  BY OneGoroutine DEF GateInv, PauseInv
<1>2. ASSUME NEW s \in Slots, Submit(s) \/ Mkdir(s) PROVE UNCHANGED Serially!vars
  BY <1>1, <1>2, SubmitImplements, MkdirImplements
<1>3. ASSUME NEW s \in Procs, Step(s) \/ Fail(s) PROVE [Serially!Next]_Serially!vars
  <2>1. Alone(s)  BY <1>1, <1>3, SlotChanges, RequestIsAlone
  <2>2. CASE Fail(s)
    <3>1. Abandon(s) /\ UNCHANGED <<file, approval, torn>>  BY <2>2 DEF Fail
    <3> QED BY <2>1, <3>1, AbandonImplements
  <2> QED BY <1>3, <2>1, <2>2, StepImplements
<1>4. ASSUME RecoverNext PROVE UNCHANGED Serially!vars
  BY <1>1, <1>4, RecoverImplements
<1>5. ASSUME WatchScan \/ WatchUpsert \/ Boot \/ Listen \/ UNCHANGED vars
      PROVE  UNCHANGED Serially!vars
  <2>1. UNCHANGED <<file, torn, approval, slot, broken>>
    BY <1>5 DEF WatchScan, WatchUpsert, Boot, Listen, vars
  <2> QED BY <2>1 DEF Serially!vars, TaskOf, RowsOf, Changing, OnDisk
<1> QED BY <1>1, <1>2, <1>3, <1>4, <1>5, CrashImplements DEF Next

LEMMA InitImplements == Init => Serially!Init
<1> SUFFICES ASSUME Init PROVE Serially!Init  OBVIOUS
<1>1. \A s \in Procs : slot[s].pc = "idle"  BY DEF Init, Idle
<1>2. \A t \in Tasks : Changing(t) = {}  BY <1>1 DEF Changing, Effect
<1>3. TaskOf = [t \in Tasks |-> Absent] /\ RowsOf = [t \in Tasks |-> <<>>]
  BY <1>2 DEF TaskOf, RowsOf, Init, OnDisk
<1>4. broken = [t \in Tasks |-> FALSE]  BY DEF Init
<1> QED BY <1>3, <1>4, SameRowOperators DEF Serially!Init

\* As long as requests do not overlap the server implements TaskLifecycle, whatever
\* is refused, however often it crashes between two accesses to shared state, and
\* whenever the watcher runs: what the handlers do one access at a time amounts to
\* the calls of the engine.
THEOREM ServerImplementsLifecycle ==
  ASSUME OneAfterAnother
  PROVE  Spec => ImplementsLifecycle
<1>1. OneSlot  BY OneGoroutine
<1>2. Init => PauseInv  BY PauseStart
<1> QED BY <1>1, <1>2, GatesStart, GatesStep, PauseStep, SerialStart, SerialStep,
           InitImplements, NextImplements, PTL
        DEF Spec, ImplementsLifecycle, Serially!Spec

-----------------------------------------------------------------------------
(* What the theorems about TaskLifecycle say of the server. *)

Life ==
  INSTANCE TaskStepProofs WITH
    MaxRows <- MaxRows + 2, task <- TaskOf, approval <- RowsOf

\* What TaskLifecycle assumes of the pipeline and Handlers does not.
StagesDiffer == \A i, j \in 1..Len(Stages) : Stages[i].id = Stages[j].id => i = j

LEMMA LifecycleAssumptions ==
  ASSUME StagesDiffer
  PROVE  Life!RolesAssumption /\ Life!StagesAssumption /\ Life!MaxRowsAssumption
<1>1. Life!RolesAssumption
  BY HandlersAssumption DEF HandlersAssumption, Life!RolesAssumption
<1>2. Life!MaxRowsAssumption
  BY HandlersAssumption DEF HandlersAssumption, Life!MaxRowsAssumption
<1>3. Life!StagesAssumption
  BY HandlersAssumption
  DEF HandlersAssumption, StagesDiffer, Life!StagesAssumption,
      Life!ValidStages, ValidStages, Life!Stage, Stage, Life!NoStage, NoStage
<1> QED BY <1>1, <1>2, <1>3

LEMMA SameLife == Serially!Spec => Life!Spec
<1>1. Serially!Init => Life!Init
  BY DEF Serially!Init, Life!Init, Serially!Absent, Life!Absent,
         Serially!NoStage, Life!NoStage
<1>2. [Serially!Next]_Serially!vars => [Life!Next]_Life!vars
  BY DEF Serially!NoStage, Life!NoStage, Serially!StageIds, Life!StageIds,
    Serially!StageOf, Life!StageOf, Serially!First, Life!First,
    Serially!Known, Life!Known, Serially!IsLast, Life!IsLast,
    Serially!NextStage, Life!NextStage, Serially!Approval, Life!Approval,
    Serially!IsTeamReview, Life!IsTeamReview, Serially!NeedsApproval,
    Life!NeedsApproval, Serially!RejectTarget, Life!RejectTarget,
    Serially!Current, Life!Current, Serially!Grounded, Life!Grounded,
    Serially!Refused, Life!Refused, Serially!Commit, Life!Commit,
    Serially!EnterNext, Life!EnterNext, Serially!WebDecidable,
    Life!WebDecidable, Serially!Statuses, Life!Statuses, Serially!RoleFor,
    Life!RoleFor, Serially!Pending, Life!Pending, Serially!HasPending,
    Life!HasPending, Serially!Decide, Life!Decide, Serially!NewApproval,
    Life!NewApproval, Serially!ApprovalRoleOf, Life!ApprovalRoleOf,
    Serially!CanDecide, Life!CanDecide, Serially!AdvancePlan,
    Life!AdvancePlan, Serially!ApprovePlan, Life!ApprovePlan,
    Serially!RejectPlan, Life!RejectPlan, Serially!PausePlan, Life!PausePlan,
    Serially!ResumePlan, Life!ResumePlan, Serially!MarkMergedPlan,
    Life!MarkMergedPlan, Serially!DeliverPlan, Life!DeliverPlan,
    Serially!ArchivePlan, Life!ArchivePlan, Serially!RecoverPlan,
    Life!RecoverPlan, Serially!Absent, Life!Absent, Serially!Unreadable,
    Life!Unreadable, Serially!Fresh, Life!Fresh, Serially!Readable,
    Life!Readable, Serially!Decided, Life!Decided, Serially!Opened,
    Life!Opened, Serially!Truncated, Life!Truncated, Serially!Written,
    Life!Written, Serially!RowsAfter, Life!RowsAfter, Serially!FileAfter,
    Life!FileAfter, Serially!Perform, Life!Perform, Serially!CreateTask,
    Life!CreateTask, Serially!Advance, Life!Advance, Serially!Approve,
    Life!Approve, Serially!Reject, Life!Reject, Serially!Pause, Life!Pause,
    Serially!Resume, Life!Resume, Serially!MarkMerged, Life!MarkMerged,
    Serially!Deliver, Life!Deliver, Serially!Archive, Life!Archive,
    Serially!RecoverOnBoot, Life!RecoverOnBoot, Serially!Next, Life!Next,
    Serially!vars, Life!vars
<1> QED BY <1>1, <1>2, PTL DEF Serially!Spec, Life!Spec

LEMMA ServerLives ==
  ASSUME OneAfterAnother, StagesDiffer
  PROVE  Spec => [](Life!IndInv /\ Life!QueuedInv)
<1>1. Life!RolesAssumption /\ Life!StagesAssumption /\ Life!MaxRowsAssumption
  BY LifecycleAssumptions
<1>2. Spec => Life!Spec
  BY ServerImplementsLifecycle, SameLife DEF ImplementsLifecycle
<1>3. Life!Spec => []Life!IndInv  BY <1>1, Life!Invariance
<1>4. Life!Spec => []Life!QueuedInv  BY <1>1, Life!AwaitingTasksAreQueued
<1> QED BY <1>2, <1>3, <1>4, PTL

\* Where no call is changing a task it is as TaskLifecycle has it.
LEMMA RestingTask ==
  ASSUME NEW t \in Tasks, Changing(t) = {}
  PROVE  TaskOf[t] = OnDisk(t) /\ RowsOf[t] = approval[t]
BY DEF TaskOf, RowsOf

\* What is left of TaskLifecycle's invariant of one task, on the disk and in
\* the database, once no call is changing it: every gate behind it was approved
\* last, a row the web may decide is about its stage, the merge is settled when
\* it is confirmed, and a call takes it on unless one was cut off half-way.
InOrder(t) ==
  /\ Life!GatesPassedBy(OnDisk(t), approval[t])
  /\ Life!PendingAtCurrent(OnDisk(t), approval[t])
  /\ Life!MergedIsSettled(OnDisk(t), approval[t])
  /\ Life!EveryStageCanBeLeft => Life!GoesOn(OnDisk(t), approval[t], broken[t])

\* As long as requests do not overlap, a task no request is changing is in order:
\* neither a crash nor a refused write nor the watcher leaves it past a gate
\* that was not approved, or where nobody can take it on.
THEOREM RestingTasksAreInOrder ==
  ASSUME OneAfterAnother, StagesDiffer
  PROVE  Spec => [](\A t \in Tasks : Changing(t) = {} => InOrder(t))
<1>1. Life!RolesAssumption /\ Life!StagesAssumption /\ Life!MaxRowsAssumption
  BY LifecycleAssumptions
<1>2. Spec => Life!Spec
  BY ServerImplementsLifecycle, SameLife DEF ImplementsLifecycle
<1>3. Life!Spec => []Life!NoTaskIsStranded  BY <1>1, Life!NobodyIsStranded
<1>4. Life!IndInv /\ Life!NoTaskIsStranded =>
        \A t \in Tasks : Changing(t) = {} => InOrder(t)
  <2> SUFFICES ASSUME Life!IndInv, Life!NoTaskIsStranded, NEW t \in Tasks,
                      Changing(t) = {}
               PROVE  InOrder(t)
    OBVIOUS
  <2>1. Life!TaskInvariant(TaskOf[t], RowsOf[t])  BY DEF Life!IndInv
  <2>2. Life!EveryStageCanBeLeft => Life!GoesOn(TaskOf[t], RowsOf[t], broken[t])
    BY DEF Life!NoTaskIsStranded
  <2> QED BY <2>1, <2>2, RestingTask DEF InOrder, Life!TaskInvariant
<1> QED BY <1>2, <1>3, <1>4, ServerLives, PTL

\* Life has its own copy of Engine and Pipeline too.
LEMMA SameQueueOperators ==
  /\ \A m : Life!WebDecidable(Stages, m) <=> WebDecidable(Stages, m)
  /\ \A id : Life!IsTeamReview(Stages, id) <=> IsTeamReview(Stages, id)
  /\ \A rows, i : Life!Pending(rows, i) <=> Pending(rows, i)
  /\ \A rows, stage : Life!HasPending(rows, stage) <=> HasPending(rows, stage)
  /\ \A rows : Life!ApprovalRoleOf(rows) = ApprovalRoleOf(rows)
  /\ \A user, role : Life!CanDecide(user, role) <=> CanDecide(user, role)
  /\ \A stage : Life!RoleFor(stage) = RoleFor(stage)
<1> USE DEF Life!StageIds, StageIds, Life!StageOf, StageOf, Life!Known, Known,
      Life!Approval, Approval, Life!IsTeamReview, IsTeamReview, Life!Pending, Pending
<1>1. \A id : Life!IsTeamReview(Stages, id) <=> IsTeamReview(Stages, id)  OBVIOUS
<1>2. \A m : Life!WebDecidable(Stages, m) <=> WebDecidable(Stages, m)
  BY DEF Life!WebDecidable, WebDecidable
<1>3. \A rows, i : Life!Pending(rows, i) <=> Pending(rows, i)  OBVIOUS
<1>4. \A rows, stage : Life!HasPending(rows, stage) <=> HasPending(rows, stage)
  BY DEF Life!HasPending, HasPending
<1>5. \A rows : Life!ApprovalRoleOf(rows) = ApprovalRoleOf(rows)
  BY DEF Life!ApprovalRoleOf, ApprovalRoleOf
<1>6. \A user, role : Life!CanDecide(user, role) <=> CanDecide(user, role)
  BY DEF Life!CanDecide, CanDecide
<1>7. \A stage : Life!RoleFor(stage) = RoleFor(stage)
  BY DEF Life!RoleFor, RoleFor
<1> QED BY <1>1, <1>2, <1>3, <1>4, <1>5, <1>6, <1>7

LEMMA QuietIsResting ==
  ASSUME Quiet, NEW t \in Tasks
  PROVE  Changing(t) = {}
<1>1. \A s \in Procs : slot[s].pc = "idle"  BY DEF Quiet, Idle
<1> QED BY <1>1 DEF Changing, Effect

LEMMA QueueEntries ==
  ASSUME NEW role
  PROVE  \A e : e \in ListPendingApprovals(role) <=>
           \E t \in Tasks : \E i \in 1..Len(approval[t]) :
             /\ e = <<t, i>> /\ Pending(approval[t], i)
             /\ role \in {"admin", approval[t][i].role}
             /\ index[t].status = "awaiting_approval"
<1> DEFINE rowsOf(t) == {t} \X (1..Len(approval[t]))
           all == UNION {rowsOf(t) : t \in Tasks}
           shown(t, i) == /\ approval[t][i].decision = ""
                          /\ role \in {"admin", approval[t][i].role}
                          /\ index[t].status = "awaiting_approval"
<1>1. \A t, e : e \in rowsOf(t) <=> \E i \in 1..Len(approval[t]) : e = <<t, i>>
  OBVIOUS
<1>2. \A e : e \in all <=> \E t \in Tasks : e \in rowsOf(t)
  <2> HIDE DEF rowsOf
  <2> QED OBVIOUS
<1>3. ListPendingApprovals(role) = {e \in all : shown(e[1], e[2])}
  BY DEF ListPendingApprovals
<1> HIDE DEF rowsOf, all
<1>4. \A e : e \in all <=> \E t \in Tasks : \E i \in 1..Len(approval[t]) : e = <<t, i>>
  BY <1>1, <1>2
<1>5. \A t, i : <<t, i>>[1] = t /\ <<t, i>>[2] = i  OBVIOUS
<1> HIDE DEF shown
<1>6. \A e : e \in ListPendingApprovals(role) <=>
        \E t \in Tasks : \E i \in 1..Len(approval[t]) : e = <<t, i>> /\ shown(t, i)
  BY <1>3, <1>4, <1>5
<1> QED BY <1>6 DEF shown, Pending

LEMMA QueueFollows ==
  ASSUME OneAfterAnother, StagesDiffer
  PROVE  Life!IndInv /\ Life!QueuedInv => QueueIsRight
<1> SUFFICES ASSUME Life!IndInv, Life!QueuedInv, Quiet, IndexAgrees
             PROVE  /\ \A role \in Roles \cup {"admin"} :
                         \A e \in ListPendingApprovals(role) :
                           LET rows == approval[e[1]] IN
                           Readable(OnDisk(e[1])) /\ ~IsTeamReview(Stages, rows[e[2]].stage) =>
                             /\ WebDecidable(Stages, OnDisk(e[1]))
                             /\ HasPending(rows, OnDisk(e[1]).stage)
                             /\ CanDecide(role, ApprovalRoleOf(rows))
                    /\ \A t \in Tasks :
                         Readable(OnDisk(t)) /\ WebDecidable(Stages, OnDisk(t)) /\ ~broken[t] =>
                           \E e \in ListPendingApprovals(RoleFor(OnDisk(t).stage)) : e[1] = t
  BY DEF QueueIsRight
<1>0. Life!RolesAssumption /\ Life!StagesAssumption /\ Life!MaxRowsAssumption
  BY LifecycleAssumptions
<1>1. \A t \in Tasks : TaskOf[t] = OnDisk(t) /\ RowsOf[t] = approval[t]
  BY QuietIsResting, RestingTask
<1>2. ASSUME NEW role, NEW t \in Tasks, NEW i \in 1..Len(approval[t]),
             Pending(approval[t], i), role \in {"admin", approval[t][i].role},
             index[t].status = "awaiting_approval",
             Readable(OnDisk(t)), ~IsTeamReview(Stages, approval[t][i].stage)
      PROVE  /\ WebDecidable(Stages, OnDisk(t))
             /\ HasPending(approval[t], OnDisk(t).stage)
             /\ CanDecide(role, ApprovalRoleOf(approval[t]))
  <2>1. OnDisk(t).status = "awaiting_approval"  BY <1>2 DEF IndexAgrees
  <2>2. /\ TaskOf[t].status = "awaiting_approval"
        /\ i \in 1..Len(RowsOf[t]) /\ Life!Pending(RowsOf[t], i)
        /\ ~Life!IsTeamReview(Stages, RowsOf[t][i].stage)
        /\ role \in {"admin", RowsOf[t][i].role}
    BY <1>1, <1>2, <2>1, SameQueueOperators
  <2>3. /\ Life!WebDecidable(Stages, TaskOf[t])
        /\ Life!HasPending(RowsOf[t], TaskOf[t].stage)
        /\ Life!CanDecide(role, Life!ApprovalRoleOf(RowsOf[t]))
    BY <1>0, <2>2, Life!PendingRowIsDecidable
  <2> QED BY <1>1, <2>3, SameQueueOperators
<1>3. ASSUME NEW role, NEW e \in ListPendingApprovals(role), Readable(OnDisk(e[1])),
             ~IsTeamReview(Stages, approval[e[1]][e[2]].stage)
      PROVE  /\ WebDecidable(Stages, OnDisk(e[1]))
             /\ HasPending(approval[e[1]], OnDisk(e[1]).stage)
             /\ CanDecide(role, ApprovalRoleOf(approval[e[1]]))
  <2>1. PICK t \in Tasks : \E i \in 1..Len(approval[t]) :
          /\ e = <<t, i>> /\ Pending(approval[t], i)
          /\ role \in {"admin", approval[t][i].role}
          /\ index[t].status = "awaiting_approval"
    BY <1>3, QueueEntries
  <2>2. PICK i \in 1..Len(approval[t]) :
          /\ e = <<t, i>> /\ Pending(approval[t], i)
          /\ role \in {"admin", approval[t][i].role}
          /\ index[t].status = "awaiting_approval"
    BY <2>1
  <2>3. e[1] = t /\ e[2] = i  BY <2>2
  <2> QED BY <1>2, <1>3, <2>2, <2>3
<1>4. ASSUME NEW t \in Tasks, Readable(OnDisk(t)), WebDecidable(Stages, OnDisk(t)),
             ~broken[t]
      PROVE  \E e \in ListPendingApprovals(RoleFor(OnDisk(t).stage)) : e[1] = t
  <2>1. OnDisk(t).status = "awaiting_approval"  BY <1>4 DEF WebDecidable
  <2>2. index[t].status = "awaiting_approval"  BY <1>4, <2>1 DEF IndexAgrees
  <2>3. PICK i \in 1..Len(RowsOf[t]) :
          /\ Life!Pending(RowsOf[t], i)
          /\ RowsOf[t][i].role = Life!RoleFor(TaskOf[t].stage)
    <3>1. TaskOf[t].status = "awaiting_approval"  BY <1>1, <2>1
    <3> QED BY <1>0, <1>4, <3>1, Life!WaitingTaskIsQueued
  <2>4. /\ i \in 1..Len(approval[t]) /\ Pending(approval[t], i)
        /\ approval[t][i].role = RoleFor(OnDisk(t).stage)
    BY <1>1, <2>3, SameQueueOperators
  <2>5. <<t, i>> \in ListPendingApprovals(RoleFor(OnDisk(t).stage))
    BY <2>2, <2>4, QueueEntries
  <2> QED BY <2>5
<1> QED BY <1>3, <1>4

\* With one request at a time the page of a role shows it what it can decide,
\* and every task waiting at a web gate is on somebody's page, once the index
\* has caught up: after any crashes, refused writes and rejections.
THEOREM QueueStaysRight ==
  ASSUME OneAfterAnother, StagesDiffer
  PROVE  Spec => []QueueIsRight
BY QueueFollows, ServerLives, PTL

=============================================================================
