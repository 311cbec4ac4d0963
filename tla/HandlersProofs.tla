--------------------------- MODULE HandlersProofs ---------------------------
(***************************************************************************)
(* Proofs about the running server of Handlers, for any number of requests *)
(* in flight, tasks, crashes, refusals and any pipeline that meets         *)
(* HandlersAssumption.  The argument for the gates: approval rows are only *)
(* ever added to and decided, so that what a handler's copy of task.md has *)
(* been through stays approved while the copy grows old.                   *)
(***************************************************************************)
EXTENDS Handlers, Integers, SequenceTheorems, WellFoundedInduction, TLAPS

-----------------------------------------------------------------------------
(* Rows and copies. *)

Meta == [stage : StageIds(Stages) \cup {"coding", NoStage},
         status : Statuses \cup {"absent", "unreadable"}, archived : BOOLEAN]

ApprovalRow == [stage : StageIds(Stages), role : {RoleFor(s) : s \in StageIds(Stages)},
                decision : {"", "approved", "rejected"},
                by : Roles \cup {"none", "", "webhook"}]

\* Some row of the stage is approved.
Ever(rows, stage) ==
  \E i \in 1..Len(rows) : rows[i].stage = stage /\ rows[i].decision = "approved"

\* What was approved stays so.
Grown(rows, new) == \A stage : Ever(rows, stage) => Ever(new, stage)

Here(m) == Current(Stages, m)

\* Every gate behind the stage of m was approved.
Behind(m, rows) ==
  \A k \in 1..(StageOf(Stages, Here(m)) - 1) :
    NeedsApproval(Stages, Stages[k].id) => Ever(rows, Stages[k].id)

Confirmed(m, rows) == m.status = "merged" => m.stage = "merge" /\ Ever(rows, "merge")

Fits(m, rows) == m \in Meta /\ Behind(m, rows) /\ Confirmed(m, rows)

LEMMA FitsGrows ==
  ASSUME NEW m, NEW rows, NEW new, Fits(m, rows), Grown(rows, new)
  PROVE  Fits(m, new)
BY DEF Fits, Behind, Confirmed, Grown

LEMMA SegmentsDiffer ==
  ASSUME NEW a \in Nat, NEW b \in Nat, 1..a = 1..b
  PROVE  a = b
<1>1. a # 0 => a \in 1..b  OBVIOUS
<1>2. b # 0 => b \in 1..a  OBVIOUS
<1>3. a # 0 => b # 0 /\ a <= b  BY <1>1
<1>4. b # 0 => a # 0 /\ b <= a  BY <1>2
<1> QED BY <1>3, <1>4

LEMMA DecideGrows ==
  ASSUME NEW rows \in Seq(ApprovalRow), NEW stage,
         NEW decision \in {"", "approved", "rejected"},
         NEW by \in Roles \cup {"none", "", "webhook"}
  PROVE  LET new == Decide(rows, stage, decision, by) IN
         /\ new \in Seq(ApprovalRow)
         /\ Grown(rows, new)
         /\ HasPending(rows, stage) /\ decision = "approved" => Ever(new, stage)
<1> DEFINE new == Decide(rows, stage, decision, by)
<1>1. Len(rows) \in Nat /\ \A i \in 1..Len(rows) : rows[i] \in ApprovalRow
  BY LenProperties, ElementOfSeq
<1>2. ASSUME NEW i \in 1..Len(rows)
      PROVE  /\ new[i] \in ApprovalRow
             /\ new[i].stage = rows[i].stage
             /\ rows[i].stage = stage /\ Pending(rows, i) => new[i].decision = decision
             /\ ~Pending(rows, i) => new[i] = rows[i]
  <2>1. rows[i] \in ApprovalRow  BY <1>1
  <2> QED BY <2>1 DEF Decide, ApprovalRow
<1>3. new \in [1..Len(rows) -> ApprovalRow]
  BY <1>2 DEF Decide
<1>4. new \in Seq(ApprovalRow)
  BY <1>1, <1>3, SeqDef
<1>5. Len(new) = Len(rows)
  <2>1. DOMAIN new = 1..Len(new) /\ Len(new) \in Nat
    BY <1>4, LenProperties
  <2>2. DOMAIN new = 1..Len(rows)  BY <1>3
  <2> HIDE DEF new
  <2> QED BY <1>1, <2>1, <2>2, SegmentsDiffer
<1> HIDE DEF new
<1>6. Grown(rows, new)
  BY <1>2, <1>5 DEF Grown, Ever, Pending
<1>7. HasPending(rows, stage) /\ decision = "approved" => Ever(new, stage)
  BY <1>2, <1>5 DEF HasPending, Ever
<1> QED BY <1>4, <1>6, <1>7 DEF new

LEMMA OpeningGrows ==
  ASSUME NEW rows \in Seq(ApprovalRow), NEW stage \in StageIds(Stages)
  PROVE  LET new == NewApproval(rows, stage) IN
         new \in Seq(ApprovalRow) /\ Grown(rows, new)
<1> DEFINE row == [stage |-> stage, role |-> RoleFor(stage), decision |-> "",
                   by |-> ""]
<1>1. row \in ApprovalRow  BY DEF ApprovalRow
<1>2. NewApproval(rows, stage) = Append(rows, row)  BY DEF NewApproval
<1> HIDE DEF row
<1>3. LET new == Append(rows, row) IN
      /\ new \in Seq(ApprovalRow)
      /\ Len(rows) \in Nat /\ Len(new) = Len(rows) + 1
      /\ \A i \in 1..Len(rows) : new[i] = rows[i]
  BY <1>1, AppendProperties, LenProperties
<1>4. Grown(rows, Append(rows, row))
  <2> DEFINE new == Append(rows, row)
  <2>1. \A i \in 1..Len(rows) : i \in 1..Len(new) /\ new[i] = rows[i]
    BY <1>3
  <2> HIDE DEF new
  <2> QED BY <2>1 DEF Grown, Ever, new
<1> QED BY <1>2, <1>3, <1>4

-----------------------------------------------------------------------------
(* Stages. *)

\* A non-empty set of numbers has a least one.
LEMMA LeastNumber ==
  ASSUME NEW S \in SUBSET Nat, S # {}
  PROVE  \E i \in S : \A j \in S : i <= j
<1> DEFINE R == {ss \in Nat \X Nat : ss[1] < ss[2]}
<1>1. IsWellFoundedOn(R, Nat)
  BY NatLessThanWellFounded, Zenon DEF OpToRel
<1>2. \A x, y \in Nat : <<y, x>> \in R <=> y < x  OBVIOUS
<1> HIDE DEF R
<1>3. \E x \in S : \A y \in S : ~(<<y, x>> \in R)
  BY <1>1, WFMin
<1>4. PICK x \in S : \A y \in S : ~(y < x)  BY <1>2, <1>3
<1>5. \A y \in S : x <= y  BY <1>4
<1> QED BY <1>5

\* StageOf finds the first position of a stage.
LEMMA StageFacts ==
  /\ Len(Stages) \in Nat \ {0}
  /\ \A id : Known(Stages, id) => id \in StageIds(Stages) /\ id # NoStage
  /\ First(Stages) \in StageIds(Stages) /\ StageOf(Stages, First(Stages)) <= 1
  /\ \A id : StageOf(Stages, id) \in 0..Len(Stages)
  /\ \A id : Known(Stages, id) => Stages[StageOf(Stages, id)].id = id
  /\ \A i \in 1..Len(Stages) : StageOf(Stages, Stages[i].id) <= i
<1>1. Len(Stages) \in Nat \ {0}
  BY HandlersAssumption, LenProperties DEF ValidStages
<1>3. ASSUME NEW id, id \notin StageIds(Stages) PROVE StageOf(Stages, id) = 0
  BY <1>3 DEF StageOf
<1>4. ASSUME NEW id, id \in StageIds(Stages)
      PROVE  /\ StageOf(Stages, id) \in 1..Len(Stages)
             /\ Stages[StageOf(Stages, id)].id = id
             /\ \A i \in 1..Len(Stages) : Stages[i].id = id => StageOf(Stages, id) <= i
  <2> DEFINE at == {i \in 1..Len(Stages) : Stages[i].id = id}
  <2>1. \E i \in at : \A j \in at : i <= j
    <3>1. at # {} /\ at \in SUBSET Nat  BY <1>1, <1>4 DEF StageIds
    <3> HIDE DEF at
    <3> QED BY <3>1, LeastNumber
  <2>2. PICK i \in at : \A j \in at : i <= j  BY <2>1
  <2>3. i \in 1..Len(Stages) /\ Stages[i].id = id
        /\ \A j \in 1..(i-1) : Stages[j].id # id
    BY <1>1, <2>2
  <2>4. /\ StageOf(Stages, id) \in 1..Len(Stages)
        /\ Stages[StageOf(Stages, id)].id = id
        /\ \A j \in 1..(StageOf(Stages, id) - 1) : Stages[j].id # id
    BY <1>4, <2>3 DEF StageOf
  <2> QED BY <1>1, <2>4
<1>5. \A i \in 1..Len(Stages) : Stages[i].id \in StageIds(Stages)
  BY DEF StageIds
<1>6. \A id : Known(Stages, id) <=> id \in StageIds(Stages)
  BY <1>1, <1>3, <1>4 DEF Known
<1>7. \A id \in StageIds(Stages) : id # NoStage
  BY HandlersAssumption DEF StageIds
<1>8. First(Stages) \in StageIds(Stages) /\ StageOf(Stages, First(Stages)) <= 1
  <2>1. 1 \in 1..Len(Stages)  BY <1>1
  <2> QED BY <1>4, <1>5, <2>1 DEF First
<1> QED BY <1>1, <1>3, <1>4, <1>5, <1>6, <1>7, <1>8

\* The next stage is at most one position further on.
LEMMA NextStageFacts ==
  ASSUME NEW id, Known(Stages, id)
  PROVE  LET next == NextStage(Stages, id) IN
         \/ next = NoStage
         \/ /\ next \in StageIds(Stages)
            /\ StageOf(Stages, next) <= StageOf(Stages, id) + 1
<1>1. StageOf(Stages, id) \in 1..Len(Stages)
  BY StageFacts DEF Known
<1>2. CASE StageOf(Stages, id) = Len(Stages)
  BY <1>2 DEF NextStage
<1>3. CASE StageOf(Stages, id) # Len(Stages)
  <2>1. StageOf(Stages, id) + 1 \in 1..Len(Stages)
    BY <1>1, <1>3, StageFacts
  <2>2. NextStage(Stages, id) = Stages[StageOf(Stages, id) + 1].id
    BY <1>3 DEF NextStage
  <2>3. Stages[StageOf(Stages, id) + 1].id \in StageIds(Stages)
    BY <2>1 DEF StageIds
  <2> QED BY <2>1, <2>2, <2>3, StageFacts
<1> QED BY <1>2, <1>3

\* A rejection never sends a task forward.
LEMMA RejectTargetFacts ==
  ASSUME NEW id, Known(Stages, id)
  PROVE  /\ RejectTarget(Stages, id) \in StageIds(Stages) \cup {"coding"}
         /\ RejectTarget(Stages, id) # NoStage
         /\ StageOf(Stages, RejectTarget(Stages, id)) <= StageOf(Stages, id)
<1>1. /\ StageOf(Stages, id) \in 1..Len(Stages)
      /\ id \in StageIds(Stages) /\ id # NoStage
  BY StageFacts DEF Known
<1>2. CASE RejectTarget(Stages, id) = id
  BY <1>1, <1>2
<1>3. CASE RejectTarget(Stages, id) # id
  <2>1. /\ RejectTarget(Stages, id) = "coding"
        /\ Stages[StageOf(Stages, id)].onReject = "back_to_coding"
    BY <1>3 DEF RejectTarget
  <2>2. StageOf(Stages, "coding") \in 0..Len(Stages)
    BY StageFacts
  <2>3. StageOf(Stages, "coding") # 0 => Stages[StageOf(Stages, "coding")].id = "coding"
    BY StageFacts DEF Known
  <2>4. StageOf(Stages, "coding") <= StageOf(Stages, id)
    BY <1>1, <2>1, <2>2, <2>3, HandlersAssumption
  <2> QED BY <2>1, <2>4 DEF NoStage
<1> QED BY <1>2, <1>3

\* A copy that stays where it is, or goes back, still fits.
LEMMA BackFits ==
  ASSUME NEW m, NEW rows, Fits(m, rows), NEW new \in Meta, new.status # "merged",
         \/ Here(new) = Here(m)
         \/ StageOf(Stages, Here(new)) <= StageOf(Stages, Here(m))
  PROVE  Fits(new, rows)
<1>1. StageOf(Stages, Here(new)) \in Nat /\ StageOf(Stages, Here(m)) \in Nat
  BY StageFacts
<1>2. \A k \in 1..(StageOf(Stages, Here(new)) - 1) :
        k \in 1..(StageOf(Stages, Here(m)) - 1)
  BY <1>1
<1> QED BY <1>2 DEF Fits, Behind, Confirmed

\* So does one that goes one stage on, past a stage that was approved.
LEMMA OnFits ==
  ASSUME NEW m, NEW rows, Fits(m, rows), NEW new \in Meta, new.status # "merged",
         Known(Stages, Here(m)),
         NeedsApproval(Stages, Here(m)) => Ever(rows, Here(m)),
         StageOf(Stages, Here(new)) <= StageOf(Stages, Here(m)) + 1
  PROVE  Fits(new, rows)
<1>1. StageOf(Stages, Here(new)) \in Nat /\ StageOf(Stages, Here(m)) \in Nat
  BY StageFacts
<1>2. Stages[StageOf(Stages, Here(m))].id = Here(m)  BY StageFacts
<1>3. ASSUME NEW k \in 1..(StageOf(Stages, Here(new)) - 1),
             NeedsApproval(Stages, Stages[k].id)
      PROVE  Ever(rows, Stages[k].id)
  <2>1. CASE k = StageOf(Stages, Here(m))  BY <1>2, <1>3, <2>1
  <2>2. CASE k # StageOf(Stages, Here(m))
    <3>1. k \in 1..(StageOf(Stages, Here(m)) - 1)  BY <1>1, <2>2
    <3> QED BY <1>3, <3>1 DEF Fits, Behind
  <2> QED BY <2>1, <2>2
<1> QED BY <1>3 DEF Fits, Behind, Confirmed

-----------------------------------------------------------------------------
(* Plans. *)

PlanType(plan) ==
  /\ plan.decide \in {"", "approved", "rejected"}
  /\ plan.open \in StageIds(Stages) \cup {NoStage}

\* What a plan says of its call's copy: where it leads fits the rows, if what
\* it decides has been decided.
PlanFitsTo(m, plan, rows) ==
  /\ PlanType(plan)
  /\ (plan.decide = "approved" => Ever(rows, m.stage)) => Fits(plan.meta, rows)

LEMMA CommitFits ==
  ASSUME NEW m, NEW rows, NEW meta, Fits(meta, rows)
  PROVE  PlanFitsTo(m, Commit(meta), rows)
BY DEF PlanFitsTo, PlanType, Commit

LEMMA RefusedFits ==
  ASSUME NEW m, NEW rows, Fits(m, rows)
  PROVE  PlanFitsTo(m, Refused(m), rows)
BY DEF PlanFitsTo, PlanType, Refused

LEMMA EnterNextFits ==
  ASSUME NEW m, NEW rows, Fits(m, rows), NEW at \in Meta, at.stage = Here(m),
         at.stage # NoStage, Known(Stages, at.stage),
         NeedsApproval(Stages, at.stage) => Ever(rows, at.stage)
  PROVE  LET plan == EnterNext(Stages, at, NextStage(Stages, at.stage)) IN
         /\ plan.decide = "" /\ PlanType(plan)
         /\ Fits(plan.meta, rows)
<1> DEFINE next == NextStage(Stages, at.stage)
           plan == EnterNext(Stages, at, next)
           over == [at EXCEPT !.status = "delivered"]
           held == [at EXCEPT !.stage = next, !.status = "awaiting_approval"]
           on == [at EXCEPT !.stage = next, !.status = "running"]
<1>0. \/ next = NoStage
      \/ next \in StageIds(Stages) /\ StageOf(Stages, next) <= StageOf(Stages, Here(m)) + 1
  BY NextStageFacts
<1> HIDE DEF next
<1>1. CASE next = NoStage
  <2>1. over \in Meta /\ over.status = "delivered" /\ over.stage = at.stage
    BY DEF Meta, Statuses
  <2>2. Here(over) = Here(m)  BY <2>1 DEF Here, Current
  <2>3. plan = Commit(over)  BY <1>1 DEF EnterNext
  <2> HIDE DEF over, plan
  <2>4. Fits(over, rows)  BY <2>1, <2>2, BackFits
  <2>5. plan.meta = over /\ plan.decide = "" /\ plan.open = NoStage
    BY <2>3 DEF Commit
  <2> QED BY <2>4, <2>5 DEF PlanType, plan, next
<1>2. CASE next # NoStage
  <2>1. /\ held \in Meta /\ held.status = "awaiting_approval" /\ held.stage = next
        /\ on \in Meta /\ on.status = "running" /\ on.stage = next
    BY <1>0, <1>2 DEF Meta, Statuses
  <2>2. Here(held) = next /\ Here(on) = next  BY <1>2, <2>1 DEF Here, Current
  <2>3. plan = [Commit(held) EXCEPT !.open = next] \/ plan = Commit(on)
    BY <1>2 DEF EnterNext
  <2> HIDE DEF held, on, plan
  <2>4. Fits(held, rows) /\ Fits(on, rows)
    BY <1>0, <1>2, <2>1, <2>2, OnFits
  <2>5. /\ plan.meta \in {held, on} /\ plan.decide = ""
        /\ plan.open \in {next, NoStage}
    <3>1. ASSUME plan = [Commit(held) EXCEPT !.open = next]
          PROVE  plan.meta = held /\ plan.decide = "" /\ plan.open = next
      BY <3>1 DEF Commit
    <3>2. ASSUME plan = Commit(on)
          PROVE  plan.meta = on /\ plan.decide = "" /\ plan.open = NoStage
      BY <3>2 DEF Commit
    <3> QED BY <2>3, <3>1, <3>2
  <2> QED BY <1>0, <1>2, <2>4, <2>5 DEF PlanType, plan, next
<1> QED BY <1>1, <1>2

\* Every plan the engine makes of a copy that fits.
LEMMA AdvanceFits ==
  ASSUME NEW m, NEW rows, Fits(m, rows), NEW basis
  PROVE  PlanFitsTo(m, AdvancePlan(Stages, m, KBMode, basis), rows)
<1> DEFINE plan == AdvancePlan(Stages, m, KBMode, basis)
           at == [m EXCEPT !.stage = Current(Stages, m)]
           paused == [m EXCEPT !.status = "paused"]
           over == [at EXCEPT !.status = "delivered"]
           held == [at EXCEPT !.status = "awaiting_approval"]
           on == EnterNext(Stages, at, NextStage(Stages, at.stage))
<1>1. m \in Meta  BY DEF Fits
<1>2. Here(m) \in StageIds(Stages) \cup {"coding"} /\ Here(m) # NoStage
  <2>1. First(Stages) \in StageIds(Stages) /\ First(Stages) # NoStage
    BY StageFacts, HandlersAssumption DEF StageIds
  <2> QED BY <1>1, <2>1 DEF Meta, Here, Current, NoStage
<1>3. /\ at \in Meta /\ at.stage = Here(m)
  BY <1>1, <1>2 DEF Meta, Here
<1>4. paused \in Meta /\ paused.status = "paused" /\ paused.stage = m.stage
  BY <1>1 DEF Meta, Statuses
<1>5. /\ over \in Meta /\ over.status = "delivered" /\ over.stage = at.stage
      /\ held \in Meta /\ held.status = "awaiting_approval" /\ held.stage = at.stage
  <2> HIDE DEF at
  <2> QED BY <1>3 DEF Meta, Statuses
<1>6. Fits(paused, rows) /\ Fits(over, rows) /\ Fits(held, rows)
  <2>1. Here(paused) = Here(m) /\ Here(over) = Here(m) /\ Here(held) = Here(m)
    BY <1>2, <1>3, <1>4, <1>5 DEF Here, Current
  <2> HIDE DEF paused, over, held
  <2> QED BY <1>4, <1>5, <2>1, BackFits
<1>7. \/ plan = Commit(paused)
      \/ plan = Commit(over)
      \/ NeedsApproval(Stages, at.stage) /\ plan = [Commit(held) EXCEPT !.open = at.stage]
      \/ plan = Refused(m)
      \/ ~NeedsApproval(Stages, at.stage) /\ Known(Stages, at.stage) /\ plan = on
  BY DEF AdvancePlan
<1> HIDE DEF plan, at, paused, over, held
<1>8. CASE NeedsApproval(Stages, at.stage) /\ plan = [Commit(held) EXCEPT !.open = at.stage]
  <2>1. plan.decide = "" /\ plan.open = at.stage /\ plan.meta = held
    BY <1>8 DEF Commit
  <2>2. Known(Stages, at.stage)  BY <1>8 DEF NeedsApproval, Approval
  <2>3. at.stage \in StageIds(Stages)  BY <2>2, StageFacts
  <2> QED BY <1>6, <2>1, <2>3 DEF PlanFitsTo, PlanType, plan
<1>9. CASE ~NeedsApproval(Stages, at.stage) /\ Known(Stages, at.stage) /\ plan = on
  <2>1. /\ on.decide = "" /\ PlanType(on) /\ Fits(on.meta, rows)
    BY <1>2, <1>3, <1>9, EnterNextFits
  <2> HIDE DEF on
  <2> QED BY <1>9, <2>1 DEF PlanFitsTo, plan
<1> QED BY <1>6, <1>7, <1>8, <1>9, CommitFits, RefusedFits DEF plan

LEMMA DecisionsFit ==
  ASSUME NEW m, NEW rows, Fits(m, rows)
  PROVE  /\ PlanFitsTo(m, ApprovePlan(Stages, m), rows)
         /\ PlanFitsTo(m, RejectPlan(Stages, m), rows)
         /\ PlanFitsTo(m, MarkMergedPlan(m), rows)
         /\ PlanFitsTo(m, DeliverPlan(Stages, m), rows)
<1>0. m \in Meta  BY DEF Fits
<1>1. PlanFitsTo(m, Refused(m), rows)  BY RefusedFits
<1>2. ASSUME Known(Stages, m.stage) PROVE Here(m) = m.stage /\ m.stage # NoStage
  BY <1>2, StageFacts DEF Here, Current
<1> DEFINE on == EnterNext(Stages, m, NextStage(Stages, m.stage))
<1>3. ASSUME Known(Stages, m.stage),
             NeedsApproval(Stages, m.stage) => Ever(rows, m.stage)
      PROVE  on.decide = "" /\ PlanType(on) /\ Fits(on.meta, rows)
  BY <1>0, <1>2, <1>3, EnterNextFits
<1>4. PlanFitsTo(m, ApprovePlan(Stages, m), rows)
  <2> DEFINE approved == [on EXCEPT !.decide = "approved"]
             left == [Refused(m) EXCEPT !.ok = TRUE, !.decide = "approved"]
  <2>1. \/ ApprovePlan(Stages, m) \in {Refused(m), left}
        \/ Known(Stages, m.stage) /\ ApprovePlan(Stages, m) = approved
    BY DEF ApprovePlan
  <2>2. left.decide = "approved" /\ left.open = NoStage /\ left.meta = m
    BY DEF Refused
  <2>3. approved.decide = "approved" /\ approved.open = on.open /\ approved.meta = on.meta
    BY DEF EnterNext, Commit
  <2>4. ASSUME Known(Stages, m.stage)
        PROVE  on.open \in StageIds(Stages) \cup {NoStage}
    <3>1. NextStage(Stages, m.stage) \in StageIds(Stages) \cup {NoStage}
      BY <2>4, NextStageFacts
    <3>2. on.open \in {NextStage(Stages, m.stage), NoStage}
      BY DEF EnterNext, Commit
    <3> QED BY <3>1, <3>2
  <2> HIDE DEF on, approved, left
  <2>5. PlanFitsTo(m, left, rows)  BY <2>2 DEF PlanFitsTo, PlanType
  <2>6. ASSUME Known(Stages, m.stage) PROVE PlanFitsTo(m, approved, rows)
    BY <1>3, <2>3, <2>4, <2>6 DEF PlanFitsTo, PlanType
  <2> QED BY <1>1, <2>1, <2>5, <2>6
<1>5. PlanFitsTo(m, RejectPlan(Stages, m), rows)
  <2> DEFINE target == RejectTarget(Stages, m.stage)
             back == [m EXCEPT !.stage = target, !.status = "running"]
             rejected == [Commit(back) EXCEPT !.decide = "rejected"]
  <2>1. RejectPlan(Stages, m) \in {Refused(m), rejected}
    BY DEF RejectPlan
  <2>2. rejected.decide = "rejected" /\ rejected.open = NoStage /\ rejected.meta = back
    BY DEF Commit
  <2>3. Fits(back, rows)
    <3>1. CASE Known(Stages, m.stage)
      <4>1. /\ target \in StageIds(Stages) \cup {"coding"} /\ target # NoStage
            /\ StageOf(Stages, target) <= StageOf(Stages, m.stage)
        BY <3>1, RejectTargetFacts
      <4> HIDE DEF target
      <4>2. back \in Meta /\ back.status = "running" /\ back.stage = target
        BY <1>0, <4>1 DEF Meta, Statuses
      <4>3. Here(back) = target  BY <4>1, <4>2 DEF Here, Current
      <4> HIDE DEF back
      <4> QED BY <1>2, <3>1, <4>1, <4>2, <4>3, BackFits
    <3>2. CASE ~Known(Stages, m.stage)
      <4>1. target = m.stage  BY <3>2 DEF RejectTarget
      <4> HIDE DEF target
      <4>2. back \in Meta /\ back.status = "running" /\ back.stage = m.stage
        BY <1>0, <4>1 DEF Meta, Statuses
      <4>3. Here(back) = Here(m)  BY <4>2 DEF Here, Current
      <4> HIDE DEF back
      <4> QED BY <4>2, <4>3, BackFits
    <3> QED BY <3>1, <3>2
  <2> HIDE DEF back, rejected
  <2>4. PlanFitsTo(m, rejected, rows)  BY <2>2, <2>3 DEF PlanFitsTo, PlanType
  <2> QED BY <1>1, <2>1, <2>4
<1>6. PlanFitsTo(m, MarkMergedPlan(m), rows)
  <2> DEFINE settled == [m EXCEPT !.status = "merged"]
             merged == [Commit(settled) EXCEPT !.decide = "approved"]
  <2>1. \/ MarkMergedPlan(m) = Refused(m)
        \/ m.stage = "merge" /\ MarkMergedPlan(m) = merged
    BY DEF MarkMergedPlan
  <2>2. merged.decide = "approved" /\ merged.open = NoStage /\ merged.meta = settled
    BY DEF Commit
  <2>3. settled \in Meta /\ settled.status = "merged" /\ settled.stage = m.stage
    BY <1>0 DEF Meta, Statuses
  <2>4. Here(settled) = Here(m)  BY <2>3 DEF Here, Current
  <2> HIDE DEF settled, merged
  <2>5. ASSUME m.stage = "merge", Ever(rows, m.stage) PROVE Fits(settled, rows)
    BY <2>3, <2>4, <2>5 DEF Fits, Behind, Confirmed
  <2>6. ASSUME m.stage = "merge" PROVE PlanFitsTo(m, merged, rows)
    BY <2>2, <2>5, <2>6 DEF PlanFitsTo, PlanType
  <2> QED BY <1>1, <2>1, <2>6
<1>7. PlanFitsTo(m, DeliverPlan(Stages, m), rows)
  <2>1. \/ DeliverPlan(Stages, m) = Refused(m)
        \/ /\ Known(Stages, m.stage) /\ m.stage = "merge" /\ m.status = "merged"
           /\ DeliverPlan(Stages, m) = on
    BY DEF DeliverPlan
  <2>2. m.status = "merged" => Ever(rows, "merge")  BY DEF Fits, Confirmed
  <2> HIDE DEF on
  <2> QED BY <1>1, <1>3, <2>1, <2>2 DEF PlanFitsTo
<1> QED BY <1>4, <1>5, <1>6, <1>7

LEMMA StatusChangesFit ==
  ASSUME NEW m, NEW rows, Fits(m, rows)
  PROVE  /\ PlanFitsTo(m, PausePlan(m), rows) /\ PlanFitsTo(m, ResumePlan(m), rows)
         /\ PlanFitsTo(m, ArchivePlan(m), rows) /\ PlanFitsTo(m, RecoverPlan(m), rows)
<1> DEFINE paused == [m EXCEPT !.status = "paused"]
           running == [m EXCEPT !.status = "running"]
           kept == [m EXCEPT !.archived = TRUE]
<1>0. m \in Meta  BY DEF Fits
<1>1. /\ paused \in Meta /\ paused.status = "paused" /\ paused.stage = m.stage
      /\ running \in Meta /\ running.status = "running" /\ running.stage = m.stage
      /\ kept \in Meta /\ kept.status = m.status /\ kept.stage = m.stage
  BY <1>0 DEF Meta, Statuses
<1>2. Here(paused) = Here(m) /\ Here(running) = Here(m) /\ Here(kept) = Here(m)
  BY <1>1 DEF Here, Current
<1>3. /\ PausePlan(m) = Refused(m) \/ PausePlan(m) = Commit(paused)
      /\ ResumePlan(m) = Refused(m) \/ ResumePlan(m) = Commit(running)
      /\ ArchivePlan(m) = Refused(m) \/ ArchivePlan(m) = Commit(kept)
      /\ RecoverPlan(m) = Refused(m) \/ RecoverPlan(m) = Commit(paused)
  BY DEF PausePlan, ResumePlan, ArchivePlan, RecoverPlan
<1> HIDE DEF paused, running, kept
<1>4. Fits(paused, rows) /\ Fits(running, rows)
  BY <1>1, <1>2, BackFits
<1>5. Fits(kept, rows)
  BY <1>1, <1>2 DEF Fits, Behind, Confirmed
<1> QED BY <1>3, <1>4, <1>5, CommitFits, RefusedFits

Calls == {"advance", "approve", "reject", "pause", "resume", "merged", "deliver",
          "archive", "recover"}

LEMMA PlansFit ==
  ASSUME NEW r, r.call \in Calls, NEW rows, Fits(r.m, rows)
  PROVE  PlanFitsTo(r.m, PlanOf(r), rows)
<1>1. CASE r.call = "advance"  BY <1>1, AdvanceFits DEF PlanOf
<1>2. CASE r.call \in {"approve", "reject", "merged", "deliver"}
  BY <1>2, DecisionsFit DEF PlanOf
<1>3. CASE r.call \in {"pause", "resume", "archive", "recover"}
  BY <1>3, StatusChangesFit DEF PlanOf
<1> QED BY <1>1, <1>2, <1>3 DEF Calls
LEMMA SamePlan ==
  ASSUME NEW r, NEW new, new.call = r.call, new.m = r.m, new.basis = r.basis
  PROVE  PlanOf(new) = PlanOf(r)
BY DEF PlanOf

-----------------------------------------------------------------------------
(* Requests. *)

Pcs == {"idle", "route", "fill", "parse", "search", "decide", "open", "read",
        "truncate", "write", "index"}

Request == [pc : Pcs, call : Calls \cup {"none", "create"}, t : Tasks \cup {"none"},
            user : Roles \cup {"none"}, m : Meta, basis : BOOLEAN, again : BOOLEAN,
            rows : Seq(ApprovalRow)]

\* The request has its copy; its decision is recorded.
Holding == {"search", "decide", "open", "read", "truncate", "write", "index"}
Past == {"open", "read", "truncate", "write", "index"}

\* What a request that is under way relies on, rowsOf being all approval rows.
Good(r, rowsOf) ==
  /\ r.pc # "idle" => r.t \in Tasks
  /\ r.pc \notin {"idle", "fill"} => r.call \in Calls
  /\ r.pc \in Holding => Fits(r.m, rowsOf[r.t])
  /\ r.pc \in Past /\ PlanOf(r).decide = "approved" => Ever(rowsOf[r.t], r.m.stage)
  /\ r.pc = "open" => PlanOf(r).open # NoStage

GateTypes ==
  /\ file \in [Tasks -> Meta]
  /\ approval \in [Tasks -> Seq(ApprovalRow)]
  /\ slot \in [Procs -> Request]
  /\ todo \subseteq Tasks

\* Files, and the copies of the requests under way, fit the rows.
GateInv ==
  /\ GateTypes
  /\ \A t \in Tasks : Fits(file[t], approval[t])
  /\ \A s \in Procs : Good(slot[s], approval)

LEMMA NothingFits ==
  ASSUME NEW rows, NEW m, m = Absent \/ m = Unreadable \/ m = Fresh
  PROVE  Fits(m, rows)
<1>1. m \in Meta /\ m.stage = NoStage /\ m.status # "merged"
  <2>1. Absent \in Meta /\ Absent.stage = NoStage /\ Absent.status = "absent"
    BY DEF Meta, Absent
  <2>2. /\ Unreadable \in Meta /\ Unreadable.stage = NoStage
        /\ Unreadable.status = "unreadable"
    BY DEF Meta, Unreadable
  <2>3. Fresh \in Meta /\ Fresh.stage = NoStage /\ Fresh.status = "pending"
    BY DEF Meta, Fresh, Statuses
  <2> QED BY <2>1, <2>2, <2>3
<1>2. Here(m) = First(Stages)  BY <1>1 DEF Here, Current
<1>3. StageOf(Stages, Here(m)) <= 1 /\ StageOf(Stages, Here(m)) \in Nat
  BY <1>2, StageFacts
<1>4. 1..(StageOf(Stages, Here(m)) - 1) = {}  BY <1>3
<1> QED BY <1>1, <1>4 DEF Fits, Behind, Confirmed

LEMMA IdleIsGood ==
  /\ Idle \in Request
  /\ \A rowsOf : Good(Idle, rowsOf)
<1>1. Absent \in Meta  BY DEF Absent, Meta
<1>2. <<>> \in Seq(ApprovalRow)  BY EmptySeq
<1>3. Idle \in Request  BY <1>1, <1>2 DEF Idle, Request, Pcs
<1>4. Idle.pc = "idle"  BY DEF Idle
<1>5. \A rowsOf : Good(Idle, rowsOf)
  BY <1>4 DEF Good, Holding, Past
<1> QED BY <1>3, <1>5

LEMMA GoodGrows ==
  ASSUME NEW r, NEW a, NEW b, Good(r, a), \A t \in Tasks : Grown(a[t], b[t])
  PROVE  Good(r, b)
<1>1. r.pc \in Holding => r.t \in Tasks  BY DEF Good, Holding
<1>2. r.pc \in Past => r.pc \in Holding  BY DEF Holding, Past
<1>3. r.pc \in Holding => Grown(a[r.t], b[r.t])  BY <1>1
<1>4. r.pc \in Holding => Fits(r.m, b[r.t])  BY <1>3, FitsGrows DEF Good
<1>5. r.pc \in Past /\ PlanOf(r).decide = "approved" => Ever(b[r.t], r.m.stage)
  BY <1>2, <1>3 DEF Good, Grown
<1> QED BY <1>4, <1>5 DEF Good

\* One request goes on to the state new.
LEMMA SlotStep ==
  ASSUME GateInv, NEW s \in Procs, NEW new \in Request,
         slot' = [slot EXCEPT ![s] = new], Good(new, approval'),
         file' \in [Tasks -> Meta], approval' \in [Tasks -> Seq(ApprovalRow)],
         todo' \subseteq Tasks,
         \A t \in Tasks : Grown(approval[t], approval'[t]),
         \A t \in Tasks : Fits(file'[t], approval'[t])
  PROVE  GateInv'
<1>1. slot' \in [Procs -> Request]  BY DEF GateInv, GateTypes
<1>2. ASSUME NEW p \in Procs PROVE Good(slot'[p], approval')
  <2>1. CASE p = s
    <3>1. slot'[p] = new  BY <2>1 DEF GateInv, GateTypes
    <3> QED BY <3>1
  <2>2. CASE p # s
    <3>1. slot'[p] = slot[p]  BY <2>2 DEF GateInv, GateTypes
    <3>2. Good(slot[p], approval)  BY DEF GateInv
    <3> QED BY <3>1, <3>2, GoodGrows
  <2> QED BY <2>1, <2>2
<1> QED BY <1>1, <1>2 DEF GateInv, GateTypes

\* The same, when files and rows stay as they are.
LEMMA SlotMoves ==
  ASSUME GateInv, NEW s \in Procs, NEW new \in Request,
         slot' = [slot EXCEPT ![s] = new], Good(new, approval),
         UNCHANGED <<file, approval>>, todo' \subseteq Tasks
  PROVE  GateInv'
<1>1. \A t \in Tasks : Grown(approval[t], approval[t])  BY DEF Grown
<1>2. file \in [Tasks -> Meta] /\ approval \in [Tasks -> Seq(ApprovalRow)]
  BY DEF GateInv, GateTypes
<1>3. \A t \in Tasks : Fits(file[t], approval[t])  BY DEF GateInv
<1>4. UNCHANGED <<file, approval>>  OBVIOUS
<1> HIDE DEF Fits
<1> QED BY <1>1, <1>2, <1>3, <1>4, SlotStep

\* A request whose pc alone changes stays good, if the new place asks no more.
LEMMA GoesOn ==
  ASSUME NEW r \in Request, NEW rowsOf, Good(r, rowsOf), NEW pc \in Pcs,
         r.pc # "idle", r.pc = "fill" => pc = "idle",
         pc \in Holding => r.pc \in Holding,
         pc \in Past /\ PlanOf(r).decide = "approved" => Ever(rowsOf[r.t], r.m.stage),
         pc = "open" => PlanOf(r).open # NoStage
  PROVE  [r EXCEPT !.pc = pc] \in Request /\ Good([r EXCEPT !.pc = pc], rowsOf)
<1> DEFINE new == [r EXCEPT !.pc = pc]
<1>1. /\ new \in Request /\ new.pc = pc /\ new.call = r.call /\ new.t = r.t
      /\ new.m = r.m /\ new.basis = r.basis
  BY DEF Request
<1> HIDE DEF new
<1>2. PlanOf(new) = PlanOf(r)  BY <1>1, SamePlan
<1>3. Good(new, rowsOf)
  BY <1>1, <1>2 DEF Good
<1> QED BY <1>1, <1>3 DEF new
\* What holds of a request that is under way.
LEMMA SlotFacts ==
  ASSUME GateInv, NEW s \in Procs, slot[s].pc # "idle"
  PROVE  /\ slot[s] \in Request /\ Good(slot[s], approval)
         /\ slot[s].t \in Tasks
         /\ approval[slot[s].t] \in Seq(ApprovalRow) /\ file[slot[s].t] \in Meta
         /\ slot[s].pc # "fill" => slot[s].call \in Calls
         /\ slot[s].pc \in Holding =>
              /\ Fits(slot[s].m, approval[slot[s].t])
              /\ PlanFitsTo(slot[s].m, PlanOf(slot[s]), approval[slot[s].t])
         /\ slot[s].pc \in Past => Fits(PlanOf(slot[s]).meta, approval[slot[s].t])
<1>1. slot[s] \in Request /\ Good(slot[s], approval)  BY DEF GateInv, GateTypes
<1>2. slot[s].t \in Tasks /\ (slot[s].pc # "fill" => slot[s].call \in Calls)
  BY <1>1 DEF Good
<1>3. approval[slot[s].t] \in Seq(ApprovalRow) /\ file[slot[s].t] \in Meta
  BY <1>2 DEF GateInv, GateTypes
<1>4. slot[s].pc \in Holding =>
        /\ Fits(slot[s].m, approval[slot[s].t])
        /\ PlanFitsTo(slot[s].m, PlanOf(slot[s]), approval[slot[s].t])
  <2>1. slot[s].pc \in Holding => Fits(slot[s].m, approval[slot[s].t])
    BY <1>1 DEF Good
  <2>2. slot[s].pc \in Holding => slot[s].pc # "fill"  BY DEF Holding
  <2> QED BY <1>2, <2>1, <2>2, PlansFit
<1>5. slot[s].pc \in Past => Fits(PlanOf(slot[s]).meta, approval[slot[s].t])
  <2>1. slot[s].pc \in Past => slot[s].pc \in Holding  BY DEF Past, Holding
  <2> QED BY <1>1, <1>4, <2>1 DEF Good, PlanFitsTo
<1> QED BY <1>1, <1>2, <1>3, <1>4, <1>5

\* The place of the first change, once the guards hold.
LEMMA FirstEffectFacts ==
  ASSUME NEW r, NEW rowsOf, Fits(r.m, rowsOf[r.t]), r.call \in Calls
  PROVE  LET pc == FirstEffect(PlanOf(r)) IN
         /\ pc \in {"decide", "open", "read"}
         /\ pc \in Past => PlanOf(r).decide # "approved"
         /\ pc = "open" => PlanOf(r).open # NoStage
BY DEF FirstEffect, Past

\* A request with a new copy, or one that has just been grounded.
LEMMA Begins ==
  ASSUME NEW r \in Request, NEW rowsOf, r.t \in Tasks, r.call \in Calls,
         Fits(r.m, rowsOf[r.t]),
         NEW pc \in {"search", FirstEffect(PlanOf(r))}
  PROVE  [r EXCEPT !.pc = pc] \in Request /\ Good([r EXCEPT !.pc = pc], rowsOf)
<1> DEFINE new == [r EXCEPT !.pc = pc]
<1>1. /\ pc \in {"search", "decide", "open", "read"}
      /\ pc \in Past => PlanOf(r).decide # "approved"
      /\ pc = "open" => PlanOf(r).open # NoStage
  BY FirstEffectFacts DEF Past
<1>2. /\ new \in Request /\ new.pc = pc /\ new.call = r.call /\ new.t = r.t
      /\ new.m = r.m /\ new.basis = r.basis
  BY <1>1 DEF Request, Pcs
<1> HIDE DEF new
<1>3. PlanOf(new) = PlanOf(r)  BY <1>2, SamePlan
<1>4. Good(new, rowsOf)
  BY <1>1, <1>2, <1>3 DEF Good
<1> QED BY <1>2, <1>4 DEF new

LEMMA Stops ==
  ASSUME GateInv, NEW s \in Procs, slot' = [slot EXCEPT ![s] = Idle],
         UNCHANGED <<file, approval>>, todo' \subseteq Tasks
  PROVE  GateInv'
BY IdleIsGood, SlotMoves

-----------------------------------------------------------------------------
(* Every step. *)

LEMMA SubmitGates == ASSUME GateInv, NEW s \in Slots, Submit(s) PROVE GateInv'
<1>1. PICK t \in Tasks, call \in WebCalls \cup Webhooks, user \in Roles :
        slot' = [slot EXCEPT ![s] =
            [Idle EXCEPT !.call = call, !.t = t, !.user = user,
                         !.pc = IF call \in Decidable THEN "route" ELSE "parse"]]
  BY DEF Submit
<1> DEFINE new == [Idle EXCEPT !.call = call, !.t = t, !.user = user,
                         !.pc = IF call \in Decidable THEN "route" ELSE "parse"]
<1>2. call \in Calls  BY DEF Calls, WebCalls, Webhooks, Decidable
<1>3. /\ new \in Request /\ new.pc \in {"route", "parse"} /\ new.call = call
      /\ new.t = t
  BY <1>2, IdleIsGood DEF Request, Pcs
<1> HIDE DEF new
<1>4. Good(new, approval)  BY <1>2, <1>3 DEF Good, Holding, Past
<1>5. s \in Procs /\ slot' = [slot EXCEPT ![s] = new]  BY <1>1 DEF Procs, new
<1>6. UNCHANGED <<file, approval>> /\ todo' \subseteq Tasks
  BY DEF Submit, GateInv, GateTypes
<1> QED BY <1>3, <1>4, <1>5, <1>6, SlotMoves

LEMMA MkdirGates == ASSUME GateInv, NEW s \in Slots, Mkdir(s) PROVE GateInv'
<1>1. PICK t \in Tasks :
        slot' = [slot EXCEPT ![s] =
                   [Idle EXCEPT !.call = "create", !.t = t, !.pc = "fill"]]
  BY DEF Mkdir
<1> DEFINE new == [Idle EXCEPT !.call = "create", !.t = t, !.pc = "fill"]
<1>2. new \in Request /\ new.pc = "fill" /\ new.t = t
  BY IdleIsGood DEF Request, Pcs
<1> HIDE DEF new
<1>3. Good(new, approval)  BY <1>2 DEF Good, Holding, Past
<1>4. s \in Procs /\ slot' = [slot EXCEPT ![s] = new]  BY <1>1 DEF Procs, new
<1>5. UNCHANGED <<file, approval>> /\ todo' \subseteq Tasks
  BY DEF Mkdir, GateInv, GateTypes
<1> QED BY <1>2, <1>3, <1>4, <1>5, SlotMoves

LEMMA FillGates == ASSUME GateInv, NEW s \in Procs, Fill(s) PROVE GateInv'
<1>1. slot[s].t \in Tasks  BY SlotFacts DEF Fill
<1>2. Fresh \in Meta /\ \A rows : Fits(Fresh, rows)
  BY NothingFits DEF Fits
<1>3. approval' = approval /\ approval \in [Tasks -> Seq(ApprovalRow)]
  BY DEF Fill, GateInv, GateTypes
<1>4. file' = [file EXCEPT ![slot[s].t] = Fresh] /\ file \in [Tasks -> Meta]
  BY DEF Fill, GateInv, GateTypes
<1>5. file' \in [Tasks -> Meta]  BY <1>2, <1>4
<1>6. ASSUME NEW t \in Tasks PROVE Fits(file'[t], approval'[t])
  <2>1. CASE t = slot[s].t  BY <1>2, <1>4, <2>1
  <2>2. CASE t # slot[s].t
    <3>1. file'[t] = file[t]  BY <1>4, <2>2
    <3> QED BY <1>3, <3>1 DEF GateInv
  <2> QED BY <2>1, <2>2
<1>7. \A t \in Tasks : Grown(approval[t], approval'[t])  BY <1>3 DEF Grown
<1>8. slot' = [slot EXCEPT ![s] = Idle] /\ todo' \subseteq Tasks
  BY DEF Fill, GateInv, GateTypes
<1>9. Good(Idle, approval') /\ Idle \in Request  BY IdleIsGood
<1> QED BY <1>3, <1>5, <1>6, <1>7, <1>8, <1>9, SlotStep

LEMMA RouteGates == ASSUME GateInv, NEW s \in Procs, Route(s) PROVE GateInv'
<1>1. UNCHANGED <<file, approval>> /\ todo' \subseteq Tasks
  BY DEF Route, GateInv, GateTypes
<1>2. slot[s].pc = "route"  BY DEF Route
<1>3. Goto(s, "parse") \/ slot' = [slot EXCEPT ![s] = Idle]
  BY DEF Route
<1>4. CASE Goto(s, "parse")
  <2> DEFINE new == [slot[s] EXCEPT !.pc = "parse"]
  <2>1. slot' = [slot EXCEPT ![s] = new]  BY <1>4 DEF Goto
  <2>2. new \in Request /\ Good(new, approval)
    BY <1>2, SlotFacts, GoesOn DEF Pcs, Holding, Past
  <2> HIDE DEF new
  <2> QED BY <1>1, <2>1, <2>2, SlotMoves
<1> QED BY <1>1, <1>3, <1>4, Stops
LEMMA OnDiskFits ==
  ASSUME GateInv, NEW t \in Tasks
  PROVE  OnDisk(t) \in Meta /\ Fits(OnDisk(t), approval[t])
<1>1. OnDisk(t) = Unreadable \/ OnDisk(t) = file[t]  BY DEF OnDisk
<1>2. Fits(file[t], approval[t])  BY DEF GateInv
<1> QED BY <1>1, <1>2, NothingFits DEF Fits

LEMMA ParseGates == ASSUME GateInv, NEW s \in Procs, Parse(s) PROVE GateInv'
<1> DEFINE r == [slot[s] EXCEPT !.m = OnDisk(slot[s].t),
                                !.rows = IF Serial THEN approval[slot[s].t] ELSE <<>>]
           next == IF r.call = "advance" THEN "search" ELSE FirstEffect(PlanOf(r))
           new == [r EXCEPT !.pc = next]
<1>1. UNCHANGED <<file, approval>> /\ todo' \subseteq Tasks
  BY DEF Parse, GateInv, GateTypes
<1>2. /\ slot[s] \in Request /\ slot[s].t \in Tasks /\ slot[s].call \in Calls
      /\ approval[slot[s].t] \in Seq(ApprovalRow)
  BY SlotFacts DEF Parse
<1>3. OnDisk(slot[s].t) \in Meta /\ Fits(OnDisk(slot[s].t), approval[slot[s].t])
  BY <1>2, OnDiskFits
<1>4. slot' = [slot EXCEPT ![s] = IF Admitted(r) THEN new ELSE Idle]
  BY DEF Parse
<1>5. /\ r \in Request /\ r.t = slot[s].t /\ r.call = slot[s].call
      /\ r.m = OnDisk(slot[s].t)
  <2>1. (IF Serial THEN approval[slot[s].t] ELSE <<>>) \in Seq(ApprovalRow)
    BY <1>2, EmptySeq
  <2> QED BY <1>2, <1>3, <2>1 DEF Request
<1> HIDE DEF r
<1>6. new \in Request /\ Good(new, approval)
  BY <1>2, <1>3, <1>5, Begins
<1> HIDE DEF new
<1>7. CASE Admitted(r)  BY <1>1, <1>4, <1>6, <1>7, SlotMoves
<1>8. CASE ~Admitted(r)  BY <1>1, <1>4, <1>8, Stops
<1> QED BY <1>7, <1>8

LEMMA SearchGates == ASSUME GateInv, NEW s \in Procs, Search(s) PROVE GateInv'
<1>1. UNCHANGED <<file, approval>> /\ todo' \subseteq Tasks
  BY DEF Search, GateInv, GateTypes
<1>2. slot[s].pc = "search"  BY DEF Search
<1>3. /\ slot[s] \in Request /\ slot[s].t \in Tasks /\ slot[s].call \in Calls
      /\ Fits(slot[s].m, approval[slot[s].t])
  BY <1>2, SlotFacts DEF Holding
<1>4. PICK basis \in BOOLEAN :
        LET r == [slot[s] EXCEPT !.basis = basis] IN
        IF PlanOf(r).ok
        THEN slot' = [slot EXCEPT ![s] = [r EXCEPT !.pc = FirstEffect(PlanOf(r))]]
        ELSE slot' = [slot EXCEPT ![s] = Idle]
  BY DEF Search
<1> DEFINE r == [slot[s] EXCEPT !.basis = basis]
           new == [r EXCEPT !.pc = FirstEffect(PlanOf(r))]
<1>5. slot' = [slot EXCEPT ![s] = new] \/ slot' = [slot EXCEPT ![s] = Idle]
  BY <1>4
<1>6. r \in Request /\ r.t = slot[s].t /\ r.call = slot[s].call /\ r.m = slot[s].m
  BY <1>3 DEF Request
<1> HIDE DEF r
<1>7. new \in Request /\ Good(new, approval)  BY <1>3, <1>6, Begins
<1> HIDE DEF new
<1> QED BY <1>1, <1>5, <1>7, SlotMoves, Stops

LEMMA DecideGates == ASSUME GateInv, NEW s \in Procs, DecideRows(s) PROVE GateInv'
<1> DEFINE r == slot[s]
           by == IF r.call = "merged" THEN "webhook" ELSE r.user
           rows == Decide(approval[r.t], r.m.stage, PlanOf(r).decide, by)
           next == IF PlanOf(r).open # NoStage THEN "open" ELSE "read"
           new == [r EXCEPT !.pc = next]
<1>1. /\ r.pc = "decide" /\ r \in Request /\ Good(r, approval) /\ r.t \in Tasks
      /\ approval[r.t] \in Seq(ApprovalRow)
      /\ PlanOf(r).decide \in {"", "approved", "rejected"}
  BY SlotFacts DEF DecideRows, Holding, PlanFitsTo, PlanType
<1>2. UNCHANGED file /\ todo' \subseteq Tasks
  BY DEF DecideRows, GateInv, GateTypes
<1>3. CASE ~HasPending(approval[r.t], r.m.stage)
  <2>1. slot' = [slot EXCEPT ![s] = Idle] /\ UNCHANGED approval
    BY <1>3 DEF DecideRows
  <2> QED BY <1>2, <2>1, Stops
<1>4. CASE HasPending(approval[r.t], r.m.stage)
  <2>1. approval' = [approval EXCEPT ![r.t] = rows]
        /\ slot' = [slot EXCEPT ![s] = new]
    BY <1>4 DEF DecideRows, Goto
  <2>2. by \in Roles \cup {"none", "", "webhook"}  BY <1>1 DEF Request
  <2> HIDE DEF by
  <2>3. /\ rows \in Seq(ApprovalRow) /\ Grown(approval[r.t], rows)
        /\ PlanOf(r).decide = "approved" => Ever(rows, r.m.stage)
    BY <1>1, <1>4, <2>2, DecideGrows
  <2> HIDE DEF rows
  <2>4. approval \in [Tasks -> Seq(ApprovalRow)] /\ file \in [Tasks -> Meta]
    BY DEF GateInv, GateTypes
  <2>5. /\ approval' \in [Tasks -> Seq(ApprovalRow)] /\ approval'[r.t] = rows
        /\ \A t \in Tasks : t # r.t => approval'[t] = approval[t]
    BY <1>1, <2>1, <2>3, <2>4
  <2>6. \A t \in Tasks : Grown(approval[t], approval'[t])
    BY <2>3, <2>5 DEF Grown
  <2>7. \A t \in Tasks : Fits(file'[t], approval'[t])
    BY <1>2, <2>6, FitsGrows DEF GateInv
  <2>8. new \in Request /\ Good(new, approval')
    <3>1. Good(r, approval')  BY <1>1, <2>6, GoodGrows
    <3> QED BY <1>1, <2>3, <2>5, <3>1, GoesOn DEF Pcs, Holding, Past
  <2> HIDE DEF new
  <2> QED BY <1>2, <2>1, <2>4, <2>5, <2>6, <2>7, <2>8, SlotStep
<1> QED BY <1>3, <1>4

LEMMA OpenGates == ASSUME GateInv, NEW s \in Procs, OpenRow(s) PROVE GateInv'
<1> DEFINE r == slot[s]
           rows == NewApproval(approval[r.t], PlanOf(r).open)
           new == [r EXCEPT !.pc = "read"]
<1>1. /\ r.pc = "open" /\ r \in Request /\ Good(r, approval) /\ r.t \in Tasks
      /\ approval[r.t] \in Seq(ApprovalRow) /\ PlanType(PlanOf(r))
  BY SlotFacts DEF OpenRow, Holding, PlanFitsTo
<1>2. PlanOf(r).open \in StageIds(Stages)  BY <1>1 DEF Good, PlanType
<1>3. UNCHANGED file /\ todo' \subseteq Tasks
      /\ approval' = [approval EXCEPT ![r.t] = rows] /\ slot' = [slot EXCEPT ![s] = new]
  BY DEF OpenRow, Goto, GateInv, GateTypes
<1>4. rows \in Seq(ApprovalRow) /\ Grown(approval[r.t], rows)
  BY <1>1, <1>2, OpeningGrows
<1> HIDE DEF rows
<1>5. approval \in [Tasks -> Seq(ApprovalRow)] /\ file \in [Tasks -> Meta]
  BY DEF GateInv, GateTypes
<1>6. /\ approval' \in [Tasks -> Seq(ApprovalRow)] /\ approval'[r.t] = rows
      /\ \A t \in Tasks : t # r.t => approval'[t] = approval[t]
  BY <1>1, <1>3, <1>4, <1>5
<1>7. \A t \in Tasks : Grown(approval[t], approval'[t])
  BY <1>4, <1>6 DEF Grown
<1>8. \A t \in Tasks : Fits(file'[t], approval'[t])
  BY <1>3, <1>7, FitsGrows DEF GateInv
<1>9. new \in Request /\ Good(new, approval')
  <2>1. Good(r, approval')  BY <1>1, <1>7, GoodGrows
  <2>2. r.pc \in Past  BY <1>1 DEF Past
  <2>3. PlanOf(r).decide = "approved" => Ever(approval'[r.t], r.m.stage)
    BY <2>1, <2>2 DEF Good
  <2> QED BY <1>1, <2>1, <2>3, GoesOn DEF Pcs, Holding, Past
<1> HIDE DEF new
<1> QED BY <1>3, <1>5, <1>6, <1>7, <1>8, <1>9, SlotStep

\* From one place past the decision to the next one.
LEMMA WalksOn ==
  ASSUME NEW r \in Request, NEW rowsOf, Good(r, rowsOf), r.pc \in Past,
         NEW pc \in {"read", "truncate", "write", "index"}
  PROVE  [r EXCEPT !.pc = pc] \in Request /\ Good([r EXCEPT !.pc = pc], rowsOf)
<1>1. r.pc # "idle" /\ r.pc # "fill" /\ r.pc \in Holding
  BY DEF Past, Holding
<1>2. pc \in Pcs /\ pc # "open"  BY DEF Pcs
<1>3. PlanOf(r).decide = "approved" => Ever(rowsOf[r.t], r.m.stage)  BY DEF Good
<1> QED BY <1>1, <1>2, <1>3, GoesOn

LEMMA ReadBodyGates == ASSUME GateInv, NEW s \in Procs, ReadBody(s) PROVE GateInv'
<1> DEFINE new == [slot[s] EXCEPT !.pc = "truncate"]
<1>1. UNCHANGED <<file, approval>> /\ todo' \subseteq Tasks
  BY DEF ReadBody, GateInv, GateTypes
<1>2. slot' = [slot EXCEPT ![s] = new] \/ slot' = [slot EXCEPT ![s] = Idle]
  BY DEF ReadBody, Goto, Abandon
<1>3. new \in Request /\ Good(new, approval)
  BY SlotFacts, WalksOn DEF ReadBody, Past
<1> HIDE DEF new
<1> QED BY <1>1, <1>2, <1>3, SlotMoves, Stops

LEMMA TruncateGates == ASSUME GateInv, NEW s \in Procs, Truncate(s) PROVE GateInv'
<1> DEFINE new == [slot[s] EXCEPT !.pc = "write"]
<1>1. UNCHANGED <<file, approval>> /\ todo' \subseteq Tasks
  BY DEF Truncate, GateInv, GateTypes
<1>2. slot' = [slot EXCEPT ![s] = new]  BY DEF Truncate, Goto
<1>3. new \in Request /\ Good(new, approval)
  BY SlotFacts, WalksOn DEF Truncate, Past
<1> HIDE DEF new
<1> QED BY <1>1, <1>2, <1>3, SlotMoves

LEMMA WriteBackGates == ASSUME GateInv, NEW s \in Procs, WriteBack(s) PROVE GateInv'
<1> DEFINE r == slot[s]
           new == [r EXCEPT !.pc = "index"]
<1>1. /\ r.pc = "write" /\ r \in Request /\ Good(r, approval) /\ r.t \in Tasks
      /\ Fits(PlanOf(r).meta, approval[r.t])
  BY SlotFacts DEF WriteBack, Past
<1>2. /\ UNCHANGED approval /\ todo' \subseteq Tasks
      /\ file' = [file EXCEPT ![r.t] = PlanOf(r).meta]
      /\ slot' = [slot EXCEPT ![s] = new]
  BY DEF WriteBack, Goto, GateInv, GateTypes
<1>3. new \in Request /\ Good(new, approval')
  BY <1>1, <1>2, WalksOn DEF Past
<1>4. approval \in [Tasks -> Seq(ApprovalRow)] /\ file \in [Tasks -> Meta]
  BY DEF GateInv, GateTypes
<1>5. PlanOf(r).meta \in Meta  BY <1>1 DEF Fits
<1>6. /\ file' \in [Tasks -> Meta] /\ file'[r.t] = PlanOf(r).meta
      /\ \A t \in Tasks : t # r.t => file'[t] = file[t]
  BY <1>1, <1>2, <1>4, <1>5
<1>7. \A t \in Tasks : Grown(approval[t], approval'[t])  BY <1>2 DEF Grown
<1>8. \A t \in Tasks : Fits(file'[t], approval'[t])
  BY <1>1, <1>2, <1>6 DEF GateInv
<1> HIDE DEF new, r
<1> QED BY <1>2, <1>3, <1>4, <1>6, <1>7, <1>8, SlotStep

LEMMA UpsertGates == ASSUME GateInv, NEW s \in Procs, UpsertTask(s) PROVE GateInv'
<1> DEFINE r == slot[s]
           new == [r EXCEPT !.pc = "read", !.m = PlanOf(r).meta, !.again = TRUE]
<1>1. UNCHANGED <<file, approval>> /\ todo' \subseteq Tasks
  BY DEF UpsertTask, GateInv, GateTypes
<1>2. \/ slot' = [slot EXCEPT ![s] = Idle]
      \/ r.call = "archive" /\ slot' = [slot EXCEPT ![s] = new]
  BY DEF UpsertTask
<1>3. /\ r \in Request /\ r.t \in Tasks /\ r.call \in Calls
      /\ Fits(PlanOf(r).meta, approval[r.t])
  BY SlotFacts DEF UpsertTask, Past
<1>4. PlanOf(r).meta \in Meta  BY <1>3 DEF Fits
<1>5. /\ new \in Request /\ new.pc = "read" /\ new.m = PlanOf(r).meta
      /\ new.t = r.t /\ new.call = r.call
  BY <1>3, <1>4 DEF Request, Pcs
<1> HIDE DEF new
<1>6. ASSUME r.call = "archive" PROVE Good(new, approval)
  <2>1. PlanOf(new) = ArchivePlan(new.m)  BY <1>5, <1>6 DEF PlanOf
  <2>2. ArchivePlan(new.m).decide = ""  BY DEF ArchivePlan, Refused, Commit
  <2> QED BY <1>3, <1>5, <2>1, <2>2 DEF Good, Holding, Past
<1> QED BY <1>1, <1>2, <1>5, <1>6, SlotMoves, Stops

LEMMA RecoverGates == ASSUME GateInv, RecoverNext PROVE GateInv'
<1>1. UNCHANGED <<file, approval>> /\ todo' \subseteq Tasks
  BY DEF RecoverNext, GateInv, GateTypes
<1>2. PICK t \in todo :
        slot' = IF RecoverPlan(OnDisk(t)).ok
                THEN [slot EXCEPT !["boot"] =
                        [Idle EXCEPT !.call = "recover", !.t = t, !.pc = "read",
                                     !.m = OnDisk(t),
                                     !.rows = IF Serial THEN approval[t] ELSE <<>>]]
                ELSE slot
  BY DEF RecoverNext
<1> DEFINE new == [Idle EXCEPT !.call = "recover", !.t = t, !.pc = "read",
                               !.m = OnDisk(t),
                               !.rows = IF Serial THEN approval[t] ELSE <<>>]
<1>3. /\ t \in Tasks /\ approval[t] \in Seq(ApprovalRow)
      /\ OnDisk(t) \in Meta /\ Fits(OnDisk(t), approval[t])
  BY OnDiskFits DEF GateInv, GateTypes
<1>4. /\ new \in Request /\ new.pc = "read" /\ new.call = "recover" /\ new.t = t
      /\ new.m = OnDisk(t)
  <2>1. (IF Serial THEN approval[t] ELSE <<>>) \in Seq(ApprovalRow)
    BY <1>3, EmptySeq
  <2> QED BY <1>3, <2>1, IdleIsGood DEF Request, Pcs, Calls
<1>5. slot' = [slot EXCEPT !["boot"] = new] \/ slot' = slot  BY <1>2
<1> HIDE DEF new
<1>6. Good(new, approval)
  <2>1. PlanOf(new) = RecoverPlan(new.m)  BY <1>4 DEF PlanOf
  <2>2. RecoverPlan(new.m).decide = ""  BY DEF RecoverPlan, Refused, Commit
  <2> QED BY <1>3, <1>4, <2>1, <2>2 DEF Good, Holding, Past, Calls
<1>7. "boot" \in Procs  BY DEF Procs
<1>8. CASE slot' = [slot EXCEPT !["boot"] = new]
  BY <1>1, <1>4, <1>6, <1>7, <1>8, SlotMoves
<1>9. CASE slot' = slot
  <2> HIDE DEF Fits, Good
  <2> QED BY <1>1, <1>9 DEF GateInv, GateTypes
<1> QED BY <1>5, <1>8, <1>9

-----------------------------------------------------------------------------
LEMMA GatesStart == Init => GateInv
<1> SUFFICES ASSUME Init PROVE GateInv  OBVIOUS
<1>1. Absent \in Meta  BY NothingFits DEF Fits
<1>2. <<>> \in Seq(ApprovalRow)  BY EmptySeq
<1>3. GateTypes  BY <1>1, <1>2, IdleIsGood DEF Init, GateTypes
<1>4. \A t \in Tasks : Fits(file[t], approval[t])  BY NothingFits DEF Init
<1>5. \A s \in Procs : Good(slot[s], approval)  BY IdleIsGood DEF Init
<1> QED BY <1>3, <1>4, <1>5 DEF GateInv

LEMMA GatesStep == GateInv /\ [Next]_vars => GateInv'
<1> SUFFICES ASSUME GateInv, [Next]_vars PROVE GateInv'  OBVIOUS
<1>1. ASSUME UNCHANGED <<file, approval, slot>>, todo' \subseteq Tasks
      PROVE  GateInv'
  <2> HIDE DEF Fits, Good
  <2> QED BY <1>1 DEF GateInv, GateTypes
<1>2. ASSUME NEW s \in Slots, Submit(s) \/ Mkdir(s) PROVE GateInv'
  BY <1>2, SubmitGates, MkdirGates
<1>3. ASSUME NEW s \in Procs, Step(s) PROVE GateInv'
  BY <1>3, FillGates, RouteGates, ParseGates, SearchGates, DecideGates, OpenGates,
     ReadBodyGates, TruncateGates, WriteBackGates, UpsertGates DEF Step
<1>4. ASSUME NEW s \in Procs, Fail(s) PROVE GateInv'
  <2>1. UNCHANGED <<file, approval>> /\ todo' \subseteq Tasks
    BY <1>4 DEF Fail, GateInv, GateTypes
  <2>2. slot' = [slot EXCEPT ![s] = Idle]  BY <1>4 DEF Fail, Abandon
  <2> QED BY <2>1, <2>2, Stops
<1>5. ASSUME WatchScan \/ WatchUpsert \/ Listen PROVE GateInv'
  BY <1>1, <1>5 DEF WatchScan, WatchUpsert, Listen, GateInv, GateTypes
<1>6. ASSUME Boot PROVE GateInv'
  BY <1>1, <1>6 DEF Boot
<1>7. ASSUME Crash PROVE GateInv'
  <2>1. /\ UNCHANGED <<file, approval>> /\ todo' = {}
        /\ slot' = [s \in Procs |-> Idle]
    BY <1>7 DEF Crash
  <2>2. GateTypes'  BY <2>1, IdleIsGood DEF GateInv, GateTypes
  <2>3. \A s \in Procs : Good(slot'[s], approval')  BY <2>1, IdleIsGood
  <2>4. \A t \in Tasks : Fits(file'[t], approval'[t])  BY <2>1 DEF GateInv
  <2> QED BY <2>2, <2>3, <2>4 DEF GateInv
<1>8. ASSUME UNCHANGED vars PROVE GateInv'
  BY <1>1, <1>8 DEF vars, GateInv, GateTypes
<1> QED BY <1>2, <1>3, <1>4, <1>5, <1>6, <1>7, <1>8, RecoverGates DEF Next

\* However many requests overlap, and wherever they are refused or a crash stops
\* them: a task is beyond a gated stage only if that stage was approved.
THEOREM NoRaceOpensAGate == Spec => []EveryGateWasApproved
<1>1. GateInv => EveryGateWasApproved
  <2> SUFFICES ASSUME GateInv, NEW t \in Tasks, NEW k \in 1..Len(Stages),
                      k < StageOf(Stages, Current(Stages, file[t])),
                      NeedsApproval(Stages, Stages[k].id)
               PROVE  Ever(approval[t], Stages[k].id)
    BY DEF EveryGateWasApproved, Ever
  <2>1. Behind(file[t], approval[t])  BY DEF GateInv, Fits
  <2>2. StageOf(Stages, Here(file[t])) \in Nat  BY StageFacts
  <2>3. k \in 1..(StageOf(Stages, Here(file[t])) - 1)
    BY <2>2, StageFacts DEF Here
  <2> QED BY <2>1, <2>3 DEF Behind
<1> QED BY <1>1, GatesStart, GatesStep, PTL DEF Spec
-----------------------------------------------------------------------------
(* Types. *)

\* What holds of every plan the engine makes of a file that can be read.
Shaped(plan) ==
  /\ Readable(plan.meta)
  /\ ~plan.commits => plan.open = NoStage

LEMMA CommitShape ==
  ASSUME NEW meta, Readable(meta)
  PROVE  /\ Shaped(Commit(meta)) /\ Commit(meta).decide = ""
         /\ Shaped(Refused(meta)) /\ Refused(meta).decide = ""
BY DEF Shaped, Commit, Refused

LEMMA CommitFields ==
  \A meta : /\ Commit(meta).ok /\ Commit(meta).commits /\ Commit(meta).decide = ""
            /\ Commit(meta).open = NoStage /\ Commit(meta).meta = meta
BY DEF Commit

LEMMA EnterNextShape ==
  ASSUME NEW at \in Meta, NEW next
  PROVE  LET plan == EnterNext(Stages, at, next) IN
         Shaped(plan) /\ plan.decide = ""
<1> DEFINE plan == EnterNext(Stages, at, next)
           over == [at EXCEPT !.status = "delivered"]
           held == [at EXCEPT !.stage = next, !.status = "awaiting_approval"]
           on == [at EXCEPT !.stage = next, !.status = "running"]
<1>1. Readable(over) /\ Readable(held) /\ Readable(on)
  BY DEF Meta, Readable, Statuses
<1>2. \/ plan = Commit(over) \/ plan = Commit(on)
      \/ plan = [Commit(held) EXCEPT !.open = next]
  BY DEF EnterNext
<1> HIDE DEF over, held, on, plan
<1>3. ASSUME plan = [Commit(held) EXCEPT !.open = next]
      PROVE  Shaped(plan) /\ plan.decide = ""
  BY <1>1, <1>3 DEF Shaped, Commit
<1>4. Shaped(plan) /\ plan.decide = ""
  BY <1>1, <1>2, <1>3, CommitShape
<1> QED BY <1>4 DEF plan

LEMMA AdvanceShape ==
  ASSUME NEW m \in Meta, Readable(m), NEW basis
  PROVE  LET plan == AdvancePlan(Stages, m, KBMode, basis) IN
         Shaped(plan) /\ plan.decide = ""
<1> DEFINE plan == AdvancePlan(Stages, m, KBMode, basis)
           at == [m EXCEPT !.stage = Current(Stages, m)]
           paused == [m EXCEPT !.status = "paused"]
           over == [at EXCEPT !.status = "delivered"]
           held == [at EXCEPT !.status = "awaiting_approval"]
           on == EnterNext(Stages, at, NextStage(Stages, at.stage))
<1>1. at \in Meta
  <2>1. Current(Stages, m) \in StageIds(Stages) \cup {"coding", NoStage}
    BY StageFacts DEF Current, Meta
  <2> QED BY <2>1 DEF Meta
<1>2. Readable(paused)  BY DEF Meta, Readable, Statuses
<1>3. Shaped(on) /\ on.decide = ""
  <2> HIDE DEF at
  <2> QED BY <1>1, EnterNextShape
<1>4. \/ plan = Commit(paused) \/ plan = Commit(over) \/ plan = Refused(m) \/ plan = on
      \/ plan = [Commit(held) EXCEPT !.open = at.stage]
  BY DEF AdvancePlan
<1> HIDE DEF at, on, plan
<1>5. Readable(over) /\ Readable(held)  BY <1>1 DEF Meta, Readable, Statuses
<1> HIDE DEF paused, over, held
<1>6. ASSUME plan = [Commit(held) EXCEPT !.open = at.stage]
      PROVE  Shaped(plan) /\ plan.decide = ""
  BY <1>5, <1>6 DEF Shaped, Commit
<1>7. Shaped(plan) /\ plan.decide = ""
  BY <1>2, <1>3, <1>4, <1>5, <1>6, CommitShape
<1> QED BY <1>7 DEF plan

LEMMA DecisionsShape ==
  ASSUME NEW m \in Meta, Readable(m)
  PROVE  /\ Shaped(ApprovePlan(Stages, m)) /\ Shaped(RejectPlan(Stages, m))
         /\ Shaped(MarkMergedPlan(m))
<1> DEFINE base == EnterNext(Stages, m, NextStage(Stages, m.stage))
           left == [Refused(m) EXCEPT !.ok = TRUE, !.decide = "approved"]
           approved == [base EXCEPT !.decide = "approved"]
           back == [m EXCEPT !.stage = RejectTarget(Stages, m.stage), !.status = "running"]
           rejected == [Commit(back) EXCEPT !.decide = "rejected"]
           confirmed == [m EXCEPT !.status = "merged"]
           merged == [Commit(confirmed) EXCEPT !.decide = "approved"]
<1>1. Readable(back) /\ Readable(confirmed)  BY DEF Meta, Readable, Statuses
<1>2. Shaped(base)  BY EnterNextShape
<1>3. Shaped(approved)
  <2>1. /\ approved.meta = base.meta /\ approved.commits = base.commits
        /\ approved.open = base.open
    BY DEF EnterNext, Commit
  <2> HIDE DEF base, approved
  <2> QED BY <1>2, <2>1 DEF Shaped
<1>4. Shaped(left)  BY DEF Shaped, Refused
<1>5. /\ ApprovePlan(Stages, m) \in {Refused(m), left, approved}
      /\ RejectPlan(Stages, m) \in {Refused(m), rejected}
      /\ MarkMergedPlan(m) \in {Refused(m), merged}
  BY DEF ApprovePlan, RejectPlan, MarkMergedPlan
<1> HIDE DEF base, left, approved, back, confirmed
<1>6. Shaped(rejected) /\ Shaped(merged)  BY <1>1 DEF Shaped, Commit
<1> HIDE DEF rejected, merged
<1> QED BY <1>3, <1>4, <1>5, <1>6, CommitShape

LEMMA StatusChangesShape ==
  ASSUME NEW m \in Meta, Readable(m),
         NEW plan \in {PausePlan(m), ResumePlan(m), ArchivePlan(m), RecoverPlan(m),
                       DeliverPlan(Stages, m)}
  PROVE  Shaped(plan) /\ plan.decide = ""
<1> DEFINE paused == [m EXCEPT !.status = "paused"]
           running == [m EXCEPT !.status = "running"]
           kept == [m EXCEPT !.archived = TRUE]
           on == EnterNext(Stages, m, NextStage(Stages, m.stage))
<1>1. Readable(paused) /\ Readable(running) /\ Readable(kept)
  BY DEF Meta, Readable, Statuses
<1>2. Shaped(on) /\ on.decide = ""  BY EnterNextShape
<1>3. plan \in {Refused(m), Commit(paused), Commit(running), Commit(kept), on}
  BY DEF PausePlan, ResumePlan, ArchivePlan, RecoverPlan, DeliverPlan
<1> HIDE DEF paused, running, kept, on
<1> QED BY <1>1, <1>2, <1>3, CommitShape

LEMMA PlanShape ==
  ASSUME NEW r, r.call \in Calls, r.m \in Meta, Readable(r.m)
  PROVE  /\ Shaped(PlanOf(r))
         /\ r.call \notin Decidable \cup {"merged"} => PlanOf(r).decide = ""
<1>1. CASE r.call = "advance"  BY <1>1, AdvanceShape DEF PlanOf
<1>2. CASE r.call \in {"approve", "reject", "merged"}
  BY <1>2, DecisionsShape DEF PlanOf, Decidable
<1>3. CASE r.call \in {"pause", "resume", "archive", "recover", "deliver"}
  <2>1. PlanOf(r) \in {PausePlan(r.m), ResumePlan(r.m), ArchivePlan(r.m), RecoverPlan(r.m),
                       DeliverPlan(Stages, r.m)}
    BY <1>3 DEF PlanOf
  <2> QED BY <2>1, StatusChangesShape
<1> QED BY <1>1, <1>2, <1>3 DEF Calls

\* A goroutine without a request is idle; one at work has a copy of a file that
\* could be read, and whoever decides has a role.
Typed(r) ==
  /\ r.pc = "idle" => r = Idle
  /\ r.call \in Decidable => r.user \in Roles
  /\ r.pc = "decide" => r.call \in Decidable \cup {"merged"}
  /\ r.pc \in Holding => Readable(r.m)

\* The state of everything but the goroutines.
RestTyped ==
  /\ approval \in [Tasks -> Seq(RowType)]
  /\ file \in [Tasks -> Frontmatter \cup {Absent}]
  /\ torn \in [Tasks -> BOOLEAN]
  /\ index \in [Tasks -> Frontmatter \cup {Absent}]
  /\ server \in {"down", "recovering", "serving"}
  /\ dirty \in BOOLEAN
  /\ scan \subseteq Tasks \X Frontmatter
  /\ crashes \in 0..MaxCrashes
  /\ broken \in [Tasks -> BOOLEAN]

TypeInv == RestTyped /\ \A s \in Procs : Typed(slot[s])

LEMMA ReadableMeta == \A m \in Meta : Readable(m) => m \in Frontmatter
BY DEF Meta, Frontmatter, Readable

LEMMA IdleIsTyped == Typed(Idle)
<1>1. Idle.pc = "idle" /\ Idle.call \notin Decidable  BY DEF Idle, Decidable
<1> QED BY <1>1 DEF Typed, Holding

LEMMA DecideTyped ==
  ASSUME NEW rows \in Seq(RowType), NEW stage,
         NEW decision \in {"", "approved", "rejected"},
         NEW by \in Roles \cup {"webhook"}
  PROVE  Decide(rows, stage, decision, by) \in Seq(RowType)
<1>1. Len(rows) \in Nat /\ \A i \in 1..Len(rows) : rows[i] \in RowType
  BY LenProperties, ElementOfSeq
<1>2. ASSUME NEW i \in 1..Len(rows)
      PROVE  Decide(rows, stage, decision, by)[i] \in RowType
  <2>1. rows[i] \in RowType  BY <1>1
  <2> QED BY <2>1 DEF Decide, RowType
<1>3. Decide(rows, stage, decision, by) \in [1..Len(rows) -> RowType]
  BY <1>2 DEF Decide
<1> QED BY <1>1, <1>3, SeqDef

LEMMA OpeningTyped ==
  ASSUME NEW rows \in Seq(RowType), NEW stage \in StageIds(Stages)
  PROVE  NewApproval(rows, stage) \in Seq(RowType)
<1> DEFINE row == [stage |-> stage, role |-> RoleFor(stage), decision |-> "",
                   by |-> ""]
<1>1. row \in RowType  BY DEF RowType
<1>2. NewApproval(rows, stage) = Append(rows, row)  BY DEF NewApproval
<1> HIDE DEF row
<1> QED BY <1>1, <1>2, AppendProperties

\* One goroutine goes on to the state new.
LEMMA TypedMoves ==
  ASSUME GateTypes, TypeInv, NEW s \in Procs, NEW new,
         slot' = [slot EXCEPT ![s] = new], Typed(new)
  PROVE  \A p \in Procs : Typed(slot'[p])
<1> SUFFICES ASSUME NEW p \in Procs PROVE Typed(slot'[p])  OBVIOUS
<1>1. CASE p = s
  <2>1. slot'[p] = new  BY <1>1 DEF GateTypes
  <2> QED BY <2>1
<1>2. CASE p # s
  <2>1. slot'[p] = slot[p]  BY <1>2 DEF GateTypes
  <2> QED BY <2>1 DEF TypeInv
<1> QED BY <1>1, <1>2

\* What is written to task.md and to the index is a frontmatter.
LEMMA WrittenIsTyped ==
  ASSUME GateInv, TypeInv, NEW s \in Procs, slot[s].pc \in Past
  PROVE  /\ slot[s].t \in Tasks /\ slot[s] \in Request /\ Readable(slot[s].m)
         /\ PlanOf(slot[s]).meta \in Frontmatter /\ Readable(PlanOf(slot[s]).meta)
<1>1. slot[s].pc \in Holding /\ slot[s].pc # "idle" /\ slot[s].pc # "fill"
  BY DEF Past, Holding
<1>2. /\ slot[s].t \in Tasks /\ slot[s] \in Request /\ slot[s].call \in Calls
      /\ slot[s].m \in Meta /\ PlanOf(slot[s]).meta \in Meta
  BY <1>1, SlotFacts DEF Fits
<1>3. Readable(slot[s].m)  BY <1>1 DEF TypeInv, Typed
<1>4. Readable(PlanOf(slot[s]).meta)  BY <1>2, <1>3, PlanShape DEF Shaped
<1> QED BY <1>2, <1>3, <1>4, ReadableMeta

\* The goroutine has the request on, and only its place changes.
LEMMA GoesOnTyped ==
  ASSUME GateInv, TypeInv, NEW s \in Procs, NEW pc, pc \notin {"idle", "decide"},
         slot[s] \in Request, pc \in Holding => slot[s].pc \in Holding
  PROVE  Typed([slot[s] EXCEPT !.pc = pc])
<1> DEFINE new == [slot[s] EXCEPT !.pc = pc]
<1>1. /\ new.pc = pc /\ new.m = slot[s].m /\ new.call = slot[s].call
      /\ new.user = slot[s].user
  BY DEF Request
<1>2. Typed(slot[s])  BY DEF TypeInv
<1> HIDE DEF new
<1>3. Typed(new)  BY <1>1, <1>2 DEF Typed
<1> QED BY <1>3 DEF new

LEMMA AbandonTyped ==
  ASSUME GateInv, TypeInv, NEW s \in Procs, slot[s].pc # "idle", Abandon(s)
  PROVE  /\ broken' \in [Tasks -> BOOLEAN]
         /\ \A p \in Procs : Typed(slot'[p])
<1> DEFINE t == slot[s].t
<1>1. t \in Tasks /\ broken \in [Tasks -> BOOLEAN]
  BY SlotFacts DEF TypeInv, RestTyped
<1>2. broken' \in {broken, [broken EXCEPT ![t] = TRUE]}  BY DEF Abandon
<1> HIDE DEF t
<1>3. broken' \in [Tasks -> BOOLEAN]  BY <1>1, <1>2
<1>4. slot' = [slot EXCEPT ![s] = Idle]  BY DEF Abandon
<1> QED BY <1>3, <1>4, IdleIsTyped, TypedMoves DEF GateInv

\* What the steps of a request make of the rows.
LEMMA RowsTyped ==
  ASSUME GateInv, TypeInv, NEW s \in Procs, DecideRows(s) \/ OpenRow(s)
  PROVE  approval' \in [Tasks -> Seq(RowType)]
<1> DEFINE r == slot[s]
           by == IF r.call = "merged" THEN "webhook" ELSE r.user
           decided == Decide(approval[r.t], r.m.stage, PlanOf(r).decide, by)
           opened == NewApproval(approval[r.t], PlanOf(r).open)
<1>1. /\ r.pc \in {"decide", "open"} /\ r.t \in Tasks
      /\ PlanType(PlanOf(r))
      /\ r.pc = "open" => PlanOf(r).open # NoStage
  BY SlotFacts DEF DecideRows, OpenRow, Holding, PlanFitsTo, Good
<1>2. approval \in [Tasks -> Seq(RowType)] /\ Typed(r)
  BY DEF TypeInv, RestTyped
<1>3. CASE DecideRows(s)
  <2>1. by \in Roles \cup {"webhook"}  BY <1>2, <1>3 DEF Typed, DecideRows
  <2>2. PlanOf(r).decide \in {"", "approved", "rejected"}  BY <1>1 DEF PlanType
  <2> HIDE DEF by
  <2>3. decided \in Seq(RowType)  BY <1>1, <1>2, <2>1, <2>2, DecideTyped
  <2>4. approval' = approval \/ approval' = [approval EXCEPT ![r.t] = decided]
    BY <1>3 DEF DecideRows, by
  <2> HIDE DEF decided, r
  <2> QED BY <1>1, <1>2, <2>3, <2>4
<1>4. CASE OpenRow(s)
  <2>1. PlanOf(r).open \in StageIds(Stages)
    BY <1>1, <1>4 DEF PlanType, OpenRow
  <2>2. opened \in Seq(RowType)  BY <1>1, <1>2, <2>1, OpeningTyped
  <2>3. approval' = [approval EXCEPT ![r.t] = opened]  BY <1>4 DEF OpenRow
  <2> HIDE DEF opened, r
  <2> QED BY <1>1, <1>2, <2>2, <2>3
<1> QED BY <1>3, <1>4

\* The first change of an admitted request is a decision only if it decides.
LEMMA FirstEffectTyped ==
  ASSUME NEW r, r.call \in Calls, r.m \in Meta, Readable(r.m)
  PROVE  /\ FirstEffect(PlanOf(r)) \in {"decide", "open", "read"}
         /\ FirstEffect(PlanOf(r)) = "decide" => r.call \in Decidable \cup {"merged"}
BY PlanShape DEF FirstEffect

\* The steps of a request that write neither task.md nor the index.
LEMMA RequestTyped ==
  ASSUME GateInv, TypeInv, NEW s \in Procs,
         \/ Route(s) \/ Parse(s) \/ Search(s) \/ DecideRows(s) \/ OpenRow(s)
         \/ ReadBody(s) \/ Fail(s)
  PROVE  TypeInv'
<1>0. slot[s].pc # "idle"
  <2>1. CASE Route(s) \/ Parse(s) \/ Search(s)  BY <2>1 DEF Route, Parse, Search
  <2>2. CASE DecideRows(s) \/ OpenRow(s) \/ ReadBody(s)
    BY <2>2 DEF DecideRows, OpenRow, ReadBody
  <2>3. CASE Fail(s)  BY <2>3, HandlersAssumption DEF Fail
  <2> QED BY <2>1, <2>2, <2>3
<1>1. slot[s] \in Request /\ GateTypes  BY <1>0, SlotFacts DEF GateInv
<1>2. UNCHANGED <<file, torn, index, server, dirty, scan, crashes>>
  BY DEF Route, Parse, Search, DecideRows, OpenRow, ReadBody, Fail
<1>3. approval' \in [Tasks -> Seq(RowType)]
  BY RowsTyped DEF Route, Parse, Search, ReadBody, Fail, TypeInv, RestTyped
<1>4. ASSUME Abandon(s) PROVE TypeInv'
  BY <1>0, <1>2, <1>4, <1>3, AbandonTyped DEF TypeInv, RestTyped
<1>5. ASSUME NEW new, slot' = [slot EXCEPT ![s] = new], Typed(new), UNCHANGED broken
      PROVE  TypeInv'
  <2>1. \A p \in Procs : Typed(slot'[p])  BY <1>1, <1>5, TypedMoves
  <2> QED BY <1>2, <1>5, <1>3, <2>1 DEF TypeInv, RestTyped
<1>6. ASSUME NEW pc, slot' = [slot EXCEPT ![s].pc = pc], pc \notin {"idle", "decide"},
             pc \in Holding => slot[s].pc \in Holding, UNCHANGED broken
      PROVE  TypeInv'
  <2> DEFINE new == [slot[s] EXCEPT !.pc = pc]
  <2>1. Typed(new)  BY <1>1, <1>6, GoesOnTyped
  <2>2. slot' = [slot EXCEPT ![s] = new]  BY <1>6
  <2> HIDE DEF new
  <2> QED BY <1>5, <1>6, <2>1, <2>2
<1>7. CASE Route(s)
  <2>1. UNCHANGED broken /\ (Goto(s, "parse") \/ slot' = [slot EXCEPT ![s] = Idle])
    BY <1>7 DEF Route
  <2> QED BY <1>5, <1>6, <2>1, IdleIsTyped DEF Goto, Holding
<1>8. CASE Parse(s)
  <2> DEFINE r == [slot[s] EXCEPT !.m = OnDisk(slot[s].t),
                                  !.rows = IF Serial THEN approval[slot[s].t] ELSE <<>>]
             next == IF r.call = "advance" THEN "search" ELSE FirstEffect(PlanOf(r))
             new == [r EXCEPT !.pc = next]
  <2>1. UNCHANGED broken /\ slot' = [slot EXCEPT ![s] = IF Admitted(r) THEN new ELSE Idle]
    BY <1>8 DEF Parse
  <2>2. /\ r.m = OnDisk(slot[s].t) /\ r.call = slot[s].call /\ r.user = slot[s].user
        /\ new.pc = next /\ new.m = r.m /\ new.call = r.call /\ new.user = r.user
    BY <1>1 DEF Request
  <2>3. r.call \in Calls /\ OnDisk(slot[s].t) \in Meta
    BY <1>0, <1>8, <2>2, SlotFacts, OnDiskFits DEF Parse
  <2>4. Admitted(r) => Readable(r.m)  BY DEF Admitted
  <2>5. Typed(slot[s])  BY DEF TypeInv
  <2>6. /\ Admitted(r) => next # "idle"
        /\ Admitted(r) /\ next = "decide" => r.call \in Decidable \cup {"merged"}
    <3> HIDE DEF r
    <3> QED BY <2>2, <2>3, <2>4, FirstEffectTyped
  <2> HIDE DEF r, next, new
  <2>7. Admitted(r) => Typed(new)  BY <2>2, <2>4, <2>5, <2>6 DEF Typed
  <2> QED BY <1>5, <2>1, <2>7, IdleIsTyped
<1>9. CASE Search(s)
  <2>1. PICK basis \in BOOLEAN :
          LET r == [slot[s] EXCEPT !.basis = basis] IN
          slot' = [slot EXCEPT ![s] =
                     IF PlanOf(r).ok THEN [r EXCEPT !.pc = FirstEffect(PlanOf(r))]
                     ELSE Idle]
    BY <1>9 DEF Search
  <2> DEFINE r == [slot[s] EXCEPT !.basis = basis]
             next == FirstEffect(PlanOf(r))
             new == [r EXCEPT !.pc = next]
  <2>2. UNCHANGED broken /\ slot[s].pc = "search"  BY <1>9 DEF Search
  <2>3. /\ r.m = slot[s].m /\ r.call = slot[s].call
        /\ new.pc = next /\ new.m = slot[s].m /\ new.call = slot[s].call
        /\ new.user = slot[s].user
    BY <1>1 DEF Request
  <2>4. Readable(slot[s].m) /\ Typed(slot[s])  BY <2>2 DEF TypeInv, Typed, Holding
  <2>5. slot[s].call \in Calls /\ slot[s].m \in Meta
    BY <1>0, <2>2, SlotFacts DEF Fits, Holding
  <2>6. slot' = [slot EXCEPT ![s] = new] \/ slot' = [slot EXCEPT ![s] = Idle]
    BY <2>1
  <2> HIDE DEF r
  <2>7. next # "idle" /\ (next = "decide" => r.call \in Decidable \cup {"merged"})
    BY <2>3, <2>4, <2>5, FirstEffectTyped
  <2> HIDE DEF next, new
  <2>8. Typed(new)  BY <2>3, <2>4, <2>7 DEF Typed
  <2> QED BY <1>5, <2>2, <2>6, <2>8, IdleIsTyped
<1>10. CASE DecideRows(s) \/ OpenRow(s)
  <2>1. /\ UNCHANGED broken /\ slot[s].pc \in {"decide", "open"}
        /\ \/ slot' = [slot EXCEPT ![s] = Idle]
           \/ \E pc \in {"open", "read"} : slot' = [slot EXCEPT ![s].pc = pc]
    BY <1>10 DEF DecideRows, OpenRow, Goto
  <2> QED BY <1>5, <1>6, <2>1, IdleIsTyped DEF Holding
<1>11. CASE ReadBody(s) \/ Fail(s)
  <2>1. \/ Abandon(s)
        \/ slot[s].pc = "read" /\ slot' = [slot EXCEPT ![s].pc = "truncate"] /\ UNCHANGED broken
    BY <1>11 DEF ReadBody, Fail, Goto
  <2> QED BY <1>4, <1>6, <2>1 DEF Holding
<1> QED BY <1>7, <1>8, <1>9, <1>10, <1>11

\* Those that do.
LEMMA WriterTyped ==
  ASSUME GateInv, TypeInv, NEW s \in Procs,
         Truncate(s) \/ WriteBack(s) \/ UpsertTask(s) \/ Fill(s)
  PROVE  TypeInv'
<1>1. /\ slot[s].t \in Tasks /\ slot[s] \in Request /\ GateTypes
      /\ slot[s].pc \in Past => /\ PlanOf(slot[s]).meta \in Frontmatter
                                /\ Readable(PlanOf(slot[s]).meta)
  <2>1. slot[s].pc # "idle"  BY DEF Truncate, WriteBack, UpsertTask, Fill
  <2> QED BY <2>1, SlotFacts, WrittenIsTyped DEF GateInv
<1>2. UNCHANGED <<approval, server, scan, crashes, broken>> /\ dirty' \in BOOLEAN
  BY DEF Truncate, WriteBack, UpsertTask, Fill, TypeInv, RestTyped
<1>3. torn' \in [Tasks -> BOOLEAN]
  BY <1>1 DEF Truncate, WriteBack, UpsertTask, Fill, TypeInv, RestTyped
<1>4. Fresh \in Frontmatter  BY DEF Fresh, Frontmatter, Statuses
<1>5. /\ file' \in [Tasks -> Frontmatter \cup {Absent}]
      /\ index' \in [Tasks -> Frontmatter \cup {Absent}]
  <2>1. CASE Truncate(s)  BY <2>1 DEF Truncate, TypeInv, RestTyped
  <2>2. CASE WriteBack(s)
    <3>1. PlanOf(slot[s]).meta \in Frontmatter  BY <1>1, <2>2 DEF WriteBack, Past
    <3> QED BY <1>1, <2>2, <3>1 DEF WriteBack, TypeInv, RestTyped
  <2>3. CASE UpsertTask(s)
    <3>1. PlanOf(slot[s]).meta \in Frontmatter  BY <1>1, <2>3 DEF UpsertTask, Past
    <3> QED BY <1>1, <2>3, <3>1 DEF UpsertTask, TypeInv, RestTyped
  <2>4. CASE Fill(s)  BY <1>1, <1>4, <2>4 DEF Fill, TypeInv, RestTyped
  <2> QED BY <2>1, <2>2, <2>3, <2>4
<1>6. \A p \in Procs : Typed(slot'[p])
  <2> DEFINE on(pc) == [slot[s] EXCEPT !.pc = pc]
             again == [slot[s] EXCEPT !.pc = "read", !.m = PlanOf(slot[s]).meta,
                                      !.again = TRUE]
  <2>1. CASE Truncate(s) \/ WriteBack(s)
    <3>1. /\ slot[s].pc \in Holding
          /\ \E pc \in {"write", "index"} : slot' = [slot EXCEPT ![s] = on(pc)]
      BY <2>1 DEF Truncate, WriteBack, Goto, Holding
    <3>2. \A pc \in {"write", "index"} : Typed(on(pc))
      BY <1>1, <3>1, GoesOnTyped
    <3> HIDE DEF on
    <3> QED BY <1>1, <3>1, <3>2, TypedMoves
  <2>2. CASE UpsertTask(s)
    <3>1. slot' = [slot EXCEPT ![s] = again] \/ slot' = [slot EXCEPT ![s] = Idle]
      BY <2>2 DEF UpsertTask
    <3>2. Readable(PlanOf(slot[s]).meta)  BY <1>1, <2>2 DEF UpsertTask, Past
    <3>3. /\ again.pc = "read" /\ again.m = PlanOf(slot[s]).meta
          /\ again.call = slot[s].call /\ again.user = slot[s].user
      BY <1>1 DEF Request
    <3> HIDE DEF again
    <3>4. Typed(again)  BY <3>2, <3>3 DEF Typed, TypeInv
    <3> QED BY <1>1, <3>1, <3>4, IdleIsTyped, TypedMoves
  <2>3. CASE Fill(s)
    <3>1. slot' = [slot EXCEPT ![s] = Idle]  BY <2>3 DEF Fill
    <3> QED BY <1>1, <3>1, IdleIsTyped, TypedMoves
  <2> QED BY <2>1, <2>2, <2>3
<1> QED BY <1>2, <1>3, <1>5, <1>6 DEF TypeInv, RestTyped

\* A request comes in, or boot recovery turns to a task.
LEMMA ArrivalTyped ==
  ASSUME GateInv, TypeInv,
         RecoverNext \/ \E s \in Slots : Submit(s) \/ Mkdir(s)
  PROVE  TypeInv'
<1>1. UNCHANGED <<file, approval, index, server, scan, crashes, broken>> /\ dirty' \in BOOLEAN
  BY DEF RecoverNext, Submit, Mkdir, TypeInv, RestTyped
<1>2. torn' \in [Tasks -> BOOLEAN]
  BY DEF RecoverNext, Submit, Mkdir, TypeInv, RestTyped
<1>3. \/ slot' = slot
      \/ \E s \in Procs : \E new : slot' = [slot EXCEPT ![s] = new] /\ Typed(new)
  <2>1. ASSUME NEW s \in Slots, Submit(s)
        PROVE  \E new : slot' = [slot EXCEPT ![s] = new] /\ Typed(new)
    <3>1. PICK t \in Tasks, call \in WebCalls \cup Webhooks, user \in Roles :
        slot' = [slot EXCEPT ![s] =
            [Idle EXCEPT !.call = call, !.t = t, !.user = user,
                         !.pc = IF call \in Decidable THEN "route" ELSE "parse"]]
      BY <2>1 DEF Submit
    <3> DEFINE new == [Idle EXCEPT !.call = call, !.t = t, !.user = user,
                         !.pc = IF call \in Decidable THEN "route" ELSE "parse"]
    <3>2. new.pc \in {"route", "parse"} /\ new.user \in Roles  BY DEF Idle
    <3> HIDE DEF new
    <3>3. Typed(new)  BY <3>2 DEF Typed, Holding
    <3> QED BY <3>1, <3>3 DEF new
  <2>2. ASSUME NEW s \in Slots, Mkdir(s)
        PROVE  \E new : slot' = [slot EXCEPT ![s] = new] /\ Typed(new)
    <3>1. PICK t \in Tasks :
        slot' = [slot EXCEPT ![s] = [Idle EXCEPT !.call = "create", !.t = t, !.pc = "fill"]]
      BY <2>2 DEF Mkdir
    <3> DEFINE new == [Idle EXCEPT !.call = "create", !.t = t, !.pc = "fill"]
    <3>2. new.pc = "fill" /\ new.call = "create"  BY DEF Idle
    <3> HIDE DEF new
    <3>3. Typed(new)  BY <3>2 DEF Typed, Holding, Decidable
    <3> QED BY <3>1, <3>3 DEF new
  <2>3. ASSUME RecoverNext
        PROVE  \/ slot' = slot
               \/ \E new : slot' = [slot EXCEPT !["boot"] = new] /\ Typed(new)
    <3>1. PICK t \in todo :
        slot' = IF RecoverPlan(OnDisk(t)).ok
                THEN [slot EXCEPT !["boot"] =
                        [Idle EXCEPT !.call = "recover", !.t = t, !.pc = "read",
                                     !.m = OnDisk(t),
                                     !.rows = IF Serial THEN approval[t] ELSE <<>>]]
                ELSE slot
      BY <2>3 DEF RecoverNext
    <3> DEFINE new == [Idle EXCEPT !.call = "recover", !.t = t, !.pc = "read",
                                   !.m = OnDisk(t),
                                   !.rows = IF Serial THEN approval[t] ELSE <<>>]
    <3>2. new.pc = "read" /\ new.m = OnDisk(t) /\ new.call = "recover"  BY DEF Idle
    <3>3. RecoverPlan(OnDisk(t)).ok => Readable(OnDisk(t))
      BY DEF RecoverPlan, Refused, Readable, Statuses
    <3>4. slot' = slot \/ (RecoverPlan(OnDisk(t)).ok /\ slot' = [slot EXCEPT !["boot"] = new])
      BY <3>1
    <3> HIDE DEF new
    <3>5. RecoverPlan(OnDisk(t)).ok => Typed(new)  BY <3>2, <3>3 DEF Typed, Decidable
    <3> QED BY <3>4, <3>5
  <2> QED BY <2>1, <2>2, <2>3 DEF Procs
<1>4. \A p \in Procs : Typed(slot'[p])
  BY <1>3, TypedMoves DEF TypeInv, GateInv
<1> QED BY <1>1, <1>2, <1>4 DEF TypeInv, RestTyped

\* The watcher and the boot sequence write to the index what they could read.
LEMMA OnDiskTyped ==
  ASSUME GateInv, TypeInv, NEW t \in Tasks, Readable(OnDisk(t))
  PROVE  OnDisk(t) \in Frontmatter
BY OnDiskFits, ReadableMeta

LEMMA ServerTyped ==
  ASSUME GateInv, TypeInv,
         WatchScan \/ WatchUpsert \/ Crash \/ Boot \/ Listen
  PROVE  TypeInv'
<1>0. RestTyped /\ \A s \in Procs : Typed(slot[s])  BY DEF TypeInv
<1>1. CASE WatchScan
  <2>1. scan' \subseteq Tasks \X Frontmatter
    BY <1>1, OnDiskTyped DEF WatchScan
  <2> QED BY <1>0, <1>1, <2>1 DEF WatchScan, TypeInv, RestTyped
<1>2. CASE WatchUpsert
  <2>1. PICK e \in scan, ok \in BOOLEAN :
          /\ index' = [index EXCEPT ![e[1]] = IF ok THEN e[2] ELSE index[e[1]]]
          /\ scan' = scan \ {e}
    BY <1>2 DEF WatchUpsert
  <2>2. e[1] \in Tasks /\ e[2] \in Frontmatter  BY <1>0 DEF RestTyped
  <2>3. /\ index' \in [Tasks -> Frontmatter \cup {Absent}]
        /\ scan' \subseteq Tasks \X Frontmatter
    BY <1>0, <2>1, <2>2 DEF RestTyped
  <2> QED BY <1>0, <1>2, <2>3 DEF WatchUpsert, TypeInv, RestTyped
<1>3. CASE Crash
  <2>1. crashes' \in 0..MaxCrashes
    BY <1>0, <1>3, HandlersAssumption DEF Crash, RestTyped
  <2>2. broken' \in [Tasks -> BOOLEAN]
    <3> DEFINE half(t) == \E s \in Procs : slot[s].t = t /\ HalfDone(s)
    <3>1. broken' = [t \in Tasks |-> broken[t] \/ half(t)]  BY <1>3 DEF Crash
    <3>2. \A t \in Tasks : (broken[t] \/ half(t)) \in BOOLEAN  OBVIOUS
    <3> HIDE DEF half
    <3> QED BY <3>1, <3>2
  <2>3. \A s \in Procs : Typed(slot'[s])  BY <1>3, IdleIsTyped DEF Crash
  <2>4. /\ UNCHANGED <<file, torn, approval, index>>
        /\ server' = "down" /\ dirty' = FALSE /\ scan' = {}
    BY <1>3 DEF Crash
  <2> QED BY <1>0, <2>1, <2>2, <2>3, <2>4 DEF TypeInv, RestTyped
<1>4. CASE Boot
  <2>1. index' \in [Tasks -> Frontmatter \cup {Absent}]
    BY <1>0, <1>4, OnDiskTyped DEF Boot, RestTyped
  <2> QED BY <1>0, <1>4, <2>1 DEF Boot, TypeInv, RestTyped
<1>5. CASE Listen  BY <1>0, <1>5 DEF Listen, TypeInv, RestTyped
<1> QED BY <1>1, <1>2, <1>3, <1>4, <1>5

LEMMA TypesStart == Init => TypeInv
<1> SUFFICES ASSUME Init PROVE TypeInv  OBVIOUS
<1>1. 0 \in 0..MaxCrashes  BY HandlersAssumption
<1>2. <<>> \in Seq(RowType)  BY EmptySeq
<1> QED BY <1>1, <1>2, IdleIsTyped DEF Init, TypeInv, RestTyped

LEMMA TypesStep == GateInv /\ TypeInv /\ [Next]_vars => TypeInv'
<1> SUFFICES ASSUME GateInv, TypeInv, [Next]_vars PROVE TypeInv'  OBVIOUS
<1>1. ASSUME NEW s \in Procs, Step(s) \/ Fail(s) PROVE TypeInv'
  BY <1>1, RequestTyped, WriterTyped DEF Step
<1>2. CASE UNCHANGED vars  BY <1>2 DEF vars, TypeInv, RestTyped
<1> QED BY <1>1, <1>2, ArrivalTyped, ServerTyped DEF Next

\* Files, rows, the index and the goroutines stay of their types, whatever
\* overlaps: nothing but a file that could be read is ever worked on, written
\* back or indexed.
THEOREM ServerTypes == Spec => []TypeOK
<1>1. GateInv /\ TypeInv => TypeOK
  <2> SUFFICES ASSUME GateInv, TypeInv PROVE TypeOK  OBVIOUS
  <2>1. ASSUME NEW s \in Procs PROVE slot[s] = Idle \/ slot[s].t \in Tasks
    BY SlotFacts DEF TypeInv, Typed
  <2>2. \A e \in scan : e[1] \in Tasks /\ Readable(e[2])
    BY DEF TypeInv, RestTyped, Frontmatter, Readable
  <2>3. todo \subseteq Tasks  BY DEF GateInv, GateTypes
  <2> QED BY <2>1, <2>2, <2>3 DEF TypeOK, TypeInv, RestTyped
<1> QED BY <1>1, GatesStart, GatesStep, TypesStart, TypesStep, PTL DEF Spec

-----------------------------------------------------------------------------
(* What happens to the rows, whatever overlaps. *)

\* The rows stay, each with its stage and role, and a decision is final.
RowsKept(was, now) ==
  /\ Len(was) <= Len(now)
  /\ \A i \in 1..Len(was) :
       /\ now[i].stage = was[i].stage /\ now[i].role = was[i].role
       /\ was[i].decision # "" => now[i] = was[i]

LEMMA SameIsNotLess == \A n \in Nat : \A k : k = n => n <= k
OBVIOUS

LEMMA DecideKeeps ==
  ASSUME NEW rows \in Seq(RowType), NEW stage,
         NEW decision \in {"", "approved", "rejected"},
         NEW by \in Roles \cup {"webhook"}
  PROVE  RowsKept(rows, Decide(rows, stage, decision, by))
<1> DEFINE new == Decide(rows, stage, decision, by)
<1>1. Len(rows) \in Nat /\ \A i \in 1..Len(rows) : rows[i] \in RowType
  BY LenProperties, ElementOfSeq
<1>2. ASSUME NEW i \in 1..Len(rows)
      PROVE  /\ new[i].stage = rows[i].stage /\ new[i].role = rows[i].role
             /\ rows[i].decision # "" => new[i] = rows[i]
  <2>1. rows[i] \in RowType  BY <1>1
  <2> QED BY <2>1 DEF Decide, RowType, Pending
<1>3. Len(new) = Len(rows)
  <2>1. new \in Seq(RowType)  BY DecideTyped
  <2>2. DOMAIN new = 1..Len(new) /\ Len(new) \in Nat  BY <2>1, LenProperties
  <2>3. DOMAIN new = 1..Len(rows)  BY DEF Decide
  <2> HIDE DEF new
  <2> QED BY <1>1, <2>2, <2>3, SegmentsDiffer
<1> HIDE DEF new
<1>4. Len(rows) <= Len(new)  BY <1>1, <1>3, SameIsNotLess, Zenon
<1> QED BY <1>2, <1>4 DEF RowsKept, new

LEMMA OpeningKeeps ==
  ASSUME NEW rows \in Seq(RowType), NEW stage \in StageIds(Stages)
  PROVE  RowsKept(rows, NewApproval(rows, stage))
<1> DEFINE row == [stage |-> stage, role |-> RoleFor(stage), decision |-> "",
                   by |-> ""]
<1>1. row \in RowType  BY DEF RowType
<1>2. NewApproval(rows, stage) = Append(rows, row)  BY DEF NewApproval
<1> HIDE DEF row
<1>3. /\ Len(Append(rows, row)) = Len(rows) + 1 /\ Len(rows) \in Nat
      /\ \A i \in 1..Len(rows) : Append(rows, row)[i] = rows[i]
  BY <1>1, AppendProperties, LenProperties
<1> QED BY <1>2, <1>3 DEF RowsKept

LEMMA RowsStep ==
  ASSUME GateInv, TypeInv, [Next]_vars
  PROVE  \A t \in Tasks : RowsKept(approval[t], approval'[t])
<1>0. approval \in [Tasks -> Seq(RowType)]  BY DEF TypeInv, RestTyped
<1>1. ASSUME UNCHANGED approval
      PROVE  \A t \in Tasks : RowsKept(approval[t], approval'[t])
  BY <1>0, <1>1, LenProperties DEF RowsKept
<1>2. ASSUME NEW u \in Tasks, NEW rows, approval' = [approval EXCEPT ![u] = rows],
             RowsKept(approval[u], rows)
      PROVE  \A t \in Tasks : RowsKept(approval[t], approval'[t])
  <2> SUFFICES ASSUME NEW t \in Tasks PROVE RowsKept(approval[t], approval'[t])
    OBVIOUS
  <2>1. CASE t = u  BY <1>0, <1>2, <2>1
  <2>2. CASE t # u
    <3>1. approval'[t] = approval[t]  BY <1>0, <1>2, <2>2
    <3> QED BY <1>0, <3>1, LenProperties DEF RowsKept
  <2> QED BY <2>1, <2>2
<1>3. ASSUME NEW s \in Procs, DecideRows(s) \/ OpenRow(s)
      PROVE  \A t \in Tasks : RowsKept(approval[t], approval'[t])
  <2> DEFINE r == slot[s]
             by == IF r.call = "merged" THEN "webhook" ELSE r.user
             decided == Decide(approval[r.t], r.m.stage, PlanOf(r).decide, by)
             opened == NewApproval(approval[r.t], PlanOf(r).open)
  <2>1. /\ r.pc \in {"decide", "open"} /\ r.t \in Tasks /\ PlanType(PlanOf(r))
        /\ r.pc = "open" => PlanOf(r).open # NoStage
    BY <1>3, SlotFacts DEF DecideRows, OpenRow, Holding, PlanFitsTo, Good
  <2>2. Typed(r)  BY DEF TypeInv
  <2>3. CASE DecideRows(s)
    <3>1. by \in Roles \cup {"webhook"}  BY <2>2, <2>3 DEF Typed, DecideRows
    <3>2. PlanOf(r).decide \in {"", "approved", "rejected"}  BY <2>1 DEF PlanType
    <3> HIDE DEF by
    <3>3. RowsKept(approval[r.t], decided)
      BY <1>0, <2>1, <3>1, <3>2, DecideKeeps
    <3>4. approval' = approval \/ approval' = [approval EXCEPT ![r.t] = decided]
      BY <2>3 DEF DecideRows, by
    <3> HIDE DEF decided, r
    <3> QED BY <1>1, <1>2, <2>1, <3>3, <3>4
  <2>4. CASE OpenRow(s)
    <3>1. PlanOf(r).open \in StageIds(Stages)  BY <2>1, <2>4 DEF PlanType, OpenRow
    <3>2. RowsKept(approval[r.t], opened)  BY <1>0, <2>1, <3>1, OpeningKeeps
    <3>3. approval' = [approval EXCEPT ![r.t] = opened]  BY <2>4 DEF OpenRow
    <3> HIDE DEF opened, r
    <3> QED BY <1>2, <2>1, <3>2, <3>3
  <2> QED BY <1>3, <2>3, <2>4
<1>4. \/ UNCHANGED approval
      \/ \E s \in Procs : DecideRows(s) \/ OpenRow(s)
  <2>1. ASSUME NEW s \in Procs, Step(s) \/ Fail(s)
        PROVE  UNCHANGED approval \/ DecideRows(s) \/ OpenRow(s)
    BY <2>1 DEF Step, Fail, Fill, Route, Parse, Search, ReadBody, Truncate, WriteBack,
                UpsertTask
  <2>2. CASE UNCHANGED vars  BY <2>2 DEF vars
  <2> QED BY <2>1, <2>2 DEF Next, Submit, Mkdir, WatchScan, WatchUpsert, Crash, Boot,
                            RecoverNext, Listen
<1> QED BY <1>1, <1>3, <1>4

\* However requests overlap, fail or are cut short by a crash: no approval row
\* disappears or changes its stage or role, and a decision once recorded is
\* never changed (Decide updates undecided rows only, NewApproval appends).
THEOREM RowsAreNeverLost ==
  Spec => [][\A t \in Tasks : RowsKept(approval[t], approval'[t])]_vars
<1>1. GateInv /\ TypeInv /\ [Next]_vars
        => [\A t \in Tasks : RowsKept(approval[t], approval'[t])]_vars
  BY RowsStep
<1> QED BY <1>1, GatesStart, GatesStep, TypesStart, TypesStep, PTL DEF Spec

-----------------------------------------------------------------------------
(* Coming up again. *)

LEMMA BootIsNoSlot == "boot" \in Procs /\ \A s \in Slots : s # "boot" /\ s \in Procs
BY HandlersAssumption DEF Procs

\* Requests are served by a serving server, boot recovery runs in a recovering one.
OneAtATime ==
  /\ server # "serving" => \A s \in Slots : slot[s] = Idle
  /\ server # "recovering" => slot["boot"] = Idle

\* A goroutine that does something is not idle, and only its own slot changes.
LEMMA SlotChanges ==
  ASSUME NEW s \in Procs, Step(s) \/ Fail(s)
  PROVE  /\ slot[s].pc # "idle" /\ server' = server
         /\ \E new : slot' = [slot EXCEPT ![s] = new]
<1>1. CASE Fill(s) \/ Route(s)  BY <1>1 DEF Fill, Route, Goto
<1>2. CASE Parse(s) \/ Search(s)  BY <1>2 DEF Parse, Search
<1>3. CASE DecideRows(s) \/ OpenRow(s)  BY <1>3 DEF DecideRows, OpenRow, Goto
<1>4. CASE ReadBody(s)  BY <1>4 DEF ReadBody, Goto, Abandon
<1>5. CASE Truncate(s) \/ WriteBack(s)  BY <1>5 DEF Truncate, WriteBack, Goto
<1>6. CASE UpsertTask(s)  BY <1>6 DEF UpsertTask
<1>7. CASE Fail(s)  BY <1>7, HandlersAssumption DEF Fail, Abandon
<1> QED BY <1>1, <1>2, <1>3, <1>4, <1>5, <1>6, <1>7 DEF Step

LEMMA SlotIsServed ==
  ASSUME GateTypes, OneAtATime, NEW s \in Slots,
         Submit(s) \/ Mkdir(s) \/ Step(s) \/ Fail(s)
  PROVE  server = "serving" /\ server' = server /\ slot'["boot"] = slot["boot"]
<1>1. s \in Procs /\ s # "boot"  BY BootIsNoSlot
<1>2. CASE Submit(s) \/ Mkdir(s)
  <2>1. server = "serving" /\ server' = server
        /\ \E new : slot' = [slot EXCEPT ![s] = new]
    BY <1>2 DEF Submit, Mkdir
  <2> QED BY <1>1, <2>1, BootIsNoSlot DEF GateTypes
<1>3. CASE Step(s) \/ Fail(s)
  <2>1. /\ slot[s].pc # "idle" /\ server' = server
        /\ \E new : slot' = [slot EXCEPT ![s] = new]
    BY <1>1, <1>3, SlotChanges
  <2>2. server = "serving"  BY <2>1 DEF OneAtATime, Idle
  <2> QED BY <1>1, <2>1, <2>2, BootIsNoSlot DEF GateTypes
<1> QED BY <1>2, <1>3

\* Boot recovery is idle or pauses a task whose copy was running.
Recovering(r) ==
  r.pc # "idle" =>
    /\ r.call = "recover" /\ r.m.status = "running"
    /\ r.pc \in {"read", "truncate", "write", "index"}

\* Of the tasks seen none runs, except the one that is being paused.
Visited(r, seen, status) ==
  \A t \in seen : status[t] = "running" =>
    r.t = t /\ r.pc \in {"read", "truncate", "write"}

StatusOnDisk == [t \in Tasks |-> OnDisk(t).status]

\* Until the server listens only boot recovery touches the files.
BootInv ==
  /\ torn \in [Tasks -> BOOLEAN]
  /\ server \in {"down", "recovering", "serving"}
  /\ OneAtATime
  /\ server = "recovering" => Visited(slot["boot"], Tasks \ todo, StatusOnDisk)
  /\ Recovering(slot["boot"])

\* A serving server: nothing is asked of the files.
\* What a slot does leaves boot recovery alone, and happens in a serving server.
LEMMA ServingStep ==
  ASSUME BootInv, torn' \in [Tasks -> BOOLEAN],
         server = "serving", server' = "serving", slot'["boot"] = slot["boot"]
  PROVE  BootInv'
BY DEF BootInv, OneAtATime, Recovering

LEMMA SlotServes ==
  ASSUME GateTypes, BootInv, NEW s \in Slots,
         Submit(s) \/ Mkdir(s) \/ Step(s) \/ Fail(s)
  PROVE  BootInv'
<1>1. server = "serving" /\ server' = server /\ slot'["boot"] = slot["boot"]
  BY SlotIsServed DEF BootInv, OneAtATime
<1>2. torn' \in [Tasks -> BOOLEAN]
  <2>1. torn \in [Tasks -> BOOLEAN]  BY DEF BootInv
  <2>2. CASE Submit(s) \/ Mkdir(s)  BY <2>1, <2>2 DEF Submit, Mkdir
  <2>3. CASE Step(s)
    BY <2>1, <2>3 DEF Step, Fill, Route, Parse, Search, DecideRows, OpenRow, ReadBody,
                      Truncate, WriteBack, UpsertTask
  <2>4. CASE Fail(s)  BY <2>1, <2>4 DEF Fail
  <2> QED BY <2>2, <2>3, <2>4
<1> QED BY <1>1, <1>2, ServingStep

\* Boot recovery goes on to the state new.
LEMMA BootMoves ==
  ASSUME GateTypes, BootInv, NEW new, slot' = [slot EXCEPT !["boot"] = new],
         server = "recovering", server' = server, torn' \in [Tasks -> BOOLEAN],
         Recovering(new), Visited(new, Tasks \ todo', StatusOnDisk')
  PROVE  BootInv'
<1>1. slot'["boot"] = new /\ \A s \in Slots : slot'[s] = slot[s]
  BY BootIsNoSlot DEF GateTypes
<1> QED BY <1>1 DEF BootInv, OneAtATime, Visited

LEMMA RecoverPlanFacts ==
  ASSUME NEW r \in Request, Recovering(r), r.pc # "idle"
  PROVE  /\ PlanOf(r).commits /\ PlanOf(r).meta.status = "paused"
<1>1. PlanOf(r) = RecoverPlan(r.m) /\ r.m \in Meta /\ r.m.status = "running"
  BY DEF PlanOf, Recovering, Request
<1> DEFINE paused == [r.m EXCEPT !.status = "paused"]
<1>2. paused.status = "paused"  BY <1>1 DEF Meta
<1>3. RecoverPlan(r.m) = Commit(paused)  BY <1>1 DEF RecoverPlan
<1> HIDE DEF paused
<1>4. Commit(paused).commits /\ Commit(paused).meta = paused  BY DEF Commit
<1> QED BY <1>1, <1>2, <1>3, <1>4

LEMMA BootSteps ==
  ASSUME GateInv, BootInv, "boot" \notin Refusals, Step("boot") \/ Fail("boot")
  PROVE  BootInv'
<1> DEFINE r == slot["boot"]
<1>1. r \in Request /\ "boot" \in Procs /\ file \in [Tasks -> Meta]
  BY BootIsNoSlot DEF GateInv, GateTypes
<1>2. r.pc # "idle" /\ Step("boot")
  <2>1. ~Fail("boot")  BY DEF Fail
  <2>2. Step("boot") => r.pc # "idle"
    BY DEF Step, Fill, Route, Parse, Search, DecideRows, OpenRow, ReadBody,
           Truncate, WriteBack, UpsertTask
  <2> QED BY <2>1, <2>2
<1>3. /\ server = "recovering" /\ torn \in [Tasks -> BOOLEAN]
      /\ r.call = "recover" /\ r.m.status = "running"
      /\ r.pc \in {"read", "truncate", "write", "index"}
      /\ Visited(r, Tasks \ todo, StatusOnDisk)
  BY <1>2 DEF BootInv, OneAtATime, Recovering, Idle
<1>4. r.t \in Tasks /\ PlanOf(r).commits /\ PlanOf(r).meta.status = "paused"
      /\ PlanOf(r).meta \in Meta
  <2>1. r.t \in Tasks /\ Fits(PlanOf(r).meta, approval[r.t])
    BY <1>1, <1>2, <1>3, SlotFacts DEF Past
  <2> QED BY <1>1, <1>2, <2>1, RecoverPlanFacts DEF BootInv, Fits
<1>5. ReadBody("boot") \/ Truncate("boot") \/ WriteBack("boot") \/ UpsertTask("boot")
  BY <1>2, <1>3 DEF Step, Fill, Route, Parse, Search, DecideRows, OpenRow
<1>6. Recovering(Idle)  BY DEF Recovering, Idle
<1>7. ASSUME NEW pc \in {"truncate", "write", "index"}
      PROVE  LET new == [r EXCEPT !.pc = pc] IN
             Recovering(new) /\ new.pc = pc /\ new.t = r.t
  BY <1>1, <1>3 DEF Recovering, Request
<1>8. CASE ReadBody("boot")
  <2>1. UNCHANGED <<file, torn, server, todo>>  BY <1>8 DEF ReadBody
  <2>2. CASE Readable(OnDisk(r.t))
    <3> DEFINE new == [r EXCEPT !.pc = "truncate"]
    <3>1. slot' = [slot EXCEPT !["boot"] = new]
      BY <1>4, <1>8, <2>2 DEF ReadBody, Goto
    <3>2. new.pc = "truncate" /\ new.t = r.t /\ Recovering(new)  BY <1>7
    <3> HIDE DEF new
    <3>3. Visited(new, Tasks \ todo', StatusOnDisk')
      BY <1>3, <2>1, <3>2 DEF Visited, StatusOnDisk, OnDisk
    <3> QED BY <1>3, <2>1, <3>1, <3>2, <3>3, BootMoves DEF GateInv
  <2>3. CASE ~Readable(OnDisk(r.t))
    <3>1. slot' = [slot EXCEPT !["boot"] = Idle]
      BY <1>8, <2>3 DEF ReadBody, Abandon
    <3>2. OnDisk(r.t).status # "running"  BY <2>3 DEF Readable, Statuses
    <3>3. Visited(Idle, Tasks \ todo', StatusOnDisk')
      BY <1>3, <2>1, <3>2 DEF Visited, StatusOnDisk, OnDisk
    <3> QED BY <1>3, <1>6, <2>1, <3>1, <3>3, BootMoves DEF GateInv
  <2> QED BY <2>2, <2>3
<1>9. CASE Truncate("boot")
  <2> DEFINE new == [r EXCEPT !.pc = "write"]
  <2>1. /\ UNCHANGED <<file, server, todo>> /\ torn' = [torn EXCEPT ![r.t] = TRUE]
        /\ slot' = [slot EXCEPT !["boot"] = new] /\ r.pc = "truncate"
    BY <1>9 DEF Truncate, Goto
  <2>2. new.pc = "write" /\ new.t = r.t /\ Recovering(new)  BY <1>7
  <2> HIDE DEF new
  <2>3. \A t \in Tasks : t # r.t => OnDisk(t)' = OnDisk(t)
    BY <1>3, <2>1 DEF OnDisk
  <2>4. Visited(new, Tasks \ todo', StatusOnDisk')
    BY <1>3, <2>1, <2>2, <2>3 DEF Visited, StatusOnDisk
  <2>5. torn' \in [Tasks -> BOOLEAN]  BY <1>3, <2>1
  <2> QED BY <1>3, <2>1, <2>2, <2>4, <2>5, BootMoves DEF GateInv
<1>10. CASE WriteBack("boot")
  <2> DEFINE new == [r EXCEPT !.pc = "index"]
  <2>1. /\ UNCHANGED <<server, todo>> /\ torn' = [torn EXCEPT ![r.t] = FALSE]
        /\ file' = [file EXCEPT ![r.t] = PlanOf(r).meta]
        /\ slot' = [slot EXCEPT !["boot"] = new]
    BY <1>10 DEF WriteBack, Goto
  <2>2. new.pc = "index" /\ new.t = r.t /\ Recovering(new)  BY <1>7
  <2> HIDE DEF new
  <2>3. \A t \in Tasks : t # r.t => OnDisk(t)' = OnDisk(t)
    BY <1>1, <1>3, <2>1 DEF OnDisk
  <2>4. \A t \in Tasks : t = r.t => OnDisk(t)' = PlanOf(r).meta
    BY <1>1, <1>3, <1>4, <2>1 DEF OnDisk
  <2>5. Visited(new, Tasks \ todo', StatusOnDisk')
    BY <1>3, <1>4, <2>1, <2>2, <2>3, <2>4 DEF Visited, StatusOnDisk
  <2>6. torn' \in [Tasks -> BOOLEAN]  BY <1>3, <2>1
  <2> QED BY <1>3, <2>1, <2>2, <2>5, <2>6, BootMoves DEF GateInv
<1>11. CASE UpsertTask("boot")
  <2>1. UNCHANGED <<file, torn, server, todo>> /\ r.pc = "index"
    BY <1>11 DEF UpsertTask
  <2>2. slot' = [slot EXCEPT !["boot"] = Idle]
    BY <1>3, <1>11 DEF UpsertTask
  <2>3. Visited(Idle, Tasks \ todo', StatusOnDisk')
    BY <1>3, <2>1 DEF Visited, StatusOnDisk, OnDisk
  <2> QED BY <1>3, <1>6, <2>1, <2>2, <2>3, BootMoves DEF GateInv
<1> QED BY <1>5, <1>8, <1>9, <1>10, <1>11
LEMMA BootStart == Init => BootInv
<1> SUFFICES ASSUME Init PROVE BootInv  OBVIOUS
<1>1. slot["boot"] = Idle  BY BootIsNoSlot DEF Init
<1>2. torn \in [Tasks -> BOOLEAN] /\ server = "serving"  BY DEF Init
<1>3. Recovering(slot["boot"])  BY <1>1 DEF Recovering, Idle
<1> QED BY <1>1, <1>2, <1>3 DEF BootInv, OneAtATime

LEMMA BootStep ==
  ASSUME "boot" \notin Refusals
  PROVE  GateInv /\ BootInv /\ [Next]_vars => BootInv'
<1> SUFFICES ASSUME GateInv, BootInv, [Next]_vars PROVE BootInv'  OBVIOUS
<1>0. GateTypes  BY DEF GateInv
<1>1. ASSUME UNCHANGED <<file, torn, slot, server, todo>> PROVE BootInv'
  BY <1>1 DEF BootInv, OneAtATime, Visited, StatusOnDisk, OnDisk, Recovering
<1>2. ASSUME NEW s \in Slots, Submit(s) \/ Mkdir(s) PROVE BootInv'
  BY <1>0, <1>2, SlotServes
<1>3. ASSUME NEW s \in Procs, Step(s) \/ Fail(s) PROVE BootInv'
  <2>1. CASE s \in Slots  BY <1>0, <1>3, <2>1, SlotServes
  <2>2. CASE s = "boot"  BY <1>3, <2>2, BootSteps
  <2> QED BY <2>1, <2>2 DEF Procs
<1>4. ASSUME WatchScan \/ WatchUpsert PROVE BootInv'
  BY <1>1, <1>4 DEF WatchScan, WatchUpsert
<1>5. ASSUME Crash PROVE BootInv'
  <2>1. server' = "down" /\ torn' = torn /\ slot' = [s \in Procs |-> Idle]
    BY <1>5 DEF Crash
  <2>2. slot'["boot"] = Idle /\ \A s \in Slots : slot'[s] = Idle
    BY <2>1, BootIsNoSlot
  <2>3. Recovering(slot'["boot"])  BY <2>2 DEF Recovering, Idle
  <2> QED BY <2>1, <2>2, <2>3 DEF BootInv, OneAtATime
<1>6. ASSUME Boot PROVE BootInv'
  <2>1. /\ server = "down" /\ server' = "recovering" /\ todo' = Tasks
        /\ UNCHANGED <<torn, slot>>
    BY <1>6 DEF Boot
  <2> QED BY <2>1 DEF BootInv, OneAtATime, Visited
<1>7. ASSUME Listen PROVE BootInv'
  <2>1. /\ server' = "serving" /\ slot["boot"] = Idle /\ UNCHANGED <<torn, slot>>
    BY <1>7 DEF Listen
  <2> QED BY <2>1 DEF BootInv, OneAtATime
<1>8. ASSUME RecoverNext PROVE BootInv'
  <2>1. /\ server = "recovering" /\ slot["boot"] = Idle
        /\ UNCHANGED <<file, torn, server>> /\ torn \in [Tasks -> BOOLEAN]
    BY <1>8 DEF RecoverNext, BootInv, OneAtATime
  <2>2. PICK t \in todo :
          /\ todo' = todo \ {t}
          /\ slot' = IF RecoverPlan(OnDisk(t)).ok
                     THEN [slot EXCEPT !["boot"] =
                        [Idle EXCEPT !.call = "recover", !.t = t, !.pc = "read",
                                     !.m = OnDisk(t),
                                     !.rows = IF Serial THEN approval[t] ELSE <<>>]]
                     ELSE slot
    BY <1>8 DEF RecoverNext
  <2>3. \A u \in Tasks \ todo : OnDisk(u).status # "running"
    BY <2>1 DEF BootInv, OneAtATime, Visited, StatusOnDisk, Idle
  <2>4. StatusOnDisk' = StatusOnDisk  BY <2>1 DEF StatusOnDisk, OnDisk
  <2>5. CASE RecoverPlan(OnDisk(t)).ok
    <3> DEFINE new == [Idle EXCEPT !.call = "recover", !.t = t, !.pc = "read",
                                   !.m = OnDisk(t),
                                   !.rows = IF Serial THEN approval[t] ELSE <<>>]
    <3>1. slot' = [slot EXCEPT !["boot"] = new]  BY <2>2, <2>5
    <3>2. /\ new.pc = "read" /\ new.call = "recover" /\ new.t = t
          /\ new.m = OnDisk(t)
      BY DEF Idle
    <3>3. OnDisk(t).status = "running"  BY <2>5 DEF RecoverPlan, Refused
    <3> HIDE DEF new
    <3>4. Recovering(new)  BY <3>2, <3>3 DEF Recovering
    <3>5. Visited(new, Tasks \ todo', StatusOnDisk')
      BY <2>2, <2>3, <2>4, <3>2 DEF Visited, StatusOnDisk
    <3> QED BY <1>0, <2>1, <3>1, <3>4, <3>5, BootMoves
  <2>6. CASE ~RecoverPlan(OnDisk(t)).ok
    <3>1. OnDisk(t).status # "running"  BY <2>6 DEF RecoverPlan, Commit
    <3>2. slot' = slot  BY <2>2, <2>6
    <3>3. Visited(slot["boot"], Tasks \ todo', StatusOnDisk')
      BY <2>2, <2>3, <2>4, <3>1 DEF Visited, StatusOnDisk
    <3> QED BY <2>1, <3>2, <3>3 DEF BootInv, OneAtATime
  <2> QED BY <2>5, <2>6
<1>9. ASSUME UNCHANGED vars PROVE BootInv'
  BY <1>1, <1>9 DEF vars
<1> QED BY <1>2, <1>3, <1>4, <1>5, <1>6, <1>7, <1>8, <1>9 DEF Next

\* After any number of crashes, wherever they cut a write off: when the port is
\* opened again no task is running, provided boot recovery itself is not refused.
THEOREM RestartPausesAll ==
  ASSUME "boot" \notin Refusals
  PROVE  Spec => NothingRunsAcrossRestart
<1> DEFINE Opening == server = "recovering" /\ server' = "serving"
             => \A t \in Tasks : OnDisk(t).status # "running"
<1>1. BootInv /\ [Next]_vars => [Opening]_vars
  <2> SUFFICES ASSUME BootInv, [Next]_vars, server = "recovering",
                      server' = "serving", NEW t \in Tasks
               PROVE  OnDisk(t).status # "running"
    OBVIOUS
  <2>1. Listen
    <3>1. ASSUME NEW s \in Slots, Submit(s) \/ Mkdir(s) PROVE FALSE
      BY <3>1 DEF Submit, Mkdir
    <3>2. ASSUME NEW s \in Procs, Step(s) \/ Fail(s) PROVE server' = server
      BY <3>2 DEF Step, Fail, Fill, Route, Parse, Search, DecideRows, OpenRow,
                  ReadBody, Truncate, WriteBack, UpsertTask
    <3>3. ASSUME WatchScan \/ WatchUpsert \/ RecoverNext \/ UNCHANGED vars
          PROVE  server' = server
      BY <3>3 DEF WatchScan, WatchUpsert, RecoverNext, vars
    <3>4. ~Crash /\ ~Boot  BY DEF Crash, Boot
    <3> QED BY <3>1, <3>2, <3>3, <3>4 DEF Next
  <2>2. todo = {} /\ slot["boot"] = Idle  BY <2>1 DEF Listen
  <2> QED BY <2>2 DEF BootInv, Visited, StatusOnDisk, Idle
<1> QED BY <1>1, GatesStart, GatesStep, BootStart, BootStep, PTL
        DEF Spec, NothingRunsAcrossRestart

-----------------------------------------------------------------------------
(* Truncated files. *)

TornInv ==
  /\ GateTypes
  /\ torn \in [Tasks -> BOOLEAN]
  /\ crashes = 0
  /\ TornOnlyWhileWriting

\* A slot that was not filling a file goes on, and no file is truncated.
LEMMA TornKept ==
  ASSUME TornInv, GateTypes', NEW s \in Procs, NEW new,
         slot' = [slot EXCEPT ![s] = new], UNCHANGED <<torn, crashes>>,
         slot[s].pc \notin {"write", "fill"}
  PROVE  TornInv'
<1>1. \A p \in Procs : p # s => slot'[p] = slot[p]  BY DEF TornInv, GateTypes
<1> QED BY <1>1 DEF TornInv, TornOnlyWhileWriting

\* A slot takes to filling the file it has truncated.
LEMMA TornMade ==
  ASSUME TornInv, GateTypes', NEW s \in Procs, NEW new, NEW t \in Tasks,
         slot' = [slot EXCEPT ![s] = new], torn' = [torn EXCEPT ![t] = TRUE],
         UNCHANGED crashes, slot[s].pc \notin {"write", "fill"},
         new.t = t, new.pc \in {"write", "fill"}
  PROVE  TornInv'
<1>1. slot'[s] = new /\ \A p \in Procs : p # s => slot'[p] = slot[p]
  BY DEF TornInv, GateTypes
<1>2. /\ torn' \in [Tasks -> BOOLEAN]
      /\ \A u \in Tasks : u # t => torn'[u] = torn[u]
  BY DEF TornInv
<1> QED BY <1>1, <1>2 DEF TornInv, TornOnlyWhileWriting

\* A slot has filled its file.
LEMMA TornMended ==
  ASSUME TornInv, GateTypes', NEW s \in Procs, NEW new,
         slot' = [slot EXCEPT ![s] = new], slot[s].t \in Tasks,
         torn' = [torn EXCEPT ![slot[s].t] = FALSE], UNCHANGED crashes
  PROVE  TornInv'
<1>1. \A p \in Procs : p # s => slot'[p] = slot[p]  BY DEF TornInv, GateTypes
<1>2. /\ torn' \in [Tasks -> BOOLEAN] /\ ~torn'[slot[s].t]
      /\ \A u \in Tasks : u # slot[s].t => torn'[u] = torn[u]
  BY DEF TornInv
<1> QED BY <1>1, <1>2 DEF TornInv, TornOnlyWhileWriting

LEMMA TornStep ==
  ASSUME MaxCrashes = 0, Refusals \cap {"write", "fill"} = {}
  PROVE  GateInv /\ GateInv' /\ TornInv /\ [Next]_vars => TornInv'
<1> SUFFICES ASSUME GateInv, GateInv', TornInv, [Next]_vars PROVE TornInv'
  OBVIOUS
<1>0. GateTypes'  BY DEF GateInv
<1>1. ASSUME UNCHANGED <<torn, slot, crashes>> PROVE TornInv'
  BY <1>0, <1>1 DEF TornInv, TornOnlyWhileWriting
<1>2. ASSUME NEW s \in Slots, Submit(s) PROVE TornInv'
  <2>1. s \in Procs /\ slot[s].pc = "idle" /\ UNCHANGED <<torn, crashes>>
    BY <1>2, BootIsNoSlot DEF Submit, Idle
  <2>2. \E new : slot' = [slot EXCEPT ![s] = new]  BY <1>2 DEF Submit
  <2> QED BY <1>0, <2>1, <2>2, TornKept
<1>3. ASSUME NEW s \in Slots, Mkdir(s) PROVE TornInv'
  <2>1. PICK t \in Tasks :
          /\ torn' = [torn EXCEPT ![t] = TRUE]
          /\ slot' = [slot EXCEPT ![s] =
                     [Idle EXCEPT !.call = "create", !.t = t, !.pc = "fill"]]
    BY <1>3 DEF Mkdir
  <2> DEFINE new == [Idle EXCEPT !.call = "create", !.t = t, !.pc = "fill"]
  <2>2. new.t = t /\ new.pc = "fill"  BY DEF Idle
  <2>3. slot' = [slot EXCEPT ![s] = new]  BY <2>1
  <2>4. s \in Procs /\ slot[s].pc = "idle" /\ UNCHANGED crashes
    BY <1>3, BootIsNoSlot DEF Mkdir, Idle
  <2> HIDE DEF new
  <2> QED BY <1>0, <2>1, <2>2, <2>3, <2>4, TornMade
<1>4. ASSUME NEW s \in Procs, Fill(s) \/ WriteBack(s) PROVE TornInv'
  <2>1. slot[s].t \in Tasks  BY <1>4, SlotFacts DEF Fill, WriteBack
  <2>2. /\ \E new : slot' = [slot EXCEPT ![s] = new]
        /\ torn' = [torn EXCEPT ![slot[s].t] = FALSE] /\ UNCHANGED crashes
    BY <1>4 DEF Fill, WriteBack, Goto
  <2> QED BY <1>0, <2>1, <2>2, TornMended
<1>5. ASSUME NEW s \in Procs, Truncate(s) PROVE TornInv'
  <2> DEFINE new == [slot[s] EXCEPT !.pc = "write"]
  <2>1. slot[s].t \in Tasks /\ slot[s] \in Request
    BY <1>5, SlotFacts DEF Truncate
  <2>2. new.t = slot[s].t /\ new.pc = "write"  BY <2>1 DEF Request
  <2>3. /\ slot' = [slot EXCEPT ![s] = new] /\ slot[s].pc = "truncate"
        /\ torn' = [torn EXCEPT ![slot[s].t] = TRUE] /\ UNCHANGED crashes
    BY <1>5 DEF Truncate, Goto
  <2> HIDE DEF new
  <2> QED BY <1>0, <2>1, <2>2, <2>3, TornMade
<1>6. ASSUME NEW s \in Procs,
             \/ Route(s) \/ Parse(s) \/ Search(s) \/ DecideRows(s) \/ OpenRow(s)
             \/ ReadBody(s) \/ UpsertTask(s) \/ Fail(s)
      PROVE  TornInv'
  <2>1. slot[s].pc \notin {"write", "fill"} /\ UNCHANGED <<torn, crashes>>
    BY <1>6 DEF Route, Parse, Search, DecideRows, OpenRow, ReadBody, UpsertTask, Fail
  <2>2. \E new : slot' = [slot EXCEPT ![s] = new]
    <3>1. CASE Route(s) \/ Parse(s)  BY <3>1 DEF Route, Parse, Goto
    <3>2. CASE Search(s) \/ UpsertTask(s)  BY <3>2 DEF Search, UpsertTask
    <3>3. CASE DecideRows(s) \/ OpenRow(s)
      BY <3>3 DEF DecideRows, OpenRow, Goto
    <3>4. CASE ReadBody(s) \/ Fail(s)  BY <3>4 DEF ReadBody, Fail, Goto, Abandon
    <3> QED BY <1>6, <3>1, <3>2, <3>3, <3>4
  <2> QED BY <1>0, <2>1, <2>2, TornKept
<1>7. ASSUME RecoverNext PROVE TornInv'
  <2>1. "boot" \in Procs /\ slot["boot"].pc = "idle" /\ UNCHANGED <<torn, crashes>>
    BY <1>7, BootIsNoSlot DEF RecoverNext, Idle
  <2>2. (\E new : slot' = [slot EXCEPT !["boot"] = new]) \/ slot' = slot
    BY <1>7 DEF RecoverNext
  <2> QED BY <1>0, <1>1, <2>1, <2>2, TornKept
<1>8. ASSUME WatchScan \/ WatchUpsert \/ Boot \/ Listen \/ UNCHANGED vars
      PROVE  TornInv'
  BY <1>1, <1>8 DEF WatchScan, WatchUpsert, Boot, Listen, vars
<1>9. ~Crash  BY DEF Crash, TornInv
<1> QED BY <1>2, <1>3, <1>4, <1>5, <1>6, <1>7, <1>8, <1>9 DEF Next, Step

\* Without crashes, and if no write is refused half-way: whatever truncations
\* and writes of the requests overlap, a truncated task.md has a request that is
\* still to fill it.
THEOREM TornFilesAreBeingWritten ==
  ASSUME MaxCrashes = 0, Refusals \cap {"write", "fill"} = {}
  PROVE  Spec => []TornOnlyWhileWriting
<1>1. Init => TornInv
  <2> SUFFICES ASSUME Init PROVE TornInv  OBVIOUS
  <2>1. GateTypes  BY GatesStart DEF GateInv
  <2> QED BY <2>1 DEF Init, TornInv, TornOnlyWhileWriting
<1>2. TornInv => TornOnlyWhileWriting  BY DEF TornInv
<1> QED BY <1>1, <1>2, GatesStart, GatesStep, TornStep, PTL DEF Spec
-----------------------------------------------------------------------------
(* One request at a time. *)

OneSlot == \A s, p \in Slots : s = p

Copying == {"search", "decide", "open", "read", "truncate", "write"}

\* Nobody has written task.md since the request read it; its call was admitted.
UpToDate(r, files) ==
  /\ r.pc \in Copying => files[r.t] = r.m
  /\ r.pc \in Copying /\ r.call = "advance" => r.m.status \in {"pending", "running"}
  /\ r.pc \in {"truncate", "write"} => PlanOf(r).commits
  /\ r.pc = "index" => files[r.t] = PlanOf(r).meta
  /\ r.pc = "fill" => files[r.t] = Absent

PauseInv ==
  /\ OneAtATime
  /\ \A s \in Procs : UpToDate(slot[s], file)
LEMMA IdleIsUpToDate == \A files : UpToDate(Idle, files)
<1>1. Idle.pc = "idle"  BY DEF Idle
<1> QED BY <1>1 DEF UpToDate, Copying

LEMMA OthersAreIdle ==
  ASSUME OneSlot, OneAtATime, NEW s \in Procs, slot[s].pc # "idle",
         NEW p \in Procs, p # s
  PROVE  slot[p] = Idle
<1>1. slot[s] # Idle  BY DEF Idle
<1>2. CASE s \in Slots
  <2>1. server = "serving"  BY <1>1, <1>2 DEF OneAtATime
  <2>2. p = "boot"  BY <1>2 DEF OneSlot, Procs
  <2> QED BY <2>1, <2>2 DEF OneAtATime
<1>3. CASE s = "boot"
  <2>1. server = "recovering"  BY <1>1, <1>3 DEF OneAtATime
  <2> QED BY <1>3, <2>1 DEF OneAtATime, Procs
<1> QED BY <1>2, <1>3 DEF Procs

LEMMA OneAtATimeStep == GateTypes /\ OneAtATime /\ [Next]_vars => OneAtATime'
<1> SUFFICES ASSUME GateTypes, OneAtATime, [Next]_vars PROVE OneAtATime'  OBVIOUS
<1>1. ASSUME UNCHANGED <<slot, server>> PROVE OneAtATime'  BY <1>1 DEF OneAtATime
<1>2. ASSUME NEW s \in Slots, Submit(s) \/ Mkdir(s) \/ Step(s) \/ Fail(s)
      PROVE  OneAtATime'
  <2>1. server = "serving" /\ server' = server /\ slot'["boot"] = slot["boot"]
    BY <1>2, SlotIsServed
  <2> QED BY <2>1 DEF OneAtATime
<1>3. ASSUME Step("boot") \/ Fail("boot") PROVE OneAtATime'
  <2>1. /\ slot["boot"].pc # "idle" /\ server' = server
        /\ \E new : slot' = [slot EXCEPT !["boot"] = new]
    BY <1>3, BootIsNoSlot, SlotChanges
  <2>2. server = "recovering"  BY <2>1 DEF OneAtATime, Idle
  <2>3. \A s \in Slots : slot'[s] = slot[s]  BY <2>1, BootIsNoSlot DEF GateTypes
  <2> QED BY <2>1, <2>2, <2>3 DEF OneAtATime
<1>4. ASSUME RecoverNext PROVE OneAtATime'
  <2>1. /\ server = "recovering" /\ server' = server
        /\ (\E new : slot' = [slot EXCEPT !["boot"] = new]) \/ slot' = slot
    BY <1>4 DEF RecoverNext
  <2>2. \A s \in Slots : slot'[s] = slot[s]  BY <2>1, BootIsNoSlot DEF GateTypes
  <2> QED BY <2>1, <2>2 DEF OneAtATime
<1>5. ASSUME Crash PROVE OneAtATime'
  <2>1. slot' = [s \in Procs |-> Idle]  BY <1>5 DEF Crash
  <2> QED BY <2>1, BootIsNoSlot DEF OneAtATime
<1>6. ASSUME Boot \/ Listen PROVE OneAtATime'
  BY <1>6 DEF Boot, Listen, OneAtATime
<1>7. ASSUME WatchScan \/ WatchUpsert \/ UNCHANGED vars PROVE OneAtATime'
  BY <1>1, <1>7 DEF WatchScan, WatchUpsert, vars
<1> QED BY <1>2, <1>3, <1>4, <1>5, <1>6, <1>7 DEF Next, Procs

\* One request goes on to the state new, and who else is under way sees no other
\* file.
LEMMA PauseMoves ==
  ASSUME GateTypes, PauseInv, OneAtATime', NEW s \in Procs, NEW new,
         slot' = [slot EXCEPT ![s] = new], UpToDate(new, file'),
         file' = file \/ \A p \in Procs : p # s => slot[p] = Idle
  PROVE  PauseInv'
<1>1. ASSUME NEW p \in Procs PROVE UpToDate(slot'[p], file')
  <2>1. CASE p = s
    <3>1. slot'[p] = new  BY <2>1 DEF GateTypes
    <3> QED BY <3>1
  <2>2. CASE p # s
    <3>1. slot'[p] = slot[p]  BY <2>2 DEF GateTypes
    <3>2. UpToDate(slot[p], file)  BY DEF PauseInv
    <3> QED BY <2>2, <3>1, <3>2, IdleIsUpToDate
  <2> QED BY <2>1, <2>2
<1> QED BY <1>1 DEF PauseInv

LEMMA StaysUpToDate ==
  ASSUME NEW r \in Request, NEW files, UpToDate(r, files), NEW pc \in Pcs,
         pc \in Copying => r.pc \in Copying,
         pc \in {"truncate", "write"} => PlanOf(r).commits,
         pc # "index", pc # "fill"
  PROVE  UpToDate([r EXCEPT !.pc = pc], files)
<1> DEFINE new == [r EXCEPT !.pc = pc]
<1>1. /\ new.pc = pc /\ new.call = r.call /\ new.t = r.t /\ new.m = r.m
      /\ new.basis = r.basis
  BY DEF Request
<1> HIDE DEF new
<1>2. PlanOf(new) = PlanOf(r)  BY <1>1, SamePlan
<1>3. UpToDate(new, files)  BY <1>1, <1>2 DEF UpToDate
<1> QED BY <1>3 DEF new

LEMMA ReadableIsOnFile ==
  ASSUME NEW t, Readable(OnDisk(t)) PROVE OnDisk(t) = file[t]
BY DEF Readable, OnDisk, Unreadable, Statuses

\* What a call makes of a paused task: it resumes it.
LEMMA PausedIsResumed ==
  ASSUME NEW r, r.call \in Calls, r.call # "advance", r.m \in Meta,
         r.m.status = "paused", PlanOf(r).commits
  PROVE  PlanOf(r).meta = [r.m EXCEPT !.status = "running"]
<1>1. \A m : ~Refused(m).commits  BY DEF Refused
<1>2. PlanOf(r) \in {ApprovePlan(Stages, r.m), RejectPlan(Stages, r.m), PausePlan(r.m),
        MarkMergedPlan(r.m), DeliverPlan(Stages, r.m), ArchivePlan(r.m),
        RecoverPlan(r.m)} => PlanOf(r) = Refused(r.m)
  BY DEF ApprovePlan, RejectPlan, WebDecidable, PausePlan, MarkMergedPlan, DeliverPlan,
         ArchivePlan, RecoverPlan
<1>3. CASE r.call = "resume"
  <2>1. PlanOf(r) = Commit([r.m EXCEPT !.status = "running"])
    BY <1>3 DEF PlanOf, ResumePlan
  <2>2. \A meta : Commit(meta).meta = meta  BY DEF Commit
  <2> QED BY <2>1, <2>2, Zenon
<1>4. CASE r.call # "resume"
  <2>1. PlanOf(r) \in {ApprovePlan(Stages, r.m), RejectPlan(Stages, r.m), PausePlan(r.m),
        MarkMergedPlan(r.m), DeliverPlan(Stages, r.m), ArchivePlan(r.m), RecoverPlan(r.m)}
    BY <1>4 DEF PlanOf, Calls
  <2> QED BY <1>1, <1>2, <2>1
<1> QED BY <1>3, <1>4

LEMMA RequestKeepsPause ==
  ASSUME GateInv, PauseInv, OneAtATime', OneSlot, NEW s \in Procs, Step(s) \/ Fail(s)
  PROVE  PauseInv'
<1> DEFINE r == slot[s]
<1>1. /\ GateTypes /\ r \in Request /\ UpToDate(r, file) /\ r.pc # "idle"
  BY SlotChanges DEF GateInv, GateTypes, PauseInv
<1>2. \A p \in Procs : p # s => slot[p] = Idle
  BY <1>1, OthersAreIdle DEF PauseInv
<1>3. ASSUME slot' = [slot EXCEPT ![s] = Idle] PROVE PauseInv'
  BY <1>1, <1>2, <1>3, IdleIsUpToDate, PauseMoves
<1>4. ASSUME NEW pc \in Pcs, pc \in Copying => r.pc \in Copying,
             pc \in {"truncate", "write"} => PlanOf(r).commits,
             pc # "index", pc # "fill",
             slot' = [slot EXCEPT ![s] = [r EXCEPT !.pc = pc]], file' = file
      PROVE  PauseInv'
  <2>1. UpToDate([r EXCEPT !.pc = pc], file')  BY <1>1, <1>4, StaysUpToDate
  <2> QED BY <1>1, <1>2, <1>4, <2>1, PauseMoves
<1>5. CASE Fill(s) \/ Fail(s)
  BY <1>3, <1>5 DEF Fill, Fail, Abandon
<1>6. CASE Route(s)
  <2>1. /\ file' = file
        /\ \/ slot' = [slot EXCEPT ![s] = [r EXCEPT !.pc = "parse"]]
           \/ slot' = [slot EXCEPT ![s] = Idle]
    BY <1>6 DEF Route, Goto
  <2>2. "parse" \in Pcs /\ "parse" \notin Copying  BY DEF Pcs, Copying
  <2> QED BY <1>3, <1>4, <2>1, <2>2
<1>7. CASE Parse(s)
  <2> DEFINE q == [r EXCEPT !.m = OnDisk(r.t),
                            !.rows = IF Serial THEN approval[r.t] ELSE <<>>]
             next == IF q.call = "advance" THEN "search" ELSE FirstEffect(PlanOf(q))
             new == [q EXCEPT !.pc = next]
  <2>1. file' = file /\ slot' = [slot EXCEPT ![s] = IF Admitted(q) THEN new ELSE Idle]
    BY <1>7 DEF Parse
  <2>2. next \in {"search", "decide", "open", "read"}  BY DEF FirstEffect
  <2>3. q.m = OnDisk(r.t) /\ q.t = r.t /\ q.call = r.call  BY <1>1 DEF Request
  <2>4. /\ new.pc = next /\ new.m = OnDisk(r.t) /\ new.t = r.t /\ new.call = r.call
    BY <1>1 DEF Request
  <2> HIDE DEF q, next, new
  <2>5. ASSUME Admitted(q) PROVE UpToDate(new, file')
    <3>1. OnDisk(r.t) = file[r.t]  BY <2>3, <2>5, ReadableIsOnFile DEF Admitted
    <3>2. r.call = "advance" => OnDisk(r.t).status \in {"pending", "running"}
      BY <2>3, <2>5 DEF Admitted
    <3> QED BY <2>1, <2>2, <2>4, <3>1, <3>2 DEF UpToDate, Copying
  <2>6. CASE Admitted(q)  BY <1>1, <1>2, <2>1, <2>5, <2>6, PauseMoves
  <2>7. CASE ~Admitted(q)  BY <1>3, <2>1, <2>7
  <2> QED BY <2>6, <2>7
<1>8. CASE Search(s)
  <2>1. PICK basis \in BOOLEAN :
          LET q == [r EXCEPT !.basis = basis] IN
          IF PlanOf(q).ok
          THEN slot' = [slot EXCEPT ![s] = [q EXCEPT !.pc = FirstEffect(PlanOf(q))]]
          ELSE slot' = [slot EXCEPT ![s] = Idle]
    BY <1>8 DEF Search
  <2> DEFINE q == [r EXCEPT !.basis = basis]
             next == FirstEffect(PlanOf(q))
             new == [q EXCEPT !.pc = next]
  <2>2. slot' = [slot EXCEPT ![s] = new] \/ slot' = [slot EXCEPT ![s] = Idle]
    BY <2>1
  <2>3. next \in {"decide", "open", "read"}  BY DEF FirstEffect
  <2>4. /\ new.pc = next /\ new.m = r.m /\ new.t = r.t /\ new.call = r.call
    BY <1>1 DEF Request
  <2>5. file' = file /\ r.pc = "search"  BY <1>8 DEF Search
  <2> HIDE DEF next, new
  <2>6. UpToDate(new, file')
    BY <1>1, <2>3, <2>4, <2>5 DEF UpToDate, Copying
  <2> QED BY <1>1, <1>2, <1>3, <2>2, <2>6, PauseMoves
<1>9. CASE DecideRows(s) \/ OpenRow(s)
  <2>1. /\ file' = file /\ r.pc \in Copying
        /\ \/ slot' = [slot EXCEPT ![s] = Idle]
           \/ \E pc \in {"open", "read"} : slot' = [slot EXCEPT ![s] = [r EXCEPT !.pc = pc]]
    <3>1. CASE DecideRows(s)  BY <3>1 DEF DecideRows, Goto, Copying
    <3>2. CASE OpenRow(s)  BY <3>2 DEF OpenRow, Goto, Copying
    <3> QED BY <1>9, <3>1, <3>2
  <2> QED BY <1>3, <1>4, <2>1 DEF Pcs
<1>10. CASE ReadBody(s)
  <2>1. /\ file' = file /\ r.pc \in Copying
        /\ \/ slot' = [slot EXCEPT ![s] = Idle]
           \/ PlanOf(r).commits /\ slot' = [slot EXCEPT ![s] = [r EXCEPT !.pc = "truncate"]]
    BY <1>10 DEF ReadBody, Goto, Abandon, Copying
  <2> QED BY <1>3, <1>4, <2>1 DEF Pcs
<1>11. CASE Truncate(s)
  <2>1. /\ file' = file /\ r.pc = "truncate"
        /\ slot' = [slot EXCEPT ![s] = [r EXCEPT !.pc = "write"]]
    BY <1>11 DEF Truncate, Goto
  <2>2. PlanOf(r).commits  BY <1>1, <2>1 DEF UpToDate
  <2> QED BY <1>4, <2>1, <2>2 DEF Pcs, Copying
<1>12. CASE WriteBack(s)
  <2> DEFINE new == [r EXCEPT !.pc = "index"]
  <2>1. /\ file' = [file EXCEPT ![r.t] = PlanOf(r).meta] /\ r.pc = "write"
        /\ slot' = [slot EXCEPT ![s] = new]
    BY <1>12 DEF WriteBack, Goto
  <2>2. /\ new.pc = "index" /\ new.t = r.t /\ new.call = r.call /\ new.m = r.m
        /\ new.basis = r.basis
    BY <1>1 DEF Request
  <2> HIDE DEF new
  <2>3. PlanOf(new) = PlanOf(r)  BY <2>2, SamePlan
  <2>4. r.t \in Tasks /\ file \in [Tasks -> Meta]
    BY <2>1, SlotFacts DEF GateInv, GateTypes
  <2>5. file'[r.t] = PlanOf(r).meta
    <3> HIDE DEF r
    <3> QED BY <2>1, <2>4
  <2>6. UpToDate(new, file')
    BY <2>2, <2>3, <2>5 DEF UpToDate, Copying
  <2> QED BY <1>1, <1>2, <2>1, <2>6, PauseMoves
<1>13. CASE UpsertTask(s)
  <2> DEFINE new == [r EXCEPT !.pc = "read", !.m = PlanOf(r).meta, !.again = TRUE]
  <2>1. /\ file' = file /\ r.pc = "index"
        /\ \/ slot' = [slot EXCEPT ![s] = Idle]
           \/ r.call = "archive" /\ slot' = [slot EXCEPT ![s] = new]
    BY <1>13 DEF UpsertTask
  <2>2. new.pc = "read" /\ new.m = PlanOf(r).meta /\ new.t = r.t /\ new.call = r.call
    BY <1>1 DEF Request
  <2>3. file[r.t] = PlanOf(r).meta  BY <1>1, <2>1 DEF UpToDate
  <2> HIDE DEF new
  <2>4. ASSUME r.call = "archive" PROVE UpToDate(new, file')
    BY <2>1, <2>2, <2>3, <2>4 DEF UpToDate
  <2> QED BY <1>1, <1>2, <1>3, <2>1, <2>4, PauseMoves
<1> QED BY <1>5, <1>6, <1>7, <1>8, <1>9, <1>10, <1>11, <1>12, <1>13 DEF Step

LEMMA PauseStart == Init => PauseInv
<1> SUFFICES ASSUME Init PROVE PauseInv  OBVIOUS
<1>1. \A s \in Procs : slot[s] = Idle  BY DEF Init
<1>2. server = "serving"  BY DEF Init
<1> QED BY <1>1, <1>2, BootIsNoSlot, IdleIsUpToDate DEF PauseInv, OneAtATime

LEMMA PauseStep ==
  ASSUME OneSlot
  PROVE  GateInv /\ PauseInv /\ [Next]_vars => PauseInv'
<1> SUFFICES ASSUME GateInv, PauseInv, [Next]_vars PROVE PauseInv'  OBVIOUS
<1>0. GateTypes /\ OneAtATime'  BY OneAtATimeStep DEF GateInv, PauseInv
<1>1. ASSUME UNCHANGED <<file, slot>> PROVE PauseInv'
  BY <1>0, <1>1 DEF PauseInv
<1>2. ASSUME NEW s \in Slots, Submit(s) PROVE PauseInv'
  <2>1. PICK t \in Tasks, call \in WebCalls \cup Webhooks, user \in Roles :
        slot' = [slot EXCEPT ![s] =
            [Idle EXCEPT !.call = call, !.t = t, !.user = user,
                         !.pc = IF call \in Decidable THEN "route" ELSE "parse"]]
    BY <1>2 DEF Submit
  <2> DEFINE new == [Idle EXCEPT !.call = call, !.t = t, !.user = user,
                         !.pc = IF call \in Decidable THEN "route" ELSE "parse"]
  <2>2. new.pc \in {"route", "parse"}  BY DEF Idle
  <2>3. slot' = [slot EXCEPT ![s] = new] /\ file' = file  BY <1>2, <2>1 DEF Submit
  <2> HIDE DEF new
  <2>4. UpToDate(new, file')  BY <2>2 DEF UpToDate, Copying
  <2> QED BY <1>0, <2>3, <2>4, BootIsNoSlot, PauseMoves
<1>3. ASSUME NEW s \in Slots, Mkdir(s) PROVE PauseInv'
  <2>1. PICK t \in Tasks :
          /\ file[t] = Absent
          /\ slot' = [slot EXCEPT ![s] =
                     [Idle EXCEPT !.call = "create", !.t = t, !.pc = "fill"]]
    BY <1>3 DEF Mkdir
  <2> DEFINE new == [Idle EXCEPT !.call = "create", !.t = t, !.pc = "fill"]
  <2>2. new.pc = "fill" /\ new.t = t  BY DEF Idle
  <2>3. slot' = [slot EXCEPT ![s] = new] /\ file' = file  BY <1>3, <2>1 DEF Mkdir
  <2> HIDE DEF new
  <2>4. UpToDate(new, file')  BY <2>1, <2>2, <2>3 DEF UpToDate, Copying
  <2> QED BY <1>0, <2>3, <2>4, BootIsNoSlot, PauseMoves
<1>4. ASSUME NEW s \in Procs, Step(s) \/ Fail(s) PROVE PauseInv'
  BY <1>0, <1>4, RequestKeepsPause
<1>5. ASSUME RecoverNext PROVE PauseInv'
  <2>1. PICK t \in todo :
        slot' = IF RecoverPlan(OnDisk(t)).ok
                THEN [slot EXCEPT !["boot"] =
                        [Idle EXCEPT !.call = "recover", !.t = t, !.pc = "read",
                                     !.m = OnDisk(t),
                                     !.rows = IF Serial THEN approval[t] ELSE <<>>]]
                ELSE slot
    BY <1>5 DEF RecoverNext
  <2> DEFINE new == [Idle EXCEPT !.call = "recover", !.t = t, !.pc = "read",
                                 !.m = OnDisk(t),
                                 !.rows = IF Serial THEN approval[t] ELSE <<>>]
  <2>2. file' = file  BY <1>5 DEF RecoverNext
  <2>3. CASE RecoverPlan(OnDisk(t)).ok
    <3>1. slot' = [slot EXCEPT !["boot"] = new]  BY <2>1, <2>3
    <3>2. new.pc = "read" /\ new.call = "recover" /\ new.t = t /\ new.m = OnDisk(t)
      BY DEF Idle
    <3> HIDE DEF new
    <3>3. OnDisk(t).status = "running"  BY <2>3 DEF RecoverPlan, Refused
    <3>4. OnDisk(t) = file[t]  BY <3>3, ReadableIsOnFile DEF Readable, Statuses
    <3>5. UpToDate(new, file')  BY <2>2, <3>2, <3>4 DEF UpToDate
    <3> QED BY <1>0, <2>2, <3>1, <3>5, BootIsNoSlot, PauseMoves
  <2>4. CASE ~RecoverPlan(OnDisk(t)).ok  BY <1>1, <2>1, <2>2, <2>4
  <2> QED BY <2>3, <2>4
<1>6. ASSUME Crash PROVE PauseInv'
  <2>1. slot' = [s \in Procs |-> Idle]  BY <1>6 DEF Crash
  <2> QED BY <1>0, <2>1, IdleIsUpToDate DEF PauseInv
<1>7. ASSUME WatchScan \/ WatchUpsert \/ Boot \/ Listen \/ UNCHANGED vars PROVE PauseInv'
  BY <1>1, <1>7 DEF WatchScan, WatchUpsert, Boot, Listen, vars
<1> QED BY <1>2, <1>3, <1>4, <1>5, <1>6, <1>7 DEF Next

\* As long as requests do not overlap, nothing but a resume changes a paused task:
\* no call that was cut off by a crash or refused, and no boot recovery.
THEOREM PauseIsRespected ==
  ASSUME OneSlot
  PROVE  Spec => PauseHolds
<1> DEFINE Kept == \A t \in Tasks :
             file[t].status = "paused" /\ file'[t] # file[t]
               => file'[t] = [file[t] EXCEPT !.status = "running"]
<1>1. Init => PauseInv  BY PauseStart
<1>2. GateInv /\ PauseInv /\ [Next]_vars => [Kept]_vars
  <2> SUFFICES ASSUME GateInv, PauseInv, [Next]_vars PROVE Kept  OBVIOUS
  <2>1. ASSUME NEW s \in Procs, Step(s) PROVE Kept
    <3>1. CASE Fill(s)
      <4>1. slot[s].t \in Tasks  BY <3>1, SlotFacts DEF Fill
      <4>2. file[slot[s].t].status = "absent"  BY <3>1 DEF Fill, PauseInv, UpToDate, Absent
      <4>3. \A t \in Tasks : t # slot[s].t => file'[t] = file[t]
        BY <3>1 DEF Fill, GateInv, GateTypes
      <4> QED BY <4>2, <4>3
    <3>2. CASE WriteBack(s)
      <4> DEFINE r == slot[s]
      <4>1. /\ r.t \in Tasks /\ r.call \in Calls /\ r.m \in Meta
        BY <3>2, SlotFacts DEF WriteBack, Holding, Fits
      <4>2. /\ file[r.t] = r.m /\ PlanOf(r).commits
            /\ r.call = "advance" => r.m.status \in {"pending", "running"}
        BY <3>2 DEF WriteBack, PauseInv, UpToDate, Copying
      <4>3. /\ file'[r.t] = PlanOf(r).meta
            /\ \A t \in Tasks : t # r.t => file'[t] = file[t]
        <5>1. file' = [file EXCEPT ![r.t] = PlanOf(r).meta] /\ file \in [Tasks -> Meta]
          BY <3>2 DEF WriteBack, GateInv, GateTypes
        <5> HIDE DEF r
        <5> QED BY <4>1, <5>1
      <4>4. r.m.status = "paused" => PlanOf(r).meta = [r.m EXCEPT !.status = "running"]
        BY <4>1, <4>2, PausedIsResumed
      <4> HIDE DEF r
      <4> QED BY <4>2, <4>3, <4>4
    <3>3. ASSUME ~Fill(s), ~WriteBack(s) PROVE file' = file
      BY <2>1, <3>3 DEF Step, Route, Parse, Search, DecideRows, OpenRow, ReadBody,
                        Truncate, UpsertTask
    <3> QED BY <3>1, <3>2, <3>3
  <2>2. ASSUME NEW s \in Procs, Fail(s) PROVE Kept  BY <2>2 DEF Fail
  <2>3. ASSUME NEW s \in Slots, Submit(s) \/ Mkdir(s) PROVE Kept
    BY <2>3 DEF Submit, Mkdir
  <2>4. ASSUME \/ WatchScan \/ WatchUpsert \/ Crash \/ Boot \/ RecoverNext \/ Listen
               \/ UNCHANGED vars
        PROVE  Kept
    BY <2>4 DEF WatchScan, WatchUpsert, Crash, Boot, RecoverNext, Listen, vars
  <2> QED BY <2>1, <2>2, <2>3, <2>4 DEF Next
<1> QED BY <1>1, <1>2, GatesStart, GatesStep, PauseStep, PTL DEF Spec, PauseHolds
=============================================================================
