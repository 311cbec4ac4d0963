--------------------------- MODULE TaskStepProofs ---------------------------
(***************************************************************************)
(* What one step of TaskLifecycle may do, proved from the inductive        *)
(* invariant of TaskLifecycleProofs: the action properties, and that no    *)
(* task is stranded.  Every step either creates a task or leaves a prefix  *)
(* of a good plan of one of the engine's methods in force (StepCases).     *)
(***************************************************************************)
EXTENDS TaskLifecycleProofs

\* The plans the handlers carry out.
Called(m, plan) ==
  \/ /\ m.status \in {"pending", "running"}
     /\ \E basis \in BOOLEAN : plan = AdvancePlan(Stages, m, KBMode, basis)
  \/ plan \in {ApprovePlan(Stages, m), RejectPlan(Stages, m), PausePlan(m),
               ResumePlan(m), MarkMergedPlan(m), DeliverPlan(Stages, m),
               ArchivePlan(m), RecoverPlan(m)}

\* The call with this plan went as far as reached.
Stepped(t, plan, by, reached) ==
  /\ task[t] \in Frontmatter
  /\ Called(task[t], plan) /\ plan.ok
  /\ GoodPlan(task[t], approval[t], plan, by)
  /\ ~plan.commits => reached = Decided
  /\ approval'[t] = RowsAfter(approval[t], task[t], plan, by, reached)
  /\ task'[t] = FileAfter(task[t], plan, reached)
  /\ broken'[t] = (broken[t] \/ reached # Written)

Unmoved(t) ==
  task'[t] = task[t] /\ approval'[t] = approval[t] /\ broken'[t] = broken[t]

Made(t) ==
  /\ task[t] = Absent /\ task'[t] \in {Fresh, Unreadable}
  /\ approval'[t] = approval[t] /\ broken'[t] = broken[t]

-----------------------------------------------------------------------------
(* The cases of a step. *)

LEMMA PerformSteps ==
  ASSUME IndInv, NEW t \in Tasks, Readable(task[t]), NEW plan, NEW by,
         Perform(t, plan, by), Called(task[t], plan),
         HasPending(approval[t], task[t].stage) \/ plan.decide = "" =>
           GoodPlan(task[t], approval[t], plan, by)
  PROVE  /\ \E reached \in Decided..Written : Stepped(t, plan, by, reached)
         /\ \A u \in Tasks \ {t} : Unmoved(u)
<1>1. /\ task \in [Tasks -> Frontmatter \cup {Absent, Unreadable}]
      /\ approval \in [Tasks -> Seq(RowType)]
      /\ broken \in [Tasks -> BOOLEAN]
  BY DEF IndInv, TypeOK
<1>2. task[t] \in Frontmatter
  <2>1. task[t] \in Frontmatter \cup {Absent, Unreadable}  BY <1>1
  <2>2. ~Readable(Absent) /\ ~Readable(Unreadable)
    BY DEF Readable, Absent, Unreadable, Statuses
  <2> QED BY <2>1, <2>2
<1>3. GoodPlan(task[t], approval[t], plan, by) /\ plan.ok
  BY DEF Perform
<1>4. PICK reached \in Decided..Written :
        /\ ~plan.commits => reached = Decided
        /\ approval' = [approval EXCEPT ![t] = RowsAfter(approval[t], task[t], plan, by, reached)]
        /\ task' = [task EXCEPT ![t] = FileAfter(task[t], plan, reached)]
        /\ broken' = [broken EXCEPT ![t] = broken[t] \/ reached # Written]
  BY DEF Perform
<1>5. /\ approval'[t] = RowsAfter(approval[t], task[t], plan, by, reached)
      /\ task'[t] = FileAfter(task[t], plan, reached)
      /\ broken'[t] = (broken[t] \/ reached # Written)
  BY <1>1, <1>4
<1>6. \A u \in Tasks \ {t} : Unmoved(u)
  BY <1>1, <1>4 DEF Unmoved
<1>7. Stepped(t, plan, by, reached)
  BY <1>2, <1>3, <1>4, <1>5 DEF Stepped
<1> QED BY <1>6, <1>7

\* One task is created, or moved by one call; the others stay as they are.
LEMMA StepCases ==
  ASSUME IndInv, Next
  PROVE  \E t \in Tasks :
           /\ \A u \in Tasks \ {t} : Unmoved(u)
           /\ \/ Made(t)
              \/ \E plan, by : \E reached \in Decided..Written : Stepped(t, plan, by, reached)
<1>1. PICK t \in Tasks :
        \/ CreateTask(t) \/ Advance(t) \/ Approve(t) \/ Reject(t) \/ Pause(t)
        \/ Resume(t) \/ MarkMerged(t) \/ Deliver(t) \/ Archive(t) \/ RecoverOnBoot(t)
  BY DEF Next
<1>0. /\ task \in [Tasks -> Frontmatter \cup {Absent, Unreadable}]
      /\ approval \in [Tasks -> Seq(RowType)]
      /\ \A u \in Tasks : TaskInvariant(task[u], approval[u])
  BY DEF IndInv, TypeOK
<1> DEFINE m == task[t]
           rows == approval[t]
<1>2. Readable(m) => m \in Frontmatter /\ rows \in Seq(RowType) /\ TaskInvariant(m, rows)
  BY <1>0 DEF Readable, Absent, Unreadable, Statuses
<1>3. CASE CreateTask(t)
  <2>1. PICK new \in {Fresh, Unreadable} : task' = [task EXCEPT ![t] = new]
    BY <1>3 DEF CreateTask
  <2>2. task[t] = Absent /\ approval' = approval /\ broken' = broken
    BY <1>3 DEF CreateTask
  <2>3. Made(t)  BY <1>0, <2>1, <2>2 DEF Made
  <2>4. \A u \in Tasks \ {t} : Unmoved(u)  BY <1>0, <2>1, <2>2 DEF Unmoved
  <2> QED BY <2>3, <2>4
<1>4. SUFFICES ASSUME ~CreateTask(t)
               PROVE  \E plan, by :
                 /\ Readable(m) /\ Perform(t, plan, by) /\ Called(m, plan)
                 /\ HasPending(rows, m.stage) \/ plan.decide = "" =>
                      GoodPlan(m, rows, plan, by)
  <2>1. CASE CreateTask(t)  BY <1>3, <2>1
  <2>2. CASE ~CreateTask(t)
    <3>1. PICK plan, by :
            /\ Readable(m) /\ Perform(t, plan, by) /\ Called(m, plan)
            /\ HasPending(rows, m.stage) \/ plan.decide = "" =>
                 GoodPlan(m, rows, plan, by)
      BY <1>4, <2>2
    <3>2. /\ \E reached \in Decided..Written : Stepped(t, plan, by, reached)
          /\ \A u \in Tasks \ {t} : Unmoved(u)
      BY <3>1, PerformSteps
    <3> QED BY <3>2
  <2> QED BY <2>1, <2>2
<1>5. CASE Advance(t)
  <2>1. PICK basis \in BOOLEAN :
          Perform(t, AdvancePlan(Stages, m, KBMode, basis), "agent")
    BY <1>5 DEF Advance
  <2>2. Readable(m) /\ m.status \in {"pending", "running"}
    BY <1>5 DEF Advance, Readable, Statuses
  <2>3. AdvancePlan(Stages, m, KBMode, basis).ok  BY <2>1 DEF Perform
  <2>4. GoodPlan(m, rows, AdvancePlan(Stages, m, KBMode, basis), "agent")
    BY <1>2, <2>2, <2>3, AdvanceIsGood
  <2>5. Called(m, AdvancePlan(Stages, m, KBMode, basis))  BY <2>2 DEF Called
  <2> QED BY <2>1, <2>2, <2>4, <2>5
<1>6. CASE Approve(t)
  <2>1. PICK user \in Roles :
          /\ Readable(m)
          /\ CanDecide(user, ApprovalRoleOf(rows))
          /\ Perform(t, ApprovePlan(Stages, m), user)
    BY <1>6 DEF Approve
  <2>2. ApprovePlan(Stages, m).ok  BY <2>1 DEF Perform
  <2>3. ApprovePlan(Stages, m).decide # ""  BY <2>2 DEF ApprovePlan, Refused
  <2>4. HasPending(rows, m.stage) => GoodPlan(m, rows, ApprovePlan(Stages, m), user)
    BY <1>2, <2>1, <2>2, ApproveIsGood
  <2>5. Called(m, ApprovePlan(Stages, m))  BY DEF Called
  <2> QED BY <2>1, <2>3, <2>4, <2>5
<1>7. CASE Reject(t)
  <2>1. PICK user \in Roles :
          /\ Readable(m)
          /\ CanDecide(user, ApprovalRoleOf(rows))
          /\ Perform(t, RejectPlan(Stages, m), user)
    BY <1>7 DEF Reject
  <2>2. RejectPlan(Stages, m).ok  BY <2>1 DEF Perform
  <2>3. RejectPlan(Stages, m).decide # ""  BY <2>2 DEF RejectPlan, Refused, Commit
  <2>4. HasPending(rows, m.stage) => GoodPlan(m, rows, RejectPlan(Stages, m), user)
    BY <1>2, <2>1, <2>2, RejectIsGood
  <2>5. Called(m, RejectPlan(Stages, m))  BY DEF Called
  <2> QED BY <2>1, <2>3, <2>4, <2>5
<1>8. CASE MarkMerged(t)
  <2>1. Readable(m) /\ Perform(t, MarkMergedPlan(m), "webhook")  BY <1>8 DEF MarkMerged
  <2>2. MarkMergedPlan(m).ok  BY <2>1 DEF Perform
  <2>3. MarkMergedPlan(m).decide # ""  BY <2>2 DEF MarkMergedPlan, Refused, Commit
  <2>4. HasPending(rows, m.stage) => GoodPlan(m, rows, MarkMergedPlan(m), "webhook")
    BY <1>2, <2>1, <2>2, MarkMergedIsGood
  <2>5. Called(m, MarkMergedPlan(m))  BY DEF Called
  <2> QED BY <2>1, <2>3, <2>4, <2>5
<1>9. CASE Deliver(t)
  <2>1. Readable(m) /\ Perform(t, DeliverPlan(Stages, m), "human")  BY <1>9 DEF Deliver
  <2>2. DeliverPlan(Stages, m).ok  BY <2>1 DEF Perform
  <2>3. GoodPlan(m, rows, DeliverPlan(Stages, m), "human")
    BY <1>2, <2>1, <2>2, DeliverIsGood
  <2>4. Called(m, DeliverPlan(Stages, m))  BY DEF Called
  <2> QED BY <2>1, <2>3, <2>4
<1>10. ASSUME NEW plan, NEW by, Readable(m), Perform(t, plan, by),
              plan \in {PausePlan(m), ResumePlan(m), ArchivePlan(m), RecoverPlan(m)}
       PROVE  Called(m, plan) /\ GoodPlan(m, rows, plan, by)
  <2>1. plan.ok  BY <1>10 DEF Perform
  <2>2. GoodPlan(m, rows, plan, by)  BY <1>2, <1>10, <2>1, StatusChangesAreGood
  <2>3. Called(m, plan)  BY <1>10 DEF Called
  <2> QED BY <2>2, <2>3
<1>11. CASE Pause(t) \/ Resume(t) \/ Archive(t) \/ RecoverOnBoot(t)
  <2>1. PICK plan \in {PausePlan(m), ResumePlan(m), ArchivePlan(m), RecoverPlan(m)}, by \in {"human", "agent"} :
          Readable(m) /\ Perform(t, plan, by)
    BY <1>11 DEF Pause, Resume, Archive, RecoverOnBoot
  <2> QED BY <1>10, <2>1
<1> QED BY <1>1, <1>4, <1>5, <1>6, <1>7, <1>8, <1>9, <1>11

-----------------------------------------------------------------------------
(* Decisions are final. *)

\* From rows to new no row disappears and no decision changes.
Kept(rows, new) ==
  /\ Len(new) >= Len(rows)
  /\ \A i \in 1..Len(rows) : rows[i].decision # "" => new[i] = rows[i]

LEMMA RowsKept ==
  ASSUME NEW m, NEW rows \in Seq(RowType), NEW plan, NEW by,
         GoodPlan(m, rows, plan, by), NEW reached \in Decided..Written
  PROVE  Kept(rows, RowsAfter(rows, m, plan, by, reached))
<1> DEFINE made == IF plan.decide = "" THEN rows
                   ELSE Decide(rows, m.stage, plan.decide, by)
           new == RowsAfter(rows, m, plan, by, reached)
<1>0. GoodDecision(m, rows, plan, by) /\ GoodOpening(m, plan)  BY DEF GoodPlan
<1>1. Len(rows) \in Nat  BY LenProperties
<1>2. /\ made \in Seq(RowType) /\ Len(made) = Len(rows)
      /\ \A i \in 1..Len(rows) : rows[i].decision # "" => made[i] = rows[i]
  <2>1. CASE plan.decide = ""  BY <2>1
  <2>2. CASE plan.decide # ""
    <3>1. UpdateOf(rows, Decide(rows, m.stage, plan.decide, by), m.stage, plan.decide, by)
      BY <1>0, <2>2, DecideFacts DEF GoodDecision
    <3>2. made = Decide(rows, m.stage, plan.decide, by)  BY <2>2
    <3> HIDE DEF made
    <3> QED BY <3>1, <3>2 DEF UpdateOf, Pending
  <2> QED BY <2>1, <2>2
<1>3. new = IF plan.open = NoStage \/ reached < Opened THEN made
            ELSE NewApproval(made, plan.open)
  BY DEF RowsAfter
<1> HIDE DEF made, new
<1>4. CASE plan.open = NoStage \/ reached < Opened
  <2>1. new = made  BY <1>3, <1>4
  <2>2. Len(new) = Len(rows)  BY <1>2, <2>1
  <2>3. Len(new) >= Len(rows)  BY <1>1, <2>2
  <2> QED BY <1>2, <2>1, <2>3 DEF new, Kept
<1>5. CASE ~(plan.open = NoStage \/ reached < Opened)
  <2>1. plan.open \in StageIds(Stages)
    BY <1>0, <1>5, StageFacts DEF GoodOpening
  <2>2. /\ Len(new) = Len(made) + 1
        /\ \A i \in 1..Len(made) : new[i] = made[i]
    BY <1>2, <1>3, <1>5, <2>1, NewApprovalFacts
  <2>3. Len(new) = Len(rows) + 1  BY <1>2, <2>2
  <2>4. Len(new) >= Len(rows)  BY <1>1, <2>3
  <2> QED BY <1>2, <2>2, <2>4 DEF new, Kept
<1> QED BY <1>4, <1>5

\* What DecisionsAreFinal says of one step.
RowsAreKept ==
  \A t \in Tasks : Kept(approval[t], approval'[t])

LEMMA NextKeepsRows == IndInv /\ [Next]_vars => RowsAreKept
<1> SUFFICES ASSUME IndInv, [Next]_vars, NEW u \in Tasks
             PROVE  Kept(approval[u], approval'[u])
  BY DEF RowsAreKept
<1>1. approval[u] \in Seq(RowType) /\ Len(approval[u]) \in Nat
  BY LenProperties DEF IndInv, TypeOK
<1>2. CASE approval'[u] = approval[u]  BY <1>1, <1>2 DEF Kept
<1>3. CASE approval'[u] # approval[u]
  <2>1. Next  BY <1>3 DEF vars
  <2>2. PICK t \in Tasks :
          /\ \A v \in Tasks \ {t} : Unmoved(v)
          /\ \/ Made(t)
             \/ \E plan, by : \E reached \in Decided..Written : Stepped(t, plan, by, reached)
    BY <2>1, StepCases
  <2>3. u = t /\ ~Made(t)  BY <1>3, <2>2 DEF Unmoved, Made
  <2>4. PICK plan, by : \E reached \in Decided..Written : Stepped(u, plan, by, reached)
    BY <2>2, <2>3
  <2>5. PICK reached \in Decided..Written : Stepped(u, plan, by, reached)
    BY <2>4
  <2>6. /\ GoodPlan(task[u], approval[u], plan, by)
        /\ approval'[u] = RowsAfter(approval[u], task[u], plan, by, reached)
    BY <2>5 DEF Stepped
  <2> QED BY <1>1, <2>6, RowsKept
<1> QED BY <1>2, <1>3

\* A decision once recorded is never changed and no row disappears, whatever
\* calls on the task are made or cut off later.
THEOREM DecisionsStayFinal == Spec => DecisionsAreFinal
<1>1. IndInv /\ [Next]_vars => [RowsAreKept]_vars  BY NextKeepsRows
<1>2. [][RowsAreKept]_vars => DecisionsAreFinal
  <2>1. [RowsAreKept]_vars =>
          [\A t \in Tasks :
             /\ Len(approval'[t]) >= Len(approval[t])
             /\ \A i \in 1..Len(approval[t]) :
                  approval[t][i].decision # "" => approval'[t][i] = approval[t][i]]_vars
    BY DEF RowsAreKept, Kept
  <2> QED BY <2>1, PTL DEF DecisionsAreFinal
<1> QED BY <1>1, <1>2, Invariance, PTL DEF Spec

-----------------------------------------------------------------------------
(* Where a step takes the frontmatter. *)

\* A task.md that a step changed and that can be read is the plan's.
LEMMA FileCases ==
  ASSUME NEW t \in Tasks, NEW plan, NEW by, NEW reached \in Decided..Written,
         Stepped(t, plan, by, reached), Readable(task'[t]), task'[t] # task[t]
  PROVE  task'[t] = plan.meta /\ reached = Written
<1>1. task'[t] = FileAfter(task[t], plan, reached)  BY DEF Stepped
<1>2. ~Readable(Unreadable)  BY DEF Readable, Unreadable, Statuses
<1>3. reached \in {1, 2, 3, 4}  BY DEF Decided, Written
<1>4. CASE reached \in {1, 2}  BY <1>1, <1>4 DEF FileAfter, Truncated
<1>5. CASE reached = 3  BY <1>1, <1>2, <1>5 DEF FileAfter, Truncated
<1>6. CASE reached = 4  BY <1>1, <1>6 DEF FileAfter, Truncated, Written
<1> QED BY <1>3, <1>4, <1>5, <1>6

\* What MergedIsStable says of one task's frontmatter.
StaysMerged(m, new) ==
  \/ new.status = "paused" /\ new.stage = "merge"
  \/ StageOf(Stages, new.stage) = StageOf(Stages, "merge") + 1
  \/ new.status = "delivered"

\* Of all calls only Pause and Deliver accept a merged task.
LEMMA MergedPlans ==
  ASSUME NEW m \in Frontmatter, m.status = "merged", m.stage = "merge",
         NEW plan, Called(m, plan), plan.ok
  PROVE  StaysMerged(m, plan.meta)
<1>1. plan \in {PausePlan(m), DeliverPlan(Stages, m)}
  <2>1. ~ApprovePlan(Stages, m).ok /\ ~RejectPlan(Stages, m).ok
    BY DEF ApprovePlan, RejectPlan, WebDecidable, Refused
  <2>2. /\ ~ResumePlan(m).ok /\ ~MarkMergedPlan(m).ok /\ ~ArchivePlan(m).ok
        /\ ~RecoverPlan(m).ok
    BY DEF ResumePlan, MarkMergedPlan, ArchivePlan, RecoverPlan, Refused
  <2> QED BY <2>1, <2>2 DEF Called
<1>2. CASE plan = PausePlan(m)
  <2>1. plan.meta = [m EXCEPT !.status = "paused"]  BY <1>2 DEF PausePlan, Commit
  <2>2. plan.meta.status = "paused" /\ plan.meta.stage = "merge"
    BY <2>1 DEF Frontmatter
  <2> QED BY <2>2 DEF StaysMerged
<1>3. CASE plan = DeliverPlan(Stages, m)
  <2> DEFINE next == NextStage(Stages, "merge")
  <2>1. Known(Stages, "merge") /\ plan = EnterNext(Stages, m, next)
    BY <1>3 DEF DeliverPlan, Refused
  <2>2. \/ next = NoStage
        \/ StageOf(Stages, next) = StageOf(Stages, "merge") + 1
    BY <2>1, NextStageFacts
  <2> HIDE DEF next
  <2>3. CASE next = NoStage
    <3>1. plan.meta = [m EXCEPT !.status = "delivered"]
      BY <2>1, <2>3 DEF EnterNext, Commit
    <3>2. plan.meta.status = "delivered"  BY <3>1 DEF Frontmatter
    <3> QED BY <3>2 DEF StaysMerged
  <2>4. CASE next # NoStage
    <3>1. plan.meta.stage = next
      BY <2>1, <2>4 DEF EnterNext, Commit, Frontmatter
    <3> QED BY <2>2, <2>4, <3>1 DEF StaysMerged
  <2> QED BY <2>3, <2>4
<1> QED BY <1>1, <1>2, <1>3

\* What MergedIsStable says of one step.
MergedStays ==
  \A t \in Tasks :
    task[t].status = "merged" /\ Readable(task'[t]) /\ task'[t] # task[t]
      => StaysMerged(task[t], task'[t])

LEMMA NextKeepsMerged == IndInv /\ [Next]_vars => MergedStays
<1> SUFFICES ASSUME IndInv, [Next]_vars, NEW u \in Tasks, task[u].status = "merged",
                    Readable(task'[u]), task'[u] # task[u]
             PROVE  StaysMerged(task[u], task'[u])
  BY DEF MergedStays
<1>1. Next  BY DEF vars
<1>2. PICK t \in Tasks :
        /\ \A v \in Tasks \ {t} : Unmoved(v)
        /\ \/ Made(t)
           \/ \E plan, by : \E reached \in Decided..Written : Stepped(t, plan, by, reached)
  BY <1>1, StepCases
<1>3. u = t /\ ~Made(t)  BY <1>2 DEF Unmoved, Made, Absent
<1>4. PICK plan, by : \E reached \in Decided..Written : Stepped(u, plan, by, reached)
  BY <1>2, <1>3
<1>5. PICK reached \in Decided..Written : Stepped(u, plan, by, reached)
  BY <1>4
<1>6. task'[u] = plan.meta  BY <1>5, FileCases
<1>7. task[u] \in Frontmatter /\ Called(task[u], plan) /\ plan.ok
  BY <1>5 DEF Stepped
<1>8. task[u].stage = "merge"
  BY DEF IndInv, TaskInvariant, MergedIsSettled
<1> QED BY <1>6, <1>7, <1>8, MergedPlans

\* The merge confirmation is never taken back: a merged task is delivered, goes
\* on to the stage after merge, or is paused at merge.
THEOREM MergedStaysMerged == Spec => MergedIsStable
<1>1. IndInv /\ [Next]_vars => [MergedStays]_vars  BY NextKeepsMerged
<1>2. [][MergedStays]_vars => MergedIsStable
  <2>1. [MergedStays]_vars =>
          [\A t \in Tasks :
             task[t].status = "merged" /\ Readable(task'[t]) /\ task'[t] # task[t]
               => \/ task'[t].status = "paused" /\ task'[t].stage = "merge"
                  \/ StageOf(Stages, task'[t].stage) = StageOf(Stages, "merge") + 1
                  \/ task'[t].status = "delivered"]_vars
    BY DEF MergedStays, StaysMerged
  <2> QED BY <2>1, PTL DEF MergedIsStable
<1> QED BY <1>1, <1>2, Invariance, PTL DEF Spec

-----------------------------------------------------------------------------
(* Where a step takes the stage. *)

\* Of all calls only Reject records a rejection.
LEMMA OnlyRejectRejects ==
  ASSUME NEW m, NEW plan, Called(m, plan), plan.decide = "rejected"
  PROVE  plan = RejectPlan(Stages, m)
<1>1. \A next, n : EnterNext(Stages, n, next).decide = ""
  BY EnterNextDecidesNothing
<1>2. ASSUME NEW basis \in BOOLEAN
      PROVE  AdvancePlan(Stages, m, KBMode, basis).decide = ""
  BY <1>1 DEF AdvancePlan, Commit, Refused
<1>3. ApprovePlan(Stages, m).decide # "rejected"
  BY DEF ApprovePlan, Refused, EnterNext, Commit
<1>4. DeliverPlan(Stages, m).decide = ""
  BY <1>1 DEF DeliverPlan, Refused
<1>5. /\ PausePlan(m).decide = "" /\ ResumePlan(m).decide = ""
      /\ ArchivePlan(m).decide = "" /\ RecoverPlan(m).decide = ""
      /\ MarkMergedPlan(m).decide # "rejected"
  BY DEF PausePlan, ResumePlan, ArchivePlan, RecoverPlan, MarkMergedPlan, Refused, Commit
<1> QED BY <1>2, <1>3, <1>4, <1>5 DEF Called

\* What StageMoves says of one task that is moved from m to new.
Rejected(rows, new) ==
  \E i \in 1..Len(rows) : rows[i].decision = "" /\ new[i].decision = "rejected"

MovedWell(m, meta, rows, new) ==
  \/ /\ StageOf(Stages, Here(meta)) = StageOf(Stages, Here(m)) + 1
     /\ NeedsApproval(Stages, Here(m)) => Approved(new, Here(m))
  \/ Here(meta) = RejectTarget(Stages, Here(m)) /\ Rejected(rows, new)

\* A plan that goes one stage on leaves the gate behind it open.
LEMMA GoingOnIsApproved ==
  ASSUME NEW m \in Frontmatter, NEW rows \in Seq(RowType), NEW plan, NEW by,
         TaskInvariant(m, rows), GoodPlan(m, rows, plan, by),
         Here(plan.meta) # Here(m), GateOpens(m, plan),
         NeedsApproval(Stages, Here(m))
  PROVE  Approved(RowsAfter(rows, m, plan, by, Written), Here(m))
<1> DEFINE made == IF plan.decide = "" THEN rows
                   ELSE Decide(rows, m.stage, plan.decide, by)
           new == RowsAfter(rows, m, plan, by, Written)
<1>0. GoodDecision(m, rows, plan, by) /\ GoodOpening(m, plan)  BY DEF GoodPlan
<1>1. /\ made \in Seq(RowType) /\ TaskInvariant(m, made)
      /\ Settled(made, Here(m)) /\ Approved(made, Here(m))
  BY <1>0, DecisionPreserves
<1>2. new = IF plan.open = NoStage THEN made ELSE NewApproval(made, plan.open)
  BY DEF RowsAfter, Written, Opened
<1> HIDE DEF made, new
<1>3. CASE plan.open = NoStage  BY <1>1, <1>2, <1>3 DEF new
<1>4. CASE plan.open # NoStage
  <2>1. OneFurther(m, plan.open)  BY <1>0, <1>4 DEF GoodOpening
  <2>2. StageOf(Stages, Here(m)) \in Nat  BY StageFacts
  <2>3. plan.open # Here(m)  BY <2>1, <2>2 DEF OneFurther
  <2>4. Approved(NewApproval(made, plan.open), Here(m))
    BY <1>0, <1>1, <1>4, <2>3, OpeningPreserves
  <2> QED BY <1>2, <1>4, <2>4 DEF new
<1> QED BY <1>3, <1>4

\* A rejection turns an undecided row into a rejected one.
LEMMA RejectionMoves ==
  ASSUME NEW m \in Frontmatter, NEW rows \in Seq(RowType), NEW plan, NEW by,
         TaskInvariant(m, rows), GoodPlan(m, rows, plan, by),
         plan = RejectPlan(Stages, m), plan.decide = "rejected"
  PROVE  /\ Here(plan.meta) = RejectTarget(Stages, Here(m))
         /\ Rejected(rows, RowsAfter(rows, m, plan, by, Written))
<1>0. GoodDecision(m, rows, plan, by)  BY DEF GoodPlan
<1>1. /\ HasPending(rows, m.stage) /\ m.stage # NoStage
      /\ by \in Roles \cup {"webhook"} /\ m.status = "awaiting_approval"
  BY <1>0 DEF GoodDecision
<1>2. Known(Stages, m.stage) /\ Here(m) = m.stage
  BY <1>1, StageFacts DEF TaskInvariant, AwaitingIsGated, Here, Current
<1>3. /\ plan.open = NoStage
      /\ plan.meta = [m EXCEPT !.stage = RejectTarget(Stages, m.stage),
                               !.status = "running"]
  BY DEF RejectPlan, Refused, Commit
<1>4. RejectTarget(Stages, m.stage) # NoStage  BY <1>2, RejectTargetFacts
<1>5. plan.meta.stage = RejectTarget(Stages, m.stage)
  BY <1>3 DEF Frontmatter
<1>6. Here(plan.meta) = RejectTarget(Stages, Here(m))
  BY <1>2, <1>4, <1>5 DEF Here, Current
<1> DEFINE new == Decide(rows, m.stage, "rejected", by)
<1>7. RowsAfter(rows, m, plan, by, Written) = new
  BY <1>3 DEF RowsAfter
<1>8. UpdateOf(rows, new, m.stage, "rejected", by)
  BY <1>1, DecideFacts
<1> HIDE DEF new
<1>9. PICK i \in 1..Len(rows) : rows[i].stage = m.stage /\ Pending(rows, i)
  BY <1>1 DEF HasPending
<1>10. rows[i].decision = "" /\ new[i].decision = "rejected"
  BY <1>8, <1>9 DEF UpdateOf, Pending
<1>11. Rejected(rows, new)  BY <1>9, <1>10 DEF Rejected
<1> QED BY <1>6, <1>7, <1>11

\* What StageMoves says of one step.
StagesMoveWell ==
  \A t \in Tasks :
    Readable(task[t]) /\ Readable(task'[t]) /\ Here(task[t]) # Here(task'[t])
      => MovedWell(task[t], task'[t], approval[t], approval'[t])

LEMMA NextMovesStagesWell == IndInv /\ [Next]_vars => StagesMoveWell
<1> SUFFICES ASSUME IndInv, [Next]_vars, NEW u \in Tasks, Readable(task[u]),
                    Readable(task'[u]), Here(task[u]) # Here(task'[u])
             PROVE  MovedWell(task[u], task'[u], approval[u], approval'[u])
  BY DEF StagesMoveWell
<1>1. Next  BY DEF vars
<1>2. PICK t \in Tasks :
        /\ \A v \in Tasks \ {t} : Unmoved(v)
        /\ \/ Made(t)
           \/ \E plan, by : \E reached \in Decided..Written : Stepped(t, plan, by, reached)
  BY <1>1, StepCases
<1>3. ~Readable(Absent)  BY DEF Readable, Absent, Statuses
<1>4. u = t /\ ~Made(t)  BY <1>2, <1>3 DEF Unmoved, Made
<1>5. PICK plan, by : \E reached \in Decided..Written : Stepped(u, plan, by, reached)
  BY <1>2, <1>4
<1>6. PICK reached \in Decided..Written : Stepped(u, plan, by, reached)
  BY <1>5
<1>7. task'[u] # task[u]  OBVIOUS
<1>8. task'[u] = plan.meta /\ reached = Written  BY <1>6, <1>7, FileCases
<1> DEFINE m == task[u]
           rows == approval[u]
           new == RowsAfter(rows, m, plan, by, Written)
<1>9. /\ m \in Frontmatter /\ Called(m, plan) /\ GoodPlan(m, rows, plan, by)
      /\ approval'[u] = new
  BY <1>6, <1>8 DEF Stepped
<1>10. rows \in Seq(RowType) /\ TaskInvariant(m, rows)
  BY DEF IndInv, TypeOK
<1>11. Here(plan.meta) # Here(m)  BY <1>8
<1> HIDE DEF m, rows, new
<1>12. CASE OneFurther(m, Here(plan.meta)) /\ GateOpens(m, plan)
  <2>1. NeedsApproval(Stages, Here(m)) => Approved(new, Here(m))
    BY <1>9, <1>10, <1>11, <1>12, GoingOnIsApproved DEF new
  <2>2. MovedWell(m, plan.meta, rows, new)
    BY <1>12, <2>1 DEF OneFurther, MovedWell
  <2> QED BY <1>8, <1>9, <2>2 DEF m, rows
<1>13. CASE plan.decide = "rejected"
  <2>1. plan = RejectPlan(Stages, m)  BY <1>9, <1>13, OnlyRejectRejects
  <2>2. /\ Here(plan.meta) = RejectTarget(Stages, Here(m))
        /\ Rejected(rows, new)
    BY <1>9, <1>10, <1>13, <2>1, RejectionMoves DEF new
  <2>3. MovedWell(m, plan.meta, rows, new)  BY <2>2 DEF MovedWell
  <2> QED BY <1>8, <1>9, <2>3 DEF m, rows
<1>14. GoodMeta(m, plan)  BY <1>9 DEF GoodPlan
<1> QED BY <1>11, <1>12, <1>13, <1>14 DEF GoodMeta

\* A task changes its stage only by going one stage on past an open gate, or by
\* a rejection that the rows record.
THEOREM StagesMoveOnOrBack == Spec => StageMoves
<1>1. IndInv /\ [Next]_vars => [StagesMoveWell]_vars  BY NextMovesStagesWell
<1>2. [][StagesMoveWell]_vars => StageMoves
  <2>1. [StagesMoveWell]_vars =>
          [\A t \in Tasks :
             LET from == Current(Stages, task[t])
                 to   == Current(Stages, task'[t])
             IN  Readable(task[t]) /\ Readable(task'[t]) /\ from # to =>
                   \/ /\ StageOf(Stages, to) = StageOf(Stages, from) + 1
                      /\ NeedsApproval(Stages, from) => Approved(approval'[t], from)
                   \/ /\ to = RejectTarget(Stages, from)
                      /\ \E i \in 1..Len(approval[t]) :
                           approval[t][i].decision = "" /\ approval'[t][i].decision = "rejected"]_vars
    BY DEF StagesMoveWell, MovedWell, Rejected, Here
  <2> QED BY <2>1, PTL DEF StageMoves
<1> QED BY <1>1, <1>2, Invariance, PTL DEF Spec

-----------------------------------------------------------------------------
(* No task is stranded. *)

\* A task that awaits approval has a row for it unless a call on it was cut off.
Queued(m, rows, b) ==
  m.status = "awaiting_approval" /\ ~b => HasPending(rows, m.stage)

QueuedInv == \A t \in Tasks : Queued(task[t], approval[t], broken[t])

\* A task is at a stage of the pipeline.
LiveInv ==
  EveryStageCanBeLeft =>
    \A t \in Tasks : Readable(task[t]) => Known(Stages, Here(task[t]))

LEMMA FirstIsKnown ==
  Known(Stages, First(Stages)) /\ Here(Fresh) = First(Stages)
<1>1. 1 \in 1..Len(Stages)  BY StageFacts
<1> QED BY <1>1, StageFacts DEF First, Here, Current, Fresh

\* What a committed plan holds, and a refused one.
LEMMA CommitFacts ==
  ASSUME NEW meta
  PROVE  /\ Commit(meta).ok /\ Commit(meta).commits
         /\ Commit(meta).meta = meta /\ ~Refused(meta).ok
BY DEF Commit, Refused

\* What EnterNext plans, whatever the next stage is.
LEMMA EnterNextGoesThrough ==
  ASSUME NEW n \in Frontmatter, NEW next
  PROVE  LET plan == EnterNext(Stages, n, next) IN
         /\ plan.ok /\ plan.commits
         /\ plan.meta.status = "awaiting_approval"
              => plan.open = plan.meta.stage /\ plan.open # NoStage
<1> DEFINE plan == EnterNext(Stages, n, next)
           over == [n EXCEPT !.status = "delivered"]
           held == [n EXCEPT !.stage = next, !.status = "awaiting_approval"]
           on == [n EXCEPT !.stage = next, !.status = "running"]
<1>0. /\ over.status = "delivered" /\ on.status = "running"
      /\ held.stage = next
  BY DEF Frontmatter
<1>1. CASE next = NoStage
  <2>1. plan = Commit(over)  BY <1>1 DEF EnterNext
  <2> HIDE DEF plan, over, held, on
  <2>2. plan.meta = over /\ plan.ok /\ plan.commits  BY <2>1, CommitFacts
  <2> QED BY <1>0, <2>2 DEF plan
<1>2. CASE next # NoStage /\ IsTeamReview(Stages, next)
  <2>1. plan = [Commit(held) EXCEPT !.open = next]
    BY <1>2 DEF EnterNext
  <2> HIDE DEF plan, over, held, on
  <2>2. plan.ok /\ plan.commits /\ plan.open = next /\ plan.meta = held
    BY <2>1 DEF Commit
  <2> QED BY <1>0, <1>2, <2>2 DEF plan
<1>3. CASE next # NoStage /\ ~IsTeamReview(Stages, next)
  <2>1. plan = Commit(on)  BY <1>3 DEF EnterNext
  <2> HIDE DEF plan, over, held, on
  <2>2. plan.meta = on /\ plan.ok /\ plan.commits  BY <2>1, CommitFacts
  <2> QED BY <1>0, <2>2 DEF plan
<1> QED BY <1>1, <1>2, <1>3

\* A commit of a frontmatter that does not await approval leaves none awaiting.
LEMMA CommitsElsewhere ==
  ASSUME NEW meta, meta.status # "awaiting_approval"
  PROVE  Commit(meta).meta.status # "awaiting_approval"
BY CommitFacts

\* Every call that leaves a task awaiting approval queues a row for the stage.
LEMMA AwaitingIsQueued ==
  ASSUME NEW m \in Frontmatter, NEW plan, Called(m, plan), plan.ok, plan.commits,
         plan.meta.status = "awaiting_approval"
  PROVE  plan.open = plan.meta.stage /\ plan.open # NoStage
<1> DEFINE at == [m EXCEPT !.stage = Here(m)]
           set(n, s) == [n EXCEPT !.status = s]
           back == [m EXCEPT !.stage = RejectTarget(Stages, m.stage),
                             !.status = "running"]
           kept == [m EXCEPT !.archived = TRUE]
<1>1. Here(m) \in StageNames /\ Here(m) # NoStage
  BY FirstIsKnown, StageFacts DEF Frontmatter, Here, Current, StageNames
<1>2. at \in Frontmatter /\ at.stage = Here(m)
  BY <1>1 DEF Frontmatter
<1>3. /\ set(m, "paused").status = "paused" /\ set(m, "running").status = "running"
      /\ set(m, "merged").status = "merged" /\ back.status = "running"
      /\ kept.status = m.status
  BY DEF Frontmatter
<1>4. /\ set(at, "delivered").status = "delivered"
      /\ set(at, "awaiting_approval").stage = at.stage
  <2> HIDE DEF at
  <2> QED BY <1>2 DEF Frontmatter
<1>5. plan # Refused(m)  BY CommitFacts
<1>6. ASSUME NEW basis \in BOOLEAN, plan = AdvancePlan(Stages, m, KBMode, basis)
      PROVE  plan.open = plan.meta.stage /\ plan.open # NoStage
  <2>1. \/ plan = Commit(set(m, "paused"))
        \/ plan = Commit(set(at, "delivered"))
        \/ plan = [Commit(set(at, "awaiting_approval")) EXCEPT !.open = at.stage]
        \/ plan = Refused(m)
        \/ plan = EnterNext(Stages, at, NextStage(Stages, at.stage))
    BY <1>6 DEF AdvancePlan, Here
  <2> HIDE DEF at, set
  <2>2. plan # Commit(set(m, "paused")) /\ plan # Commit(set(at, "delivered"))
    BY <1>3, <1>4, CommitsElsewhere
  <2>3. ASSUME plan = [Commit(set(at, "awaiting_approval")) EXCEPT !.open = at.stage]
        PROVE  plan.open = plan.meta.stage /\ plan.open # NoStage
    <3>1. plan.open = at.stage /\ plan.meta = set(at, "awaiting_approval")
      BY <2>3 DEF Commit
    <3> QED BY <1>1, <1>2, <1>4, <3>1
  <2>4. CASE plan = EnterNext(Stages, at, NextStage(Stages, at.stage))
    BY <1>2, <2>4, EnterNextGoesThrough
  <2> QED BY <1>5, <2>1, <2>2, <2>3, <2>4
<1>7. ASSUME plan = ApprovePlan(Stages, m) \/ plan = DeliverPlan(Stages, m)
      PROVE  plan.open = plan.meta.stage /\ plan.open # NoStage
  <2> DEFINE base == EnterNext(Stages, m, NextStage(Stages, m.stage))
             left == [Refused(m) EXCEPT !.ok = TRUE, !.decide = "approved"]
  <2>1. ~left.commits  BY DEF Refused
  <2>2. base.meta.status = "awaiting_approval"
          => base.open = base.meta.stage /\ base.open # NoStage
    BY EnterNextGoesThrough
  <2>3. /\ [base EXCEPT !.decide = "approved"].meta = base.meta
        /\ [base EXCEPT !.decide = "approved"].open = base.open
    BY DEF EnterNext, Commit
  <2>4. \/ plan = base \/ plan = [base EXCEPT !.decide = "approved"]
        \/ plan = Refused(m) \/ plan = left
    BY <1>7 DEF ApprovePlan, DeliverPlan
  <2> HIDE DEF base, left
  <2> QED BY <1>5, <2>1, <2>2, <2>3, <2>4
<1>8. plan # RejectPlan(Stages, m) /\ plan # MarkMergedPlan(m)
  <2> DEFINE rejected == [Commit(back) EXCEPT !.decide = "rejected"]
             merged == [Commit(set(m, "merged")) EXCEPT !.decide = "approved"]
  <2>1. /\ RejectPlan(Stages, m) = Refused(m) \/ RejectPlan(Stages, m) = rejected
        /\ MarkMergedPlan(m) = Refused(m) \/ MarkMergedPlan(m) = merged
    BY DEF RejectPlan, MarkMergedPlan
  <2> HIDE DEF back, set
  <2>2. rejected.meta = back /\ merged.meta = set(m, "merged")
    BY DEF Commit
  <2> HIDE DEF rejected, merged
  <2> QED BY <1>3, <1>5, <2>1, <2>2
<1>9. plan # PausePlan(m) /\ plan # ResumePlan(m) /\ plan # RecoverPlan(m)
  <2>1. /\ PausePlan(m) \in {Refused(m), Commit(set(m, "paused"))}
        /\ ResumePlan(m) \in {Refused(m), Commit(set(m, "running"))}
        /\ RecoverPlan(m) \in {Refused(m), Commit(set(m, "paused"))}
    BY DEF PausePlan, ResumePlan, RecoverPlan
  <2> HIDE DEF set
  <2>2. plan # Commit(set(m, "paused")) /\ plan # Commit(set(m, "running"))
    BY <1>3, CommitsElsewhere
  <2> QED BY <1>5, <2>1, <2>2
<1>10. plan # ArchivePlan(m)
  <2>1. \/ ArchivePlan(m) = Refused(m)
        \/ m.status = "delivered" /\ ArchivePlan(m) = Commit(kept)
    BY DEF ArchivePlan
  <2> HIDE DEF kept
  <2> QED BY <1>3, <1>5, <2>1, CommitsElsewhere
<1> HIDE DEF at, set, back, kept
<1> QED BY <1>6, <1>7, <1>8, <1>9, <1>10 DEF Called

\* A call carried out to its end leaves a row to decide if the task awaits
\* approval.
LEMMA WrittenIsQueued ==
  ASSUME NEW m \in Frontmatter, NEW rows \in Seq(RowType), NEW plan, NEW by,
         TaskInvariant(m, rows), Called(m, plan), plan.ok, plan.commits,
         GoodPlan(m, rows, plan, by), plan.meta.status = "awaiting_approval"
  PROVE  HasPending(RowsAfter(rows, m, plan, by, Written), plan.meta.stage)
<1>0. GoodDecision(m, rows, plan, by) /\ GoodOpening(m, plan)
  BY DEF GoodPlan
<1> DEFINE made == IF plan.decide = "" THEN rows
                   ELSE Decide(rows, m.stage, plan.decide, by)
           new == RowsAfter(rows, m, plan, by, Written)
<1>1. plan.open = plan.meta.stage /\ plan.open # NoStage
  BY AwaitingIsQueued
<1>2. new = NewApproval(made, plan.open)
  BY <1>1 DEF RowsAfter, Written, Opened
<1>3. made \in Seq(RowType)  BY <1>0, DecisionPreserves
<1>4. plan.open \in StageIds(Stages)
  BY <1>0, <1>1, StageFacts DEF GoodOpening
<1> HIDE DEF made, new
<1>5. /\ Len(new) = Len(made) + 1 /\ Len(made) \in Nat
      /\ new[Len(new)].stage = plan.open /\ new[Len(new)].decision = ""
  BY <1>2, <1>3, <1>4, NewApprovalFacts, LenProperties
<1>6. Len(new) \in 1..Len(new)
  <2>1. \A n \in Nat : n + 1 \in 1..(n + 1)  OBVIOUS
  <2> QED BY <1>5, <2>1
<1>7. HasPending(new, plan.meta.stage)
  BY <1>1, <1>5, <1>6 DEF HasPending, Pending
<1> QED BY <1>7 DEF new

\* It leaves the task at a stage of the pipeline.
LEMMA WrittenIsLive ==
  ASSUME NEW m \in Frontmatter, NEW rows \in Seq(RowType), NEW plan, NEW by,
         TaskInvariant(m, rows), EveryStageCanBeLeft, Known(Stages, Here(m)),
         Called(m, plan), plan.ok, GoodPlan(m, rows, plan, by)
  PROVE  Known(Stages, Here(plan.meta))
<1>1. GoodMeta(m, plan)  BY DEF GoodPlan
<1>2. StageOf(Stages, Here(m)) \in Nat  BY StageFacts
<1>3. CASE Here(plan.meta) = Here(m)  BY <1>3
<1>4. CASE OneFurther(m, Here(plan.meta))
  BY <1>2, <1>4 DEF OneFurther, Known
<1>5. CASE plan.decide = "rejected"
  <2>1. plan = RejectPlan(Stages, m)  BY <1>5, OnlyRejectRejects
  <2>2. Here(plan.meta) = RejectTarget(Stages, Here(m))
    BY <1>5, <2>1, RejectionMoves
  <2>3. StageOf(Stages, Here(m)) \in 1..Len(Stages)  BY StageFacts DEF Known
  <2> QED BY <2>2, <2>3 DEF RejectTarget, EveryStageCanBeLeft
<1> QED BY <1>1, <1>3, <1>4, <1>5 DEF GoodMeta

\* What a call does to a task it changes.
LEMMA ChangedBy ==
  ASSUME IndInv, [Next]_vars, NEW u \in Tasks, ~Unmoved(u)
  PROVE  \/ Made(u)
         \/ \E plan, by : \E reached \in Decided..Written : Stepped(u, plan, by, reached)
<1>1. Next  BY DEF vars, Unmoved
<1>2. PICK t \in Tasks :
        /\ \A v \in Tasks \ {t} : Unmoved(v)
        /\ \/ Made(t)
           \/ \E plan, by : \E reached \in Decided..Written : Stepped(t, plan, by, reached)
  BY <1>1, StepCases
<1>3. u = t  BY <1>2
<1> QED BY <1>2, <1>3

LEMMA NextKeepsQueued == IndInv /\ QueuedInv /\ [Next]_vars => QueuedInv'
<1> SUFFICES ASSUME IndInv, QueuedInv, [Next]_vars, NEW u \in Tasks
             PROVE  Queued(task'[u], approval'[u], broken'[u])
  BY DEF QueuedInv
<1>1. Queued(task[u], approval[u], broken[u])  BY DEF QueuedInv
<1>2. CASE Unmoved(u)  BY <1>1, <1>2 DEF Unmoved
<1>3. CASE Made(u)
  <2>1. task'[u] \in {Fresh, Unreadable}  BY <1>3 DEF Made
  <2> QED BY <2>1 DEF Queued, Fresh, Unreadable
<1>4. CASE ~Unmoved(u) /\ ~Made(u)
  <2>1. PICK plan, by : \E reached \in Decided..Written : Stepped(u, plan, by, reached)
    BY <1>4, ChangedBy
  <2>2. PICK reached \in Decided..Written : Stepped(u, plan, by, reached)
    BY <2>1
  <2>3. /\ task[u] \in Frontmatter
        /\ Called(task[u], plan) /\ plan.ok
        /\ GoodPlan(task[u], approval[u], plan, by)
        /\ ~plan.commits => reached = Decided
        /\ approval'[u] = RowsAfter(approval[u], task[u], plan, by, reached)
        /\ task'[u] = FileAfter(task[u], plan, reached)
        /\ broken'[u] = (broken[u] \/ reached # Written)
    BY <2>2 DEF Stepped
  <2>4. CASE reached = Written
    <3>1. plan.commits  BY <2>3, <2>4 DEF Decided, Written
    <3>2. task'[u] = plan.meta  BY <2>3, <2>4 DEF FileAfter, Written, Truncated
    <3>3. approval[u] \in Seq(RowType) /\ TaskInvariant(task[u], approval[u])
      BY DEF IndInv, TypeOK
    <3>4. plan.meta.status = "awaiting_approval" => HasPending(approval'[u], plan.meta.stage)
      BY <2>3, <2>4, <3>1, <3>3, WrittenIsQueued
    <3> QED BY <3>2, <3>4 DEF Queued
  <2>5. CASE reached # Written
    <3>1. broken'[u] = TRUE  BY <2>3, <2>5
    <3> QED BY <3>1 DEF Queued
  <2> QED BY <2>4, <2>5
<1> QED BY <1>2, <1>3, <1>4

LEMMA NextKeepsLive == IndInv /\ LiveInv /\ [Next]_vars => LiveInv'
<1> SUFFICES ASSUME IndInv, LiveInv, [Next]_vars, EveryStageCanBeLeft, NEW u \in Tasks,
                    Readable(task'[u])
             PROVE  Known(Stages, Here(task'[u]))
  BY DEF LiveInv
<1>1. Readable(task[u]) => Known(Stages, Here(task[u]))  BY DEF LiveInv
<1>2. CASE task'[u] = task[u]  BY <1>1, <1>2
<1>3. CASE Made(u)
  <2>1. task'[u] \in {Fresh, Unreadable}  BY <1>3 DEF Made
  <2>2. ~Readable(Unreadable)  BY DEF Readable, Unreadable, Statuses
  <2> QED BY <2>1, <2>2, FirstIsKnown
<1>4. CASE task'[u] # task[u] /\ ~Made(u)
  <2>1. ~Unmoved(u)  BY <1>4 DEF Unmoved
  <2>2. PICK plan, by : \E reached \in Decided..Written : Stepped(u, plan, by, reached)
    BY <1>4, <2>1, ChangedBy
  <2>3. PICK reached \in Decided..Written : Stepped(u, plan, by, reached)
    BY <2>2
  <2>4. /\ task[u] \in Frontmatter
        /\ Called(task[u], plan) /\ plan.ok
        /\ GoodPlan(task[u], approval[u], plan, by)
    BY <2>3 DEF Stepped
  <2>5. /\ Readable(task[u]) /\ approval[u] \in Seq(RowType)
        /\ TaskInvariant(task[u], approval[u])
    BY <2>4 DEF Readable, Frontmatter, IndInv, TypeOK
  <2>6. task'[u] = plan.meta  BY <1>4, <2>3, FileCases
  <2> QED BY <1>1, <2>4, <2>5, <2>6, WrittenIsLive
<1> QED BY <1>2, <1>3, <1>4

\* A live task that no call was cut off on can go on.
LEMMA LiveGoesOn == IndInv /\ LiveInv /\ QueuedInv => NoTaskIsStranded
<1> SUFFICES ASSUME IndInv, LiveInv, QueuedInv, EveryStageCanBeLeft, NEW t \in Tasks,
                    Readable(task[t]), ~broken[t]
             PROVE  CanGoOn(task[t], approval[t])
  BY DEF NoTaskIsStranded, GoesOn
<1> DEFINE m == task[t]
           rows == approval[t]
<1>1. /\ Known(Stages, Here(m))
      /\ m.status = "awaiting_approval" => HasPending(rows, m.stage)
  BY DEF LiveInv, QueuedInv, Queued
<1>2. AwaitingIsGated(m) /\ MergedIsSettled(m, rows)
  BY DEF IndInv, TaskInvariant
<1>3. m \in Frontmatter
  <2>1. m \in Frontmatter \cup {Absent, Unreadable}  BY DEF IndInv, TypeOK
  <2> QED BY <2>1 DEF Readable, Absent, Unreadable, Statuses
<1> HIDE DEF m, rows
<1> DEFINE at == [m EXCEPT !.stage = Here(m)]
<1>4. at \in Frontmatter /\ at.stage = Here(m)
  <2>1. Here(m) \in StageNames  BY <1>1, StageFacts DEF StageNames
  <2> QED BY <1>3, <2>1 DEF Frontmatter
<1>5. AdvancePlan(Stages, m, KBMode, TRUE).ok
  <2>1. EnterNext(Stages, at, NextStage(Stages, at.stage)).ok
    BY <1>4, EnterNextGoesThrough
  <2>2. AdvancePlan(Stages, m, KBMode, TRUE) \in
          {Commit([at EXCEPT !.status = "delivered"]),
           [Commit([at EXCEPT !.status = "awaiting_approval"]) EXCEPT !.open = at.stage],
           EnterNext(Stages, at, NextStage(Stages, at.stage))}
    BY <1>1, <1>4 DEF AdvancePlan, Grounded, Here
  <2>3. /\ Commit([at EXCEPT !.status = "delivered"]).ok
        /\ [Commit([at EXCEPT !.status = "awaiting_approval"]) EXCEPT !.open = at.stage].ok
    BY DEF Commit
  <2> HIDE DEF at
  <2> QED BY <2>1, <2>2, <2>3
<1>6. ASSUME m.status = "awaiting_approval"
      PROVE  ApprovePlan(Stages, m).commits \/ MarkMergedPlan(m).ok
  <2>1. Known(Stages, m.stage)  BY <1>2, <1>6, StageFacts DEF AwaitingIsGated
  <2>2. CASE IsTeamReview(Stages, m.stage)
    <3>1. StageOf(Stages, m.stage) \in 1..Len(Stages)
      BY <2>1, StageFacts DEF Known
    <3>2. Stages[StageOf(Stages, m.stage)].approval = "team_mr_review"
      BY <2>1, <2>2 DEF IsTeamReview, Approval
    <3>3. Stages[StageOf(Stages, m.stage)].id = m.stage  BY <2>1, StageFacts
    <3>4. m.stage = "merge"  BY <3>1, <3>2, <3>3 DEF EveryStageCanBeLeft
    <3> QED BY <1>6, <3>4 DEF MarkMergedPlan, Commit
  <2>3. CASE ~IsTeamReview(Stages, m.stage)
    <3> DEFINE base == EnterNext(Stages, m, NextStage(Stages, m.stage))
    <3>1. base.commits  BY <1>3, EnterNextGoesThrough
    <3>2. ApprovePlan(Stages, m) = [base EXCEPT !.decide = "approved"]
      BY <1>6, <2>1, <2>3 DEF ApprovePlan, WebDecidable
    <3>3. [base EXCEPT !.decide = "approved"].commits = base.commits
      BY DEF EnterNext, Commit
    <3> HIDE DEF base
    <3> QED BY <3>1, <3>2, <3>3
  <2> QED BY <2>2, <2>3
<1>7. ASSUME m.status = "merged" PROVE DeliverPlan(Stages, m).ok
  <2>1. m.stage = "merge" /\ Known(Stages, "merge")
    BY <1>1, <1>2, <1>7 DEF MergedIsSettled, Here, Current, NoStage
  <2>2. EnterNext(Stages, m, NextStage(Stages, "merge")).ok
    BY <1>3, EnterNextGoesThrough
  <2> QED BY <1>7, <2>1, <2>2 DEF DeliverPlan
<1>8. CanGoOn(m, rows)  BY <1>1, <1>5, <1>6, <1>7 DEF CanGoOn
<1> QED BY <1>8 DEF m, rows

\* A task that awaits approval, and no call on which was cut off, has a row to
\* decide for the stage it is at: no advance, decision or merge forgets it.
THEOREM AwaitingTasksAreQueued == Spec => []QueuedInv
<1>1. Init => QueuedInv  BY DEF Init, QueuedInv, Queued, Absent
<1> QED BY <1>1, NextKeepsQueued, Invariance, PTL DEF Spec

\* A row the web may decide, of a task that awaits approval, can be decided by
\* whoever it is shown to.
LEMMA PendingRowIsDecidable ==
  ASSUME IndInv, NEW t \in Tasks, task[t].status = "awaiting_approval",
         NEW i \in 1..Len(approval[t]), Pending(approval[t], i),
         ~IsTeamReview(Stages, approval[t][i].stage),
         NEW user \in {"admin", approval[t][i].role}
  PROVE  /\ WebDecidable(Stages, task[t])
         /\ HasPending(approval[t], task[t].stage)
         /\ CanDecide(user, ApprovalRoleOf(approval[t]))
<1> DEFINE m == task[t]
           rows == approval[t]
<1>1. /\ RowsAreGated(rows) /\ PendingAtCurrent(m, rows)
      /\ NewestPendingIsCurrent(m, rows) /\ AwaitingIsGated(m)
      /\ rows \in Seq(RowType)
  BY DEF IndInv, TypeOK, TaskInvariant
<1>2. Readable(m)  BY DEF Readable, Statuses
<1>3. rows[i].stage = Here(m)
  BY <1>1, <1>2 DEF PendingAtCurrent, Here
<1>4. m.stage # NoStage /\ Here(m) = m.stage
  <2>1. NeedsApproval(Stages, m.stage)  BY <1>1 DEF AwaitingIsGated
  <2>2. m.stage # NoStage  BY <2>1, StageFacts
  <2> QED BY <2>2 DEF Here, Current
<1>5. PICK k \in 1..Len(rows) :
        i <= k /\ Pending(rows, k) /\ ApprovalRoleOf(rows) = rows[k].role
  BY <1>1, NewestPending
<1>6. rows[k].stage = rows[i].stage
  <2>1. CASE i = k  BY <2>1
  <2>2. CASE i < k
    BY <1>1, <1>2, <1>3, <1>5, <2>2 DEF NewestPendingIsCurrent, Here
  <2> QED BY <1>5, <2>1, <2>2, LenProperties
<1>7. ApprovalRoleOf(rows) = rows[i].role
  BY <1>1, <1>5, <1>6 DEF RowsAreGated
<1> QED BY <1>3, <1>4, <1>7 DEF WebDecidable, HasPending, CanDecide

\* A task that waits at a web gate has a row for the role of its stage.
LEMMA WaitingTaskIsQueued ==
  ASSUME IndInv, QueuedInv, NEW t \in Tasks, task[t].status = "awaiting_approval",
         ~broken[t]
  PROVE  \E i \in 1..Len(approval[t]) :
           /\ Pending(approval[t], i)
           /\ approval[t][i].role = RoleFor(task[t].stage)
<1>1. RowsAreGated(approval[t])  BY DEF IndInv, TaskInvariant
<1>2. HasPending(approval[t], task[t].stage)  BY DEF QueuedInv, Queued
<1> QED BY <1>1, <1>2 DEF HasPending, RowsAreGated

\* In a pipeline whose stages can all be left, no rejection, pause, merge or
\* repeated call leaves a task where no call takes it on, unless one of its
\* calls was cut off half-way.
THEOREM NobodyIsStranded == Spec => []NoTaskIsStranded
<1>1. Init => LiveInv
  <2>1. ~Readable(Absent)  BY DEF Readable, Absent, Statuses
  <2> QED BY <2>1 DEF Init, LiveInv
<1>2. IndInv /\ LiveInv /\ [Next]_vars => LiveInv'  BY NextKeepsLive
<1>3. IndInv /\ LiveInv /\ QueuedInv => NoTaskIsStranded  BY LiveGoesOn
<1> QED BY <1>1, <1>2, <1>3, AwaitingTasksAreQueued, Invariance, PTL DEF Spec
=============================================================================
