---------------------------- MODULE TaskLifecycle ----------------------------
(***************************************************************************)
(* The life of a task when its calls do not overlap: one step is one       *)
(* handler (an HTTP action, a webhook, or boot recovery of one directory). *)
(* The step leaves a prefix of the call's effects in force: the database   *)
(* may refuse a write, the process may die between two of them, and        *)
(* WriteMeta truncates task.md before it fills it again.                   *)
(***************************************************************************)
EXTENDS Engine

CONSTANTS
  Tasks,      \* task identifiers
  Stages,     \* the pipeline in force
  Roles,      \* roles of the users that act on tasks
  KBMode,     \* "off", "warn" or "enforce"
  MaxRows     \* bound on the approval rows of one task

VARIABLES
  task,       \* task.md of every task: its frontmatter, or why there is none
  approval,   \* the approval rows of every task, in id order
  broken      \* history: some call on the task stopped half-way

vars == <<task, approval, broken>>

StageNames == StageIds(Stages) \cup {"coding"}

Frontmatter == [stage : StageNames \cup {NoStage}, status : Statuses,
                archived : BOOLEAN]

\* No directory yet; a directory whose task.md does not parse.
Absent == [stage |-> NoStage, status |-> "absent", archived |-> FALSE]
Unreadable == [stage |-> NoStage, status |-> "unreadable", archived |-> FALSE]

Fresh == [stage |-> NoStage, status |-> "pending", archived |-> FALSE]

Readable(m) == m.status \in Statuses

\* The web handler may name any of the authn roles.
ASSUME RolesAssumption == Roles \subseteq {"customer", "designer", "tester",
                                           "team", "admin"}

\* Load refuses a pipeline that fails ValidStages.  The two other conjuncts
\* are not checked by the code: stage names are not repeated, and the stage
\* that back_to_coding sends a task to does not come after the one rejected.
ASSUME StagesAssumption ==
  /\ Stages \in Seq(Stage)
  /\ ValidStages(Stages)
  /\ \A i \in 1..Len(Stages) : Stages[i].id # NoStage
  /\ \A i, j \in 1..Len(Stages) : Stages[i].id = Stages[j].id => i = j
  /\ \A i, j \in 1..Len(Stages) :
       Stages[i].onReject = "back_to_coding" /\ Stages[j].id = "coding" => j <= i

ASSUME MaxRowsAssumption == MaxRows \in Nat

Init ==
  /\ task = [t \in Tasks |-> Absent]
  /\ approval = [t \in Tasks |-> <<>>]
  /\ broken = [t \in Tasks |-> FALSE]

-----------------------------------------------------------------------------
(* How far a call gets.  A step a plan does not have is passed over. *)

Decided   == 1   \* Decide took effect
Opened    == 2   \* and NewApproval
Truncated == 3   \* and WriteMeta emptied task.md
Written   == 4   \* and filled it again

RowsAfter(rows, m, plan, by, reached) ==
  LET decided == IF plan.decide = "" THEN rows
                 ELSE Decide(rows, m.stage, plan.decide, by)
  IN  IF plan.open = NoStage \/ reached < Opened THEN decided
      ELSE NewApproval(decided, plan.open)

FileAfter(m, plan, reached) ==
  CASE reached < Truncated -> m
    [] reached = Truncated -> Unreadable
    [] OTHER               -> plan.meta

\* Decide fails, and the call with it, when no row of the stage is pending.
Perform(t, plan, by) ==
  /\ plan.ok
  /\ plan.decide # "" => HasPending(approval[t], task[t].stage)
  /\ plan.open # NoStage => Len(approval[t]) < MaxRows
  /\ \E reached \in Decided..Written :
       /\ ~plan.commits => reached = Decided
       /\ approval' = [approval EXCEPT ![t] =
                         RowsAfter(@, task[t], plan, by, reached)]
       /\ task' = [task EXCEPT ![t] = FileAfter(@, plan, reached)]
       /\ broken' = [broken EXCEPT ![t] = @ \/ reached # Written]

-----------------------------------------------------------------------------
(* The handlers. *)

\* Mkdir takes the number; a crash before WriteFile ends leaves no task.md.
CreateTask(t) ==
  /\ task[t] = Absent
  /\ \E m \in {Fresh, Unreadable} : task' = [task EXCEPT ![t] = m]
  /\ UNCHANGED <<approval, broken>>

\* Mutant: any status may advance.
Advance_AnyStatus(t) ==
  /\ Readable(task[t])
  /\ \E basis \in BOOLEAN :
       Perform(t, AdvancePlan(Stages, task[t], KBMode, basis), "agent")

\* The webhook lets a task advance only from these two states.
Advance(t) ==
  /\ task[t].status \in {"pending", "running"}
  /\ \E basis \in BOOLEAN :
       Perform(t, AdvancePlan(Stages, task[t], KBMode, basis), "agent")

Approve(t) ==
  \E user \in Roles :
    /\ Readable(task[t])
    /\ CanDecide(user, ApprovalRoleOf(approval[t]))
    /\ Perform(t, ApprovePlan(Stages, task[t]), user)

\* Mutant: only approvals are routed by role.
Reject_Unrouted(t) ==
  \E user \in Roles :
    Readable(task[t]) /\ Perform(t, RejectPlan(Stages, task[t]), user)

Reject(t) ==
  \E user \in Roles :
    /\ Readable(task[t])
    /\ CanDecide(user, ApprovalRoleOf(approval[t]))
    /\ Perform(t, RejectPlan(Stages, task[t]), user)

Pause(t) == Readable(task[t]) /\ Perform(t, PausePlan(task[t]), "human")

Resume(t) == Readable(task[t]) /\ Perform(t, ResumePlan(task[t]), "human")

MarkMerged(t) == Readable(task[t]) /\ Perform(t, MarkMergedPlan(task[t]), "webhook")

Deliver(t) == Readable(task[t]) /\ Perform(t, DeliverPlan(Stages, task[t]), "human")

Archive(t) == Readable(task[t]) /\ Perform(t, ArchivePlan(task[t]), "human")

\* The server came up again and found the task running.
RecoverOnBoot(t) == Readable(task[t]) /\ Perform(t, RecoverPlan(task[t]), "agent")

Next == \E t \in Tasks :
  \/ CreateTask(t)
  \/ Advance(t)
  \/ Approve(t)
  \/ Reject(t)
  \/ Pause(t)
  \/ Resume(t)
  \/ MarkMerged(t)
  \/ Deliver(t)
  \/ Archive(t)
  \/ RecoverOnBoot(t)

Spec == Init /\ [][Next]_vars

-----------------------------------------------------------------------------
(* Properties.  Each is first a predicate on one task's frontmatter m and   *)
(* approval rows, then the invariant that says it of every task.            *)

RowType == [stage : StageIds(Stages), role : {RoleFor(s) : s \in StageIds(Stages)},
            decision : {"", "approved", "rejected"},
            by : Roles \cup {"", "webhook"}]

TypeOK ==
  /\ task \in [Tasks -> Frontmatter \cup {Absent, Unreadable}]
  /\ approval \in [Tasks -> Seq(RowType)]
  /\ broken \in [Tasks -> BOOLEAN]

\* The last word on a stage: its newest row is approved.
Approved(rows, stage) ==
  \E i \in 1..Len(rows) :
    /\ rows[i].stage = stage
    /\ rows[i].decision = "approved"
    /\ \A j \in (i+1)..Len(rows) : rows[j].stage # stage

GatesPassedBy(m, rows) ==
  Readable(m) =>
    \A k \in 1..(StageOf(Stages, Current(Stages, m)) - 1) :
      NeedsApproval(Stages, Stages[k].id) => Approved(rows, Stages[k].id)

\* No task is beyond a gated stage unless the newest approval row of that
\* stage is approved -- whatever was rejected, paused, retried or cut short
\* on the way (one approval gate per stage, pipeline.go).
GatesPassed == \A t \in Tasks : GatesPassedBy(task[t], approval[t])

PendingAtCurrent(m, rows) ==
  Readable(m) =>
    \A i \in 1..Len(rows) :
      Pending(rows, i) /\ ~IsTeamReview(Stages, rows[i].stage)
        => rows[i].stage = Current(Stages, m)

\* A row waiting for a web decision is always about the stage its task is at,
\* so nobody is shown, and nobody decides, a stage the task has left.
PendingRowsAreCurrent == \A t \in Tasks : PendingAtCurrent(task[t], approval[t])

RoutedRows(rows) ==
  \A i \in 1..Len(rows) :
    rows[i].decision # "" => rows[i].by \in {rows[i].role, "admin", "webhook"}

\* Every decided row was decided by a user of the row's own role, by an admin
\* or by the merge webhook, though the handler checks the role of the newest
\* pending row and Decide then updates the rows of the current stage.
RoleRouted == \A t \in Tasks : RoutedRows(approval[t])

MergedIsSettled(m, rows) ==
  m.status = "merged" =>
    /\ m.stage = "merge"
    /\ ~HasPending(rows, "merge")
    /\ Approved(rows, "merge")

\* A merged task has its merge stage approved and nothing left to decide, so
\* that Deliver never moves a task past an open merge row.
MergedTasksAreSettled == \A t \in Tasks : MergedIsSettled(task[t], approval[t])

\* What the code takes for granted of a pipeline and Load does not check: the
\* stage back_to_coding sends a task to exists, and only the merge stage, which
\* the merge webhook decides, is left to a team review.
EveryStageCanBeLeft ==
  \A i \in 1..Len(Stages) :
    /\ Stages[i].onReject = "back_to_coding" => Known(Stages, "coding")
    /\ Stages[i].approval = "team_mr_review" => Stages[i].id = "merge"

\* Some call, with the roles and the answer of the knowledge base it needs,
\* takes the task on.  A paused task is resumed and then advanced.
CanGoOn(m, rows) ==
  /\ m.status \in {"pending", "running", "paused"}
       => AdvancePlan(Stages, m, KBMode, TRUE).ok
  /\ m.status = "awaiting_approval"
       => /\ HasPending(rows, m.stage)
          /\ ApprovePlan(Stages, m).commits \/ MarkMergedPlan(m).ok
  /\ m.status = "merged" => DeliverPlan(Stages, m).ok

GoesOn(m, rows, b) == Readable(m) /\ ~b => CanGoOn(m, rows)

\* Unless one of its calls stopped half-way, no task gets stuck: a task that
\* awaits approval has a row to decide and a call that may decide it, and no
\* rejection, pause or merge leaves it at a stage it cannot advance from.
NoTaskIsStranded ==
  EveryStageCanBeLeft => \A t \in Tasks : GoesOn(task[t], approval[t], broken[t])

\* A delivered task went through every gate of the pipeline, its last stage's
\* too (pipeline.go: "one approval gate per stage", "the platform may not
\* release the merge stage by itself").
DeliveredAfterReview ==
  \A t \in Tasks :
    task[t].status = "delivered" /\ NeedsApproval(Stages, task[t].stage)
      => Approved(approval[t], task[t].stage)

\* A decision, once recorded, is never changed, and no row disappears.
DecisionsAreFinal ==
  [][\A t \in Tasks :
       /\ Len(approval'[t]) >= Len(approval[t])
       /\ \A i \in 1..Len(approval[t]) :
            approval[t][i].decision # "" => approval'[t][i] = approval[t][i]]_vars

\* A task leaves the merged state only by delivery or by a pause: a late
\* webhook or a repeated advance never takes the merge confirmation back.
MergedIsStable ==
  [][\A t \in Tasks :
       task[t].status = "merged" /\ Readable(task'[t]) /\ task'[t] # task[t]
         => \/ task'[t].status = "paused" /\ task'[t].stage = "merge"
            \/ StageOf(Stages, task'[t].stage) = StageOf(Stages, "merge") + 1
            \/ task'[t].status = "delivered"]_vars

\* What one step may do to the stage of a task: keep it, go on to the next
\* stage past a gate that is open, or fall back to where a rejection sends it.
\* A decision that was cut off before task.md was written moves nothing later.
StageMoves ==
  [][\A t \in Tasks :
       LET from == Current(Stages, task[t])
           to   == Current(Stages, task'[t])
       IN  Readable(task[t]) /\ Readable(task'[t]) /\ from # to =>
             \/ /\ StageOf(Stages, to) = StageOf(Stages, from) + 1
                /\ NeedsApproval(Stages, from) => Approved(approval'[t], from)
             \/ /\ to = RejectTarget(Stages, from)
                /\ \E i \in 1..Len(approval[t]) :
                     approval[t][i].decision = "" /\ approval'[t][i].decision = "rejected"]_vars
-----------------------------------------------------------------------------
(* What makes the invariants above inductive.                               *)

\* Rows are queued for gated stages only, with the role of the stage.
RowsAreGated(rows) ==
  \A i \in 1..Len(rows) : /\ NeedsApproval(Stages, rows[i].stage)
                          /\ rows[i].role = RoleFor(rows[i].stage)

\* Decide takes every undecided row of a stage: what is pending came later.
PendingIsSuffix(rows) ==
  \A i, j \in 1..Len(rows) :
    i < j /\ rows[i].stage = rows[j].stage /\ Pending(rows, i) => Pending(rows, j)

\* After a row the web may decide now, only rows of the same stage are pending:
\* the role that ApprovalRoleOf finds is that row's role.
NewestPendingIsCurrent(m, rows) ==
  Readable(m) /\ ~IsTeamReview(Stages, Current(Stages, m)) =>
    \A i, j \in 1..Len(rows) :
      /\ i < j /\ Pending(rows, i) /\ rows[i].stage = Current(Stages, m)
      /\ Pending(rows, j)
      => rows[j].stage = Current(Stages, m)

AwaitingIsGated(m) ==
  m.status = "awaiting_approval" => NeedsApproval(Stages, m.stage)

NoTaskNoRows(m, rows) == m = Absent => rows = <<>>

TaskInvariant(m, rows) ==
  /\ NoTaskNoRows(m, rows)
  /\ RowsAreGated(rows)
  /\ PendingIsSuffix(rows)
  /\ RoutedRows(rows)
  /\ PendingAtCurrent(m, rows)
  /\ NewestPendingIsCurrent(m, rows)
  /\ MergedIsSettled(m, rows)
  /\ GatesPassedBy(m, rows)
  /\ AwaitingIsGated(m)

\* The inductive invariant of the proofs: the properties above together with
\* the facts about rows and stages that every handler relies on.
IndInv == TypeOK /\ \A t \in Tasks : TaskInvariant(task[t], approval[t])

=============================================================================
