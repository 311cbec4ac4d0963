------------------------------- MODULE Engine -------------------------------
(***************************************************************************)
(* What each method of engine.Engine does, as a function of the pipeline   *)
(* and of the frontmatter the handler parsed.                              *)
(*                                                                         *)
(* Every method touches durable state in one fixed order -- Decide, then   *)
(* NewApproval, then the rewrite of task.md, then the derived index, then  *)
(* the work log -- so a method is described by a plan:                     *)
(*     ok      the guards hold; otherwise the call returns an error and    *)
(*             leaves everything alone                                     *)
(*     decide  the decision given to the pending rows of the task's        *)
(*             present stage, or "" for none                               *)
(*     open    the stage a new approval row is queued for, or NoStage      *)
(*     commits FALSE when the call fails after its decision was recorded   *)
(*     meta    the frontmatter commitAs writes                             *)
(* An error or a crash half-way leaves a prefix of the plan in force.      *)
(***************************************************************************)
EXTENDS Pipeline

Statuses == {"pending", "running", "awaiting_approval", "paused", "merged",
             "delivered"}

\* The designer, tester, team or customer whose queue a stage's row joins.
RoleFor(stage) ==
  CASE stage = "design"  -> "designer"
    [] stage = "testing" -> "tester"
    [] stage = "merge"   -> "team"
    [] OTHER             -> "customer"

\* A task without a stage is at the first one.
Current(p, m) == IF m.stage = NoStage THEN First(p) ELSE m.stage

Refused(m) ==
  [ok |-> FALSE, decide |-> "", open |-> NoStage, commits |-> FALSE, meta |-> m]

Commit(meta) ==
  [ok |-> TRUE, decide |-> "", open |-> NoStage, commits |-> TRUE, meta |-> meta]

\* Mutant: a team-review stage is entered without a row for it.
EnterNext_NotQueued(p, m, next) ==
  IF next = NoStage
  THEN Commit([m EXCEPT !.status = "delivered"])
  ELSE Commit([m EXCEPT !.stage = next,
                        !.status = IF IsTeamReview(p, next) THEN "awaiting_approval"
                                   ELSE "running"])

\* A team-review stage is queued for the merge webhook straight away; any
\* other stage waits for a session to work on it; past the end is delivery.
EnterNext(p, m, next) ==
  IF next = NoStage
  THEN Commit([m EXCEPT !.status = "delivered"])
  ELSE IF IsTeamReview(p, next)
  THEN [Commit([m EXCEPT !.stage = next, !.status = "awaiting_approval"])
          EXCEPT !.open = next]
  ELSE Commit([m EXCEPT !.stage = next, !.status = "running"])

\* basis: the knowledge base answered with something to stand on.
\* A search that fails and one that finds nothing are treated alike.
Grounded(mode, basis) == basis \/ mode # "enforce"

\* The session declares the current stage done.
AdvancePlan(p, m, mode, basis) ==
  LET at == [m EXCEPT !.stage = Current(p, m)] IN
  IF ~Grounded(mode, basis) THEN Commit([m EXCEPT !.status = "paused"])
  ELSE IF IsLast(p, at.stage) THEN Commit([at EXCEPT !.status = "delivered"])
  ELSE IF NeedsApproval(p, at.stage)
  THEN [Commit([at EXCEPT !.status = "awaiting_approval"])
          EXCEPT !.open = at.stage]
  ELSE IF ~Known(p, at.stage) THEN Refused(m)
  ELSE EnterNext(p, at, NextStage(p, at.stage))

WebDecidable(p, m) ==
  ~IsTeamReview(p, m.stage) /\ m.status = "awaiting_approval"

\* Next is looked up after the decision was recorded: an unknown stage
\* leaves the decision behind and moves nothing.
ApprovePlan(p, m) ==
  IF ~WebDecidable(p, m) THEN Refused(m)
  ELSE IF ~Known(p, m.stage)
  THEN [Refused(m) EXCEPT !.ok = TRUE, !.decide = "approved"]
  ELSE [EnterNext(p, m, NextStage(p, m.stage)) EXCEPT !.decide = "approved"]

\* Mutant: a rejected task starts all over.
RejectPlan_ToFirst(p, m) ==
  IF ~WebDecidable(p, m) THEN Refused(m)
  ELSE [Commit([m EXCEPT !.stage = First(p), !.status = "running"])
          EXCEPT !.decide = "rejected"]

\* The comment a rejection must carry is taken as given.
RejectPlan(p, m) ==
  IF ~WebDecidable(p, m) THEN Refused(m)
  ELSE [Commit([m EXCEPT !.stage = RejectTarget(p, m.stage),
                         !.status = "running"])
          EXCEPT !.decide = "rejected"]

PausePlan(m) ==
  IF m.status = "paused" THEN Refused(m)
  ELSE Commit([m EXCEPT !.status = "paused"])

\* Mutant: a resumed task is put back to waiting.
ResumePlan_Awaiting(m) ==
  IF m.status # "paused" THEN Refused(m)
  ELSE Commit([m EXCEPT !.status = "awaiting_approval"])

ResumePlan(m) ==
  IF m.status # "paused" THEN Refused(m)
  ELSE Commit([m EXCEPT !.status = "running"])

\* Mutant: the merge webhook forgets the approval rows.
MarkMergedPlan_Undecided(m) ==
  IF m.stage # "merge" \/ m.status # "awaiting_approval" THEN Refused(m)
  ELSE Commit([m EXCEPT !.status = "merged"])

MarkMergedPlan(m) ==
  IF m.stage # "merge" \/ m.status # "awaiting_approval" THEN Refused(m)
  ELSE [Commit([m EXCEPT !.status = "merged"]) EXCEPT !.decide = "approved"]

\* Mutant: delivery does not wait for the merge.
DeliverPlan_Unmerged(p, m) ==
  IF m.stage # "merge" \/ ~Known(p, m.stage) THEN Refused(m)
  ELSE EnterNext(p, m, NextStage(p, m.stage))

DeliverPlan(p, m) ==
  IF m.stage # "merge" \/ m.status # "merged" \/ ~Known(p, m.stage)
  THEN Refused(m)
  ELSE EnterNext(p, m, NextStage(p, m.stage))

ArchivePlan(m) ==
  IF m.status # "delivered" THEN Refused(m)
  ELSE Commit([m EXCEPT !.archived = TRUE])

\* Boot recovery pauses what was running when the server went down.
RecoverPlan(m) ==
  IF m.status # "running" THEN Refused(m)
  ELSE Commit([m EXCEPT !.status = "paused"])

-----------------------------------------------------------------------------
(* The approval rows of one task, in id order. *)

Pending(rows, i) == rows[i].decision = ""

\* Mutant: Decide does not look at the number of rows it changed.
HasPending_Unchecked(rows, stage) == TRUE

HasPending(rows, stage) ==
  \E i \in 1..Len(rows) : rows[i].stage = stage /\ Pending(rows, i)

\* Mutants: every decision is put down to the agent; only the oldest pending
\* row is decided; rows that are decided already are decided again.
Decide_ByAgent(rows, stage, decision, by) ==
  [i \in 1..Len(rows) |->
     IF rows[i].stage = stage /\ Pending(rows, i)
     THEN [rows[i] EXCEPT !.decision = decision, !.by = "agent"]
     ELSE rows[i]]

Decide_OldestOnly(rows, stage, decision, by) ==
  [i \in 1..Len(rows) |->
     IF /\ rows[i].stage = stage /\ Pending(rows, i)
        /\ \A j \in 1..(i-1) : rows[j].stage = stage => ~Pending(rows, j)
     THEN [rows[i] EXCEPT !.decision = decision, !.by = by]
     ELSE rows[i]]

Decide_Again(rows, stage, decision, by) ==
  [i \in 1..Len(rows) |->
     IF rows[i].stage = stage
     THEN [rows[i] EXCEPT !.decision = decision, !.by = by]
     ELSE rows[i]]

\* UPDATE ... WHERE task_id = ? AND stage = ? AND decision IS NULL
Decide(rows, stage, decision, by) ==
  [i \in 1..Len(rows) |->
     IF rows[i].stage = stage /\ Pending(rows, i)
     THEN [rows[i] EXCEPT !.decision = decision, !.by = by]
     ELSE rows[i]]

NewApproval(rows, stage) ==
  Append(rows, [stage |-> stage, role |-> RoleFor(stage), decision |-> "",
                by |-> ""])

\* The role of the newest undecided row, whatever its stage; "" for none.
ApprovalRoleOf(rows) ==
  LET pend == {i \in 1..Len(rows) : Pending(rows, i)} IN
  IF pend = {} THEN ""
  ELSE rows[CHOOSE i \in pend : \A j \in pend : j <= i].role

\* by, in the rows, is the role of the user who decided.  The handler takes the
\* name to record from the request when it gives one; that is left out.

\* Routing by role; admin may decide anything, and with nothing pending the
\* handler asks nothing.
CanDecide(user, role) == role = "" \/ user \in {role, "admin"}
=============================================================================
