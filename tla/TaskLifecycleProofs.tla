------------------------- MODULE TaskLifecycleProofs -------------------------
(***************************************************************************)
(* Proofs about TaskLifecycle, for every pipeline that meets               *)
(* StagesAssumption, every set of tasks and of roles, every KB mode and    *)
(* every bound on rows.  The argument: a handler carries out a plan, every *)
(* plan the engine makes is good for the task it is made for (GoodPlan),   *)
(* and any prefix of a good plan preserves TaskInvariant.                  *)
(***************************************************************************)
EXTENDS TaskLifecycle, Integers, SequenceTheorems, WellFoundedInduction, TLAPS

-----------------------------------------------------------------------------
(* Indices and stages. *)

\* A non-empty set of positions in a sequence has a largest one.
LEMMA LargestIndex ==
  ASSUME NEW n \in Nat, NEW S \in SUBSET (1..n), S # {}
  PROVE  \E i \in S : \A j \in S : j <= i
<1> DEFINE R == {ss \in Nat \X Nat : ss[1] < ss[2]}
           T == {k \in 0..n : n - k \in S}
<1>1. T \subseteq Nat /\ \A s \in S : n - s \in T
  <2>1. \A s \in S : n - s \in 0..n /\ n - (n - s) = s  OBVIOUS
  <2> QED BY <2>1
<1>2. IsWellFoundedOn(R, Nat)
  BY NatLessThanWellFounded, Zenon DEF OpToRel
<1>3. \A x, y \in Nat : <<y, x>> \in R <=> y < x  OBVIOUS
<1>4. T # {}  BY <1>1
<1> HIDE DEF R
<1>5. \E x \in T : \A y \in T : ~(<<y, x>> \in R)
  BY <1>1, <1>2, <1>4, WFMin
<1>6. PICK x \in T : \A y \in T : ~(y < x)
  BY <1>1, <1>3, <1>5
<1>7. ASSUME NEW j \in S PROVE j <= n - x
  <2>1. n - j \in T /\ ~(n - j < x)  BY <1>1, <1>6
  <2>2. x \in 0..n /\ j \in 1..n  OBVIOUS
  <2> QED BY <2>1, <2>2
<1> QED BY <1>7

\* StageOf finds the one position of a stage, and nothing but a stage of the
\* pipeline needs approval.
LEMMA StageFacts ==
  /\ Len(Stages) \in Nat \ {0}
  /\ \A id : StageOf(Stages, id) \in 0..Len(Stages)
  /\ \A id : Known(Stages, id) => Stages[StageOf(Stages, id)].id = id
  /\ \A id : Known(Stages, id) => id \in StageIds(Stages) /\ id # NoStage
  /\ \A k \in 1..Len(Stages) :
       StageOf(Stages, Stages[k].id) = k /\ Known(Stages, Stages[k].id)
  /\ \A id : NeedsApproval(Stages, id) => Known(Stages, id)
  /\ \A id : IsTeamReview(Stages, id) => NeedsApproval(Stages, id)
<1>1. Len(Stages) \in Nat \ {0}
  BY StagesAssumption, LenProperties DEF ValidStages
<1>2. ASSUME NEW id, id \in StageIds(Stages)
      PROVE  /\ StageOf(Stages, id) \in 1..Len(Stages)
             /\ Stages[StageOf(Stages, id)].id = id
  <2>1. PICK i \in 1..Len(Stages) : Stages[i].id = id
    BY <1>2 DEF StageIds
  <2>2. \A j \in 1..(i-1) : Stages[j].id # id
    BY <1>1, <2>1, StagesAssumption
  <2> QED BY <1>2, <2>1, <2>2 DEF StageOf
<1>3. ASSUME NEW id, id \notin StageIds(Stages) PROVE StageOf(Stages, id) = 0
  BY <1>3 DEF StageOf
<1>4. \A id : Known(Stages, id) <=> id \in StageIds(Stages)
  BY <1>1, <1>2, <1>3 DEF Known
<1>5. \A id : id \in StageIds(Stages) => id # NoStage
  BY StagesAssumption DEF StageIds
<1>6. ASSUME NEW k \in 1..Len(Stages)
      PROVE  StageOf(Stages, Stages[k].id) = k /\ Known(Stages, Stages[k].id)
  <2>1. Stages[k].id \in StageIds(Stages)  BY DEF StageIds
  <2> QED BY <1>1, <1>2, <1>4, <2>1, StagesAssumption
<1>7. \A id : NeedsApproval(Stages, id) => Known(Stages, id)
  BY DEF NeedsApproval, Approval
<1>8. \A id : IsTeamReview(Stages, id) => NeedsApproval(Stages, id)
  BY DEF NeedsApproval, IsTeamReview
<1> QED BY <1>1, <1>2, <1>3, <1>4, <1>5, <1>6, <1>7, <1>8

\* The next stage is one position further on, and is empty after the last.
LEMMA NextStageFacts ==
  ASSUME NEW id, Known(Stages, id)
  PROVE  LET next == NextStage(Stages, id) IN
         \/ next = NoStage
         \/ /\ next \in StageIds(Stages)
            /\ next # NoStage
            /\ StageOf(Stages, next) = StageOf(Stages, id) + 1
<1>1. StageOf(Stages, id) \in 1..Len(Stages)
  BY StageFacts DEF Known
<1>2. CASE StageOf(Stages, id) = Len(Stages)
  BY <1>2 DEF NextStage
<1>3. CASE StageOf(Stages, id) # Len(Stages)
  <2>1. StageOf(Stages, id) + 1 \in 1..Len(Stages)
    BY <1>1, <1>3, StageFacts
  <2>2. NextStage(Stages, id) = Stages[StageOf(Stages, id) + 1].id
    BY <1>3 DEF NextStage
  <2> QED BY <2>1, <2>2, StageFacts
<1> QED BY <1>2, <1>3

\* A rejection never sends a task forward.
LEMMA RejectTargetFacts ==
  ASSUME NEW id, Known(Stages, id)
  PROVE  /\ RejectTarget(Stages, id) \in StageNames
         /\ RejectTarget(Stages, id) # NoStage
         /\ StageOf(Stages, RejectTarget(Stages, id)) \in 0..StageOf(Stages, id)
<1>1. StageOf(Stages, id) \in 1..Len(Stages) /\ id \in StageIds(Stages) /\ id # NoStage
  BY StageFacts DEF Known
<1>2. CASE RejectTarget(Stages, id) = id
  BY <1>1, <1>2 DEF StageNames
<1>3. CASE RejectTarget(Stages, id) # id
  <2>1. /\ RejectTarget(Stages, id) = "coding"
        /\ Stages[StageOf(Stages, id)].onReject = "back_to_coding"
    BY <1>3 DEF RejectTarget
  <2>2. StageOf(Stages, "coding") \in 0..Len(Stages)
    BY StageFacts
  <2>3. StageOf(Stages, "coding") # 0 => Stages[StageOf(Stages, "coding")].id = "coding"
    BY StageFacts DEF Known
  <2>4. StageOf(Stages, "coding") <= StageOf(Stages, id)
    BY <1>1, <2>1, <2>2, <2>3, StagesAssumption
  <2>5. StageOf(Stages, "coding") \in 0..StageOf(Stages, id)
    BY <1>1, <2>2, <2>4
  <2>6. "coding" \in StageNames /\ "coding" # NoStage
    BY DEF StageNames, NoStage
  <2> QED BY <2>1, <2>5, <2>6
<1> QED BY <1>2, <1>3

-----------------------------------------------------------------------------
(* Rows. *)

\* What one UPDATE of the approval table makes of the rows.
UpdateOf(rows, new, stage, decision, by) ==
  /\ new \in Seq(RowType)
  /\ Len(new) = Len(rows)
  /\ \A i \in 1..Len(rows) :
       /\ new[i].stage = rows[i].stage
       /\ new[i].role = rows[i].role
       /\ rows[i].stage = stage /\ Pending(rows, i)
            => new[i].decision = decision /\ new[i].by = by
       /\ ~(rows[i].stage = stage /\ Pending(rows, i)) => new[i] = rows[i]

\* Decide keeps the rows and their order, and gives the undecided rows of one
\* stage the decision and who made it.
LEMMA DecideFacts ==
  ASSUME NEW rows \in Seq(RowType), NEW stage,
         NEW decision \in {"approved", "rejected"},
         NEW by \in Roles \cup {"webhook"}
  PROVE  UpdateOf(rows, Decide(rows, stage, decision, by), stage, decision, by)
<1> DEFINE new == Decide(rows, stage, decision, by)
<1>1. Len(rows) \in Nat /\ \A i \in 1..Len(rows) : rows[i] \in RowType
  BY LenProperties, ElementOfSeq
<1>2. ASSUME NEW i \in 1..Len(rows)
      PROVE  /\ new[i] \in RowType
             /\ new[i].stage = rows[i].stage
             /\ new[i].role = rows[i].role
             /\ rows[i].stage = stage /\ Pending(rows, i)
                  => new[i].decision = decision /\ new[i].by = by
             /\ ~(rows[i].stage = stage /\ Pending(rows, i)) => new[i] = rows[i]
  <2>1. rows[i] \in RowType  BY <1>1
  <2> QED BY <2>1 DEF Decide, RowType
<1>3. new \in [1..Len(rows) -> RowType]
  BY <1>2 DEF Decide
<1>4. new \in Seq(RowType)
  BY <1>1, <1>3, SeqDef
<1>5. Len(new) = Len(rows)
  <2>1. DOMAIN new = 1..Len(new) /\ Len(new) \in Nat
    BY <1>4, LenProperties
  <2>2. DOMAIN new = 1..Len(rows)  BY <1>3
  <2> QED BY <1>1, <2>1, <2>2
<1> HIDE DEF new
<1>6. UpdateOf(rows, new, stage, decision, by)
  BY <1>2, <1>4, <1>5 DEF UpdateOf
<1> QED BY <1>6 DEF new

\* NewApproval adds one undecided row with the role of its stage.
LEMMA NewApprovalFacts ==
  ASSUME NEW rows \in Seq(RowType), NEW stage \in StageIds(Stages)
  PROVE  LET new == NewApproval(rows, stage) IN
         /\ new \in Seq(RowType)
         /\ Len(new) = Len(rows) + 1
         /\ \A i \in 1..Len(rows) : new[i] = rows[i]
         /\ new[Len(new)].stage = stage
         /\ new[Len(new)].role = RoleFor(stage)
         /\ new[Len(new)].decision = ""
<1> DEFINE row == [stage |-> stage, role |-> RoleFor(stage), decision |-> "",
                   by |-> ""]
<1>1. row \in RowType  BY DEF RowType
<1>4. row.stage = stage /\ row.role = RoleFor(stage) /\ row.decision = ""  OBVIOUS
<1>2. NewApproval(rows, stage) = Append(rows, row)  BY DEF NewApproval
<1> HIDE DEF row
<1>3. LET new == Append(rows, row) IN
      /\ new \in Seq(RowType)
      /\ Len(new) = Len(rows) + 1
      /\ \A i \in 1..Len(rows) : new[i] = rows[i]
      /\ new[Len(rows) + 1] = row
  BY <1>1, AppendProperties
<1> QED BY <1>2, <1>3, <1>4

\* The newest of the undecided rows gives ApprovalRoleOf.
LEMMA NewestPending ==
  ASSUME NEW rows \in Seq(RowType), NEW i \in 1..Len(rows), Pending(rows, i)
  PROVE  \E k \in 1..Len(rows) :
           /\ i <= k
           /\ Pending(rows, k)
           /\ ApprovalRoleOf(rows) = rows[k].role
<1> DEFINE pend == {j \in 1..Len(rows) : Pending(rows, j)}
<1>1. Len(rows) \in Nat  BY LenProperties
<1>2. pend \in SUBSET (1..Len(rows)) /\ i \in pend  OBVIOUS
<1>3. \E k \in pend : \A j \in pend : j <= k
  BY <1>1, <1>2, LargestIndex
<1> DEFINE top == CHOOSE k \in pend : \A j \in pend : j <= k
<1>4. top \in pend /\ \A j \in pend : j <= top
  BY <1>3
<1>5. ApprovalRoleOf(rows) = rows[top].role
  BY <1>2 DEF ApprovalRoleOf
<1> HIDE DEF top
<1> QED BY <1>2, <1>4, <1>5

\* Approving a stage that has an undecided row leaves its newest row approved.
LEMMA DecideApproves ==
  ASSUME NEW rows \in Seq(RowType), NEW stage, HasPending(rows, stage),
         PendingIsSuffix(rows), NEW by \in Roles \cup {"webhook"}
  PROVE  Approved(Decide(rows, stage, "approved", by), stage)
<1> DEFINE new == Decide(rows, stage, "approved", by)
           at == {j \in 1..Len(rows) : rows[j].stage = stage}
<1>1. Len(rows) \in Nat  BY LenProperties
<1>2. PICK i \in 1..Len(rows) : rows[i].stage = stage /\ Pending(rows, i)
  BY DEF HasPending
<1>3. PICK k \in at : \A j \in at : j <= k
  <2>1. at \in SUBSET (1..Len(rows)) /\ at # {}  BY <1>2
  <2> QED BY <1>1, <2>1, LargestIndex
<1>4. Pending(rows, k)
  <2>1. i <= k  BY <1>2, <1>3
  <2>2. CASE i = k  BY <1>2, <2>2
  <2>3. CASE i < k  BY <1>2, <1>3, <2>3 DEF PendingIsSuffix
  <2> QED BY <1>1, <2>1, <2>2, <2>3
<1>5. /\ Len(new) = Len(rows)
      /\ new[k].stage = stage /\ new[k].decision = "approved"
      /\ \A j \in 1..Len(rows) : new[j].stage = rows[j].stage
  BY <1>3, <1>4, DecideFacts DEF UpdateOf
<1>6. \A j \in (k+1)..Len(new) : new[j].stage # stage
  BY <1>1, <1>3, <1>5
<1>7. Approved(new, stage)
  <2> HIDE DEF new
  <2> QED BY <1>3, <1>5, <1>6 DEF Approved
<1> QED BY <1>7

-----------------------------------------------------------------------------
(* Good plans. *)

Here(m) == Current(Stages, m)

\* The gate of the present stage, if it has one, is open once the plan's
\* decision is recorded.
GateOpens(m, plan) ==
  \/ ~NeedsApproval(Stages, Here(m))
  \/ plan.decide = "approved"
  \/ m.status = "merged"

OneFurther(m, stage) ==
  /\ StageOf(Stages, Here(m)) # 0
  /\ StageOf(Stages, stage) = StageOf(Stages, Here(m)) + 1

GoodDecision(m, rows, plan, by) ==
  plan.decide # "" =>
    /\ plan.decide \in {"approved", "rejected"}
    /\ m.status = "awaiting_approval"
    /\ m.stage # NoStage
    /\ HasPending(rows, m.stage)
    /\ by \in Roles \cup {"webhook"}
    /\ by \in {RoleFor(m.stage), "admin", "webhook"}

GoodOpening(m, plan) ==
  plan.open # NoStage =>
    /\ NeedsApproval(Stages, plan.open)
    /\ \/ /\ plan.open = Here(m)
          /\ plan.decide = ""
          /\ m.status # "merged"
          /\ Here(plan.meta) = Here(m)
       \/ /\ IsTeamReview(Stages, plan.open)
          /\ OneFurther(m, plan.open)
          /\ GateOpens(m, plan)

GoodMeta(m, plan) ==
  /\ plan.meta \in Frontmatter
  /\ \/ Here(plan.meta) = Here(m)
     \/ OneFurther(m, Here(plan.meta)) /\ GateOpens(m, plan)
     \/ /\ plan.decide = "rejected"
        /\ StageOf(Stages, Here(plan.meta)) \in 0..StageOf(Stages, Here(m))
  /\ plan.meta.status = "merged" =>
       /\ m.stage = "merge" /\ plan.meta.stage = "merge"
       /\ plan.decide = "approved" /\ plan.open = NoStage
  /\ AwaitingIsGated(plan.meta)

GoodPlan(m, rows, plan, by) ==
  GoodDecision(m, rows, plan, by) /\ GoodOpening(m, plan) /\ GoodMeta(m, plan)

\* Nothing is left to decide at a stage.
Settled(rows, stage) ==
  \A i \in 1..Len(rows) : rows[i].stage = stage => ~Pending(rows, i)

\* A task with a task.md, readable or not, has a directory.
LEMMA NotAbsent ==
  /\ \A m \in Frontmatter : m # Absent
  /\ Unreadable # Absent
<1>1. \A m \in Frontmatter : m.status # "absent"
  BY DEF Frontmatter, Statuses
<1>2. Absent.status = "absent" /\ Unreadable.status # "absent"
  BY DEF Absent, Unreadable
<1> QED BY <1>1, <1>2

\* The decision of a good plan preserves the invariant of the task that is
\* still where it was, and opens the gate when the plan counts on it.
LEMMA DecisionPreserves ==
  ASSUME NEW m \in Frontmatter, NEW rows \in Seq(RowType), NEW plan, NEW by,
         TaskInvariant(m, rows), GoodDecision(m, rows, plan, by)
  PROVE  LET new == IF plan.decide = "" THEN rows
                    ELSE Decide(rows, m.stage, plan.decide, by) IN
         /\ new \in Seq(RowType)
         /\ TaskInvariant(m, new)
         /\ GateOpens(m, plan) => Settled(new, Here(m))
         /\ GateOpens(m, plan) /\ NeedsApproval(Stages, Here(m))
              => Approved(new, Here(m))
         /\ plan.decide # "" => Settled(new, Here(m))
<1> DEFINE new == IF plan.decide = "" THEN rows
                  ELSE Decide(rows, m.stage, plan.decide, by)
<1>0. /\ RowsAreGated(rows) /\ PendingIsSuffix(rows) /\ RoutedRows(rows)
      /\ PendingAtCurrent(m, rows) /\ NewestPendingIsCurrent(m, rows)
      /\ MergedIsSettled(m, rows) /\ GatesPassedBy(m, rows) /\ AwaitingIsGated(m)
  BY DEF TaskInvariant
<1>1. CASE plan.decide = ""
  <2>1. new = rows  BY <1>1
  <2>2. GateOpens(m, plan) => Settled(rows, Here(m))
    <3>1. CASE ~NeedsApproval(Stages, Here(m))
      BY <1>0, <3>1 DEF RowsAreGated, Settled
    <3>2. CASE m.status = "merged"
      <4>1. Here(m) = "merge"
        BY <1>0, <3>2 DEF MergedIsSettled, Here, Current, NoStage
      <4> QED BY <1>0, <3>2, <4>1 DEF MergedIsSettled, HasPending, Settled
    <3> QED BY <1>1, <3>1, <3>2 DEF GateOpens
  <2>3. GateOpens(m, plan) /\ NeedsApproval(Stages, Here(m)) => Approved(rows, Here(m))
    BY <1>0, <1>1 DEF GateOpens, MergedIsSettled, Here, Current, NoStage
  <2> QED BY <1>1, <2>1, <2>2, <2>3
<1>2. CASE plan.decide # ""
  <2> DEFINE s == m.stage
  <2>1. /\ plan.decide \in {"approved", "rejected"}
        /\ m.status = "awaiting_approval" /\ s # NoStage
        /\ HasPending(rows, s)
        /\ by \in Roles \cup {"webhook"} /\ by \in {RoleFor(s), "admin", "webhook"}
    BY <1>2 DEF GoodDecision
  <2>2. new = Decide(rows, s, plan.decide, by)  BY <1>2
  <2>3. /\ new \in Seq(RowType)
        /\ Len(new) = Len(rows) /\ Len(rows) \in Nat
        /\ \A i \in 1..Len(rows) :
             /\ new[i].stage = rows[i].stage
             /\ new[i].role = rows[i].role
             /\ rows[i].stage = s /\ Pending(rows, i)
                  => new[i].decision = plan.decide /\ new[i].by = by
             /\ ~(rows[i].stage = s /\ Pending(rows, i)) => new[i] = rows[i]
    <3>1. Len(rows) \in Nat  BY LenProperties
    <3>2. UpdateOf(rows, Decide(rows, s, plan.decide, by), s, plan.decide, by)
      BY <2>1, DecideFacts
    <3> HIDE DEF new
    <3> QED BY <2>2, <3>1, <3>2 DEF UpdateOf
  <2>4. Here(m) = s /\ Readable(m) /\ m.status # "merged"
    BY <2>1 DEF Here, Current, Readable, Statuses
  <2> HIDE DEF new
  <2>5. \A i \in 1..Len(new) :
          Pending(new, i) => Pending(rows, i) /\ rows[i].stage # s /\ new[i] = rows[i]
    BY <2>1, <2>3 DEF Pending
  <2>6. RowsAreGated(new)  BY <1>0, <2>3 DEF RowsAreGated
  <2>7. PendingIsSuffix(new)
    <3> SUFFICES ASSUME NEW i \in 1..Len(new), NEW j \in 1..Len(new), i < j,
                        new[i].stage = new[j].stage, Pending(new, i)
                 PROVE  Pending(new, j)
      BY DEF PendingIsSuffix
    <3>1. Pending(rows, i) /\ rows[i].stage # s /\ rows[i].stage = rows[j].stage
      BY <2>3, <2>5
    <3>2. Pending(rows, j)  BY <1>0, <2>3, <3>1 DEF PendingIsSuffix
    <3>3. new[j] = rows[j]  BY <2>3, <3>1
    <3> QED BY <3>2, <3>3 DEF Pending
  <2>8. RoutedRows(new)
    <3> SUFFICES ASSUME NEW i \in 1..Len(new), new[i].decision # ""
                 PROVE  new[i].by \in {new[i].role, "admin", "webhook"}
      BY DEF RoutedRows
    <3>1. CASE rows[i].stage = s /\ Pending(rows, i)
      BY <1>0, <2>1, <2>3, <3>1 DEF RowsAreGated
    <3>2. CASE ~(rows[i].stage = s /\ Pending(rows, i))
      BY <1>0, <2>3, <3>2 DEF RoutedRows
    <3> QED BY <3>1, <3>2
  <2>9. PendingAtCurrent(m, new)
    BY <1>0, <2>3, <2>5 DEF PendingAtCurrent
  <2>10. NewestPendingIsCurrent(m, new)
    BY <1>0, <2>3, <2>5 DEF NewestPendingIsCurrent
  <2>11. MergedIsSettled(m, new)  BY <2>4 DEF MergedIsSettled
  <2>12. GatesPassedBy(m, new)
    <3> SUFFICES ASSUME NEW k \in 1..(StageOf(Stages, Here(m)) - 1),
                        NeedsApproval(Stages, Stages[k].id)
                 PROVE  Approved(new, Stages[k].id)
      BY DEF GatesPassedBy, Here
    <3>1. PICK i \in 1..Len(rows) :
            /\ rows[i].stage = Stages[k].id
            /\ rows[i].decision = "approved"
            /\ \A j \in (i+1)..Len(rows) : rows[j].stage # Stages[k].id
      BY <1>0, <2>4 DEF GatesPassedBy, Here, Approved
    <3>2. new[i] = rows[i]  BY <2>3, <3>1 DEF Pending
    <3>3. \A j \in (i+1)..Len(rows) : j \in 1..Len(rows)  BY <2>3
    <3> QED BY <2>3, <3>1, <3>2, <3>3 DEF Approved
  <2>13. Settled(new, Here(m))
    BY <2>3, <2>4, <2>5 DEF Settled
  <2>14. GateOpens(m, plan) /\ NeedsApproval(Stages, Here(m)) => Approved(new, Here(m))
    <3> SUFFICES ASSUME plan.decide = "approved" PROVE Approved(new, s)
      BY <2>4 DEF GateOpens
    <3> QED BY <1>0, <2>1, <2>2, DecideApproves
  <2>15. TaskInvariant(m, new)
    BY <1>0, <2>6, <2>7, <2>8, <2>9, <2>10, <2>11, <2>12, NotAbsent
    DEF TaskInvariant, NoTaskNoRows
  <2> QED BY <2>3, <2>13, <2>14, <2>15 DEF new
<1> QED BY <1>1, <1>2

\* The positions of a sequence that grew by one element.
LEMMA GrownIndices ==
  ASSUME NEW n \in Nat
  PROVE  /\ \A i \in 1..(n+1) : i \in 1..n \/ i = n + 1
         /\ \A i \in 1..n : i \in 1..(n+1)
         /\ \A i, j \in 1..(n+1) : i < j => i \in 1..n
         /\ \A i \in 1..n : \A j \in (i+1)..(n+1) :
              j = n + 1 \/ (j \in (i+1)..n /\ j \in 1..n)
OBVIOUS

\* Queueing the row a good plan opens preserves the invariant of the task that
\* is still where it was, and leaves the gate behind the task as it was.
LEMMA OpeningPreserves ==
  ASSUME NEW m \in Frontmatter, NEW rows \in Seq(RowType), NEW plan,
         TaskInvariant(m, rows), GoodOpening(m, plan), plan.open # NoStage,
         GateOpens(m, plan) => Settled(rows, Here(m)),
         GateOpens(m, plan) /\ NeedsApproval(Stages, Here(m))
           => Approved(rows, Here(m))
  PROVE  LET new == NewApproval(rows, plan.open) IN
         /\ new \in Seq(RowType)
         /\ TaskInvariant(m, new)
         /\ plan.open # Here(m) =>
              /\ Settled(new, Here(m))
              /\ NeedsApproval(Stages, Here(m)) => Approved(new, Here(m))
<1> DEFINE s == plan.open
           new == NewApproval(rows, s)
           c == Here(m)
<1>0. /\ RowsAreGated(rows) /\ PendingIsSuffix(rows) /\ RoutedRows(rows)
      /\ PendingAtCurrent(m, rows) /\ NewestPendingIsCurrent(m, rows)
      /\ MergedIsSettled(m, rows) /\ GatesPassedBy(m, rows) /\ AwaitingIsGated(m)
  BY DEF TaskInvariant
<1>1. NeedsApproval(Stages, s) /\ s \in StageIds(Stages)
  BY StageFacts DEF GoodOpening
<1>2. s # c =>
        /\ IsTeamReview(Stages, s)
        /\ StageOf(Stages, c) # 0
        /\ StageOf(Stages, s) = StageOf(Stages, c) + 1
        /\ Settled(rows, c)
        /\ NeedsApproval(Stages, c) => Approved(rows, c)
  BY DEF GoodOpening, OneFurther
<1>3. /\ new \in Seq(RowType)
      /\ Len(rows) \in Nat /\ Len(new) = Len(rows) + 1
      /\ \A i \in 1..Len(rows) : new[i] = rows[i]
      /\ new[Len(new)].stage = s /\ new[Len(new)].role = RoleFor(s)
      /\ new[Len(new)].decision = ""
  BY <1>1, NewApprovalFacts, LenProperties
<1> HIDE DEF new
<1>5. /\ \A i \in 1..Len(new) : i \in 1..Len(rows) \/ i = Len(new)
      /\ \A i \in 1..Len(rows) : i \in 1..Len(new)
      /\ \A i, j \in 1..Len(new) : i < j => i \in 1..Len(rows)
      /\ \A i \in 1..Len(rows) : \A j \in (i+1)..Len(new) :
            j = Len(new) \/ (j \in (i+1)..Len(rows) /\ j \in 1..Len(rows))
  BY <1>3, GrownIndices
<1>4. Pending(new, Len(new))  BY <1>3 DEF Pending
\* An approval of another stage stays its newest word.
<1>16. ASSUME NEW other, other # s, Approved(rows, other) PROVE Approved(new, other)
  <2>1. PICK i \in 1..Len(rows) :
          /\ rows[i].stage = other /\ rows[i].decision = "approved"
          /\ \A j \in (i+1)..Len(rows) : rows[j].stage # other
    BY <1>16 DEF Approved
  <2>2. i \in 1..Len(new) /\ new[i] = rows[i]
    BY <1>3, <1>5
  <2>3. ASSUME NEW j \in (i+1)..Len(new) PROVE new[j].stage # other
    <3>1. CASE j = Len(new)  BY <1>3, <1>4, <1>16, <3>1
    <3>2. CASE j # Len(new)
      <4>1. j \in (i+1)..Len(rows) /\ j \in 1..Len(rows)  BY <1>5, <3>2
      <4> QED BY <1>3, <2>1, <4>1
    <3> QED BY <3>1, <3>2
  <2> QED BY <2>1, <2>2, <2>3 DEF Approved
<1>6. RowsAreGated(new)  BY <1>0, <1>1, <1>3, <1>4, <1>5 DEF RowsAreGated
<1>7. PendingIsSuffix(new)
  <2> SUFFICES ASSUME NEW i \in 1..Len(new), NEW j \in 1..Len(new), i < j,
                      new[i].stage = new[j].stage, Pending(new, i)
               PROVE  Pending(new, j)
    BY DEF PendingIsSuffix
  <2>1. CASE j = Len(new)  BY <1>3, <1>4, <1>5, <2>1
  <2>2. CASE j # Len(new)
    <3>1. i \in 1..Len(rows) /\ j \in 1..Len(rows)  BY <1>5, <2>2
    <3> QED BY <1>0, <1>3, <3>1 DEF PendingIsSuffix, Pending
  <2> QED BY <2>1, <2>2
<1>8. RoutedRows(new)
  BY <1>0, <1>3, <1>4, <1>5 DEF RoutedRows
<1>9. PendingAtCurrent(m, new)
  <2> SUFFICES ASSUME Readable(m), NEW i \in 1..Len(new), Pending(new, i),
                      ~IsTeamReview(Stages, new[i].stage)
               PROVE  new[i].stage = c
    BY DEF PendingAtCurrent, Here
  <2>1. CASE i = Len(new)  BY <1>2, <1>3, <1>4, <1>5, <2>1
  <2>2. CASE i \in 1..Len(rows)
    BY <1>0, <1>3, <2>2 DEF PendingAtCurrent, Pending, Here
  <2> QED BY <1>3, <1>4, <1>5, <2>1, <2>2
<1>10. NewestPendingIsCurrent(m, new)
  <2> SUFFICES ASSUME Readable(m), ~IsTeamReview(Stages, c),
                      NEW i \in 1..Len(new), NEW j \in 1..Len(new), i < j,
                      Pending(new, i), new[i].stage = c, Pending(new, j)
               PROVE  new[j].stage = c
    BY DEF NewestPendingIsCurrent, Here
  <2>1. i \in 1..Len(rows)  BY <1>5
  <2>2. CASE j = Len(new)
    <3>1. ~Settled(rows, c)  BY <1>3, <2>1 DEF Settled, Pending
    <3> QED BY <1>2, <1>3, <1>4, <1>5, <2>2, <3>1
  <2>3. CASE j \in 1..Len(rows)
    BY <1>0, <1>3, <2>1, <2>3 DEF NewestPendingIsCurrent, Pending, Here
  <2> QED BY <1>3, <1>4, <1>5, <2>2, <2>3
<1>11. MergedIsSettled(m, new)
  <2> SUFFICES ASSUME m.status = "merged"
               PROVE  m.stage = "merge" /\ ~HasPending(new, "merge") /\ Approved(new, "merge")
    BY DEF MergedIsSettled
  <2>1. m.stage = "merge" /\ ~HasPending(rows, "merge") /\ Approved(rows, "merge")
    BY <1>0 DEF MergedIsSettled
  <2>2. c = "merge"  BY <2>1 DEF Here, Current, NoStage
  <2>3. s # c  BY <1>2, StageFacts DEF GoodOpening, OneFurther
  <2>4. ~HasPending(new, "merge")
    BY <1>3, <1>4, <1>5, <2>1, <2>2, <2>3 DEF HasPending, Pending
  <2> QED BY <1>16, <2>1, <2>2, <2>3, <2>4
<1>12. GatesPassedBy(m, new)
  <2> SUFFICES ASSUME Readable(m), NEW k \in 1..(StageOf(Stages, c) - 1),
                      NeedsApproval(Stages, Stages[k].id)
               PROVE  Approved(new, Stages[k].id)
    BY DEF GatesPassedBy, Here
  <2>1. k \in 1..Len(Stages) /\ StageOf(Stages, c) \in Nat
    BY StageFacts
  <2>2. StageOf(Stages, Stages[k].id) = k  BY <2>1, StageFacts
  <2>3. Stages[k].id # s  BY <1>2, <2>1, <2>2
  <2>4. Approved(rows, Stages[k].id)  BY <1>0 DEF GatesPassedBy, Here
  <2> QED BY <1>16, <2>3, <2>4
<1>13. TaskInvariant(m, new)
  BY <1>0, <1>6, <1>7, <1>8, <1>9, <1>10, <1>11, <1>12, NotAbsent
  DEF TaskInvariant, NoTaskNoRows
<1>15. s # c => Settled(new, c) /\ (NeedsApproval(Stages, c) => Approved(new, c))
  <2> SUFFICES ASSUME s # c
               PROVE  Settled(new, c) /\ (NeedsApproval(Stages, c) => Approved(new, c))
    OBVIOUS
  <2>1. Settled(new, c)  BY <1>2, <1>3, <1>4, <1>5 DEF Settled, Pending
  <2> QED BY <1>2, <1>16, <2>1
<1> QED BY <1>3, <1>13, <1>15 DEF new

\* Writing the frontmatter of a good plan, once its rows are in place.
LEMMA MetaPreserves ==
  ASSUME NEW m \in Frontmatter, NEW rows \in Seq(RowType), NEW plan,
         TaskInvariant(m, rows), GoodMeta(m, plan),
         plan.open = Here(m) => Here(plan.meta) = Here(m),
         GateOpens(m, plan) /\ plan.open # Here(m) =>
           /\ Settled(rows, Here(m))
           /\ NeedsApproval(Stages, Here(m)) => Approved(rows, Here(m)),
         plan.decide = "rejected" /\ plan.open # Here(m) => Settled(rows, Here(m)),
         plan.meta.status = "merged" =>
           Settled(rows, "merge") /\ Approved(rows, "merge")
  PROVE  TaskInvariant(plan.meta, rows)
<1> DEFINE new == plan.meta
           c == Here(m)
           d == Here(plan.meta)
<1>0. /\ RowsAreGated(rows) /\ PendingIsSuffix(rows) /\ RoutedRows(rows)
      /\ PendingAtCurrent(m, rows) /\ NewestPendingIsCurrent(m, rows)
      /\ MergedIsSettled(m, rows) /\ GatesPassedBy(m, rows) /\ AwaitingIsGated(m)
  BY DEF TaskInvariant
<1>1. Readable(m) /\ Readable(new) /\ AwaitingIsGated(new)
  BY DEF GoodMeta, Readable, Frontmatter
<1>2. d # c => /\ Settled(rows, c)
               /\ \/ /\ OneFurther(m, d)
                     /\ NeedsApproval(Stages, c) => Approved(rows, c)
                  \/ StageOf(Stages, d) \in 0..StageOf(Stages, c)
  BY DEF GoodMeta
<1>3. ASSUME NEW i \in 1..Len(rows), Pending(rows, i),
             ~IsTeamReview(Stages, rows[i].stage)
      PROVE  rows[i].stage = c /\ d = c
  <2>1. rows[i].stage = c
    BY <1>0, <1>1, <1>3 DEF PendingAtCurrent, Here
  <2>2. ~Settled(rows, c)  BY <1>3, <2>1 DEF Settled
  <2> QED BY <1>2, <2>1, <2>2
<1>4. PendingAtCurrent(new, rows)
  BY <1>3 DEF PendingAtCurrent, Here
<1>5. NewestPendingIsCurrent(new, rows)
  <2> SUFFICES ASSUME ~IsTeamReview(Stages, d),
                      NEW i \in 1..Len(rows), NEW j \in 1..Len(rows), i < j,
                      Pending(rows, i), rows[i].stage = d, Pending(rows, j)
               PROVE  rows[j].stage = d
    BY DEF NewestPendingIsCurrent, Here
  <2>1. d = c  BY <1>3
  <2> QED BY <1>0, <1>1, <2>1 DEF NewestPendingIsCurrent, Here
<1>6. MergedIsSettled(new, rows)
  BY DEF MergedIsSettled, GoodMeta, HasPending, Settled
<1>7. GatesPassedBy(new, rows)
  <2> SUFFICES ASSUME NEW k \in 1..(StageOf(Stages, d) - 1),
                      NeedsApproval(Stages, Stages[k].id)
               PROVE  Approved(rows, Stages[k].id)
    BY DEF GatesPassedBy, Here
  <2>1. /\ StageOf(Stages, c) \in 0..Len(Stages) /\ StageOf(Stages, d) \in 0..Len(Stages)
        /\ Len(Stages) \in Nat
    BY StageFacts
  <2>2. CASE k \in 1..(StageOf(Stages, c) - 1)
    BY <1>0, <1>1, <2>2 DEF GatesPassedBy, Here
  <2>3. CASE k \notin 1..(StageOf(Stages, c) - 1)
    <3>1. d # c /\ ~(StageOf(Stages, d) \in 0..StageOf(Stages, c))
      BY <2>1, <2>3
    <3>2. /\ StageOf(Stages, c) # 0 /\ StageOf(Stages, d) = StageOf(Stages, c) + 1
          /\ NeedsApproval(Stages, c) => Approved(rows, c)
      BY <1>2, <3>1 DEF OneFurther
    <3>3. k = StageOf(Stages, c)  BY <2>1, <2>3, <3>2
    <3>4. Stages[k].id = c  BY <3>2, <3>3, StageFacts DEF Known
    <3> QED BY <3>2, <3>4
  <2> QED BY <2>2, <2>3
<1> QED BY <1>0, <1>1, <1>4, <1>5, <1>6, <1>7, NotAbsent
    DEF TaskInvariant, NoTaskNoRows, GoodMeta

\* Every prefix of a good plan preserves the invariant of its task.
LEMMA PlanPreserves ==
  ASSUME NEW m \in Frontmatter, NEW rows \in Seq(RowType), NEW plan, NEW by,
         TaskInvariant(m, rows), GoodPlan(m, rows, plan, by),
         NEW reached \in Decided..Written
  PROVE  LET new == RowsAfter(rows, m, plan, by, reached) IN
         /\ new \in Seq(RowType)
         /\ FileAfter(m, plan, reached) \in Frontmatter \cup {Unreadable}
         /\ TaskInvariant(FileAfter(m, plan, reached), new)
<1> DEFINE made == IF plan.decide = "" THEN rows
                   ELSE Decide(rows, m.stage, plan.decide, by)
           new == RowsAfter(rows, m, plan, by, reached)
<1>0. GoodDecision(m, rows, plan, by) /\ GoodOpening(m, plan) /\ GoodMeta(m, plan)
  BY DEF GoodPlan
<1>1. /\ made \in Seq(RowType) /\ TaskInvariant(m, made)
      /\ GateOpens(m, plan) => Settled(made, Here(m))
      /\ GateOpens(m, plan) /\ NeedsApproval(Stages, Here(m)) => Approved(made, Here(m))
      /\ plan.decide # "" => Settled(made, Here(m))
  BY <1>0, DecisionPreserves
<1>2. new = IF plan.open = NoStage \/ reached < Opened THEN made
            ELSE NewApproval(made, plan.open)
  BY DEF RowsAfter
<1> HIDE DEF made, new
<1>3. plan.open # NoStage =>
        LET opened == NewApproval(made, plan.open) IN
        /\ opened \in Seq(RowType) /\ TaskInvariant(m, opened)
        /\ plan.open # Here(m) =>
             /\ Settled(opened, Here(m))
             /\ NeedsApproval(Stages, Here(m)) => Approved(opened, Here(m))
  BY <1>0, <1>1, OpeningPreserves
<1>4. new \in Seq(RowType) /\ TaskInvariant(m, new)
  BY <1>1, <1>2, <1>3
<1>5. CASE reached < Truncated
  BY <1>4, <1>5 DEF FileAfter, new
<1>6. CASE reached = Truncated
  <2>1. FileAfter(m, plan, reached) = Unreadable
    BY <1>6 DEF FileAfter, Truncated
  <2>2. TaskInvariant(Unreadable, new)
    BY <1>4, NotAbsent
    DEF TaskInvariant, NoTaskNoRows, PendingAtCurrent, NewestPendingIsCurrent,
        MergedIsSettled, GatesPassedBy, AwaitingIsGated, Unreadable, Readable, Statuses
  <2> QED BY <1>4, <2>1, <2>2 DEF new
<1>7. CASE reached > Truncated
  <2>1. FileAfter(m, plan, reached) = plan.meta /\ ~(reached < Opened)
    BY <1>7 DEF FileAfter, Truncated, Opened
  <2>2. GateOpens(m, plan) /\ plan.open # Here(m) =>
          /\ Settled(new, Here(m))
          /\ NeedsApproval(Stages, Here(m)) => Approved(new, Here(m))
    BY <1>1, <1>2, <1>3, <2>1
  <2>3. plan.open = Here(m) => Here(plan.meta) = Here(m)
    <3>1. Here(m) # NoStage
      <4>1. 1 \in 1..Len(Stages)  BY StageFacts
      <4>2. First(Stages) # NoStage  BY <4>1, StagesAssumption DEF First
      <4> QED BY <4>2 DEF Here, Current
    <3>2. plan.open = Here(m) => ~OneFurther(m, plan.open)
      BY StageFacts DEF OneFurther
    <3> QED BY <1>0, <3>1, <3>2 DEF GoodOpening
  <2>4. plan.decide = "rejected" /\ plan.open # Here(m) => Settled(new, Here(m))
    BY <1>1, <1>2, <1>3, <2>1
  <2>5. plan.meta.status = "merged" =>
          Settled(new, "merge") /\ Approved(new, "merge")
    <3> SUFFICES ASSUME plan.meta.status = "merged"
                 PROVE  Settled(new, "merge") /\ Approved(new, "merge")
      OBVIOUS
    <3>1. m.stage = "merge" /\ plan.decide = "approved" /\ plan.open = NoStage
      BY <1>0 DEF GoodMeta
    <3>2. Here(m) = "merge" /\ GateOpens(m, plan)
      BY <3>1 DEF Here, Current, NoStage, GateOpens
    <3>3. NeedsApproval(Stages, "merge")
      BY <1>0, <3>1 DEF GoodDecision, TaskInvariant, AwaitingIsGated
    <3> QED BY <1>1, <1>2, <3>1, <3>2, <3>3
  <2>6. plan.meta \in Frontmatter  BY <1>0 DEF GoodMeta
  <2>7. TaskInvariant(plan.meta, new)
    BY <1>0, <1>4, <2>2, <2>3, <2>4, <2>5, MetaPreserves
  <2> QED BY <1>4, <2>1, <2>6, <2>7 DEF new
<1> QED BY <1>5, <1>6, <1>7 DEF Decided, Written, Truncated

-----------------------------------------------------------------------------
(* The plans the engine makes are good. *)

LEMMA EnterNextDecidesNothing ==
  ASSUME NEW m, NEW next
  PROVE  LET plan == EnterNext(Stages, m, next) IN
         plan.decide = "" /\ plan.ok /\ plan.commits
<1>1. CASE next = NoStage
  BY <1>1 DEF EnterNext, Commit
<1>2. CASE next # NoStage /\ IsTeamReview(Stages, next)
  BY <1>2 DEF EnterNext, Commit
<1>3. CASE next # NoStage /\ ~IsTeamReview(Stages, next)
  BY <1>3 DEF EnterNext, Commit
<1> QED BY <1>1, <1>2, <1>3

\* Entering the next stage of a task whose gate is open.
LEMMA EnterNextIsGood ==
  ASSUME NEW m \in Frontmatter, NEW at \in Frontmatter, NEW base, NEW plan,
         Here(at) = Here(m), Known(Stages, Here(m)), at.status # "merged" \/ at = m,
         base = EnterNext(Stages, at, NextStage(Stages, Here(m))),
         plan.open = base.open, plan.meta = base.meta, GateOpens(m, plan)
  PROVE  GoodOpening(m, plan) /\ GoodMeta(m, plan)
<1> DEFINE next == NextStage(Stages, Here(m))
<1>1. \/ next = NoStage
      \/ /\ next \in StageIds(Stages) /\ next # NoStage
         /\ StageOf(Stages, next) = StageOf(Stages, Here(m)) + 1
  BY NextStageFacts
<1>2. StageOf(Stages, Here(m)) # 0  BY DEF Known
<1> HIDE DEF next
<1>3. CASE next = NoStage
  <2>1. plan.open = NoStage /\ plan.meta = [at EXCEPT !.status = "delivered"]
    BY <1>3 DEF EnterNext, Commit, next
  <2>2. /\ plan.meta \in Frontmatter /\ plan.meta.stage = at.stage
        /\ plan.meta.status = "delivered"
    BY <2>1 DEF Frontmatter, Statuses
  <2>3. Here(plan.meta) = Here(m)  BY <2>2 DEF Here, Current
  <2> QED BY <2>1, <2>2, <2>3 DEF GoodOpening, GoodMeta, AwaitingIsGated
<1>4. CASE next # NoStage /\ IsTeamReview(Stages, next)
  <2>1. /\ plan.open = next
        /\ plan.meta = [at EXCEPT !.stage = next, !.status = "awaiting_approval"]
    BY <1>4 DEF EnterNext, Commit, next
  <2>2. /\ plan.meta \in Frontmatter /\ plan.meta.stage = next
        /\ plan.meta.status = "awaiting_approval"
    BY <1>1, <1>4, <2>1 DEF Frontmatter, Statuses, StageNames
  <2>3. Here(plan.meta) = next  BY <1>4, <2>2 DEF Here, Current
  <2>4. NeedsApproval(Stages, next)  BY <1>4, StageFacts
  <2> QED BY <1>1, <1>2, <1>4, <2>1, <2>2, <2>3, <2>4
          DEF GoodOpening, GoodMeta, AwaitingIsGated, OneFurther
<1>5. CASE next # NoStage /\ ~IsTeamReview(Stages, next)
  <2>1. /\ plan.open = NoStage
        /\ plan.meta = [at EXCEPT !.stage = next, !.status = "running"]
    BY <1>5 DEF EnterNext, Commit, next
  <2>2. /\ plan.meta \in Frontmatter /\ plan.meta.stage = next
        /\ plan.meta.status = "running"
    BY <1>1, <1>5, <2>1 DEF Frontmatter, Statuses, StageNames
  <2>3. Here(plan.meta) = next  BY <1>5, <2>2 DEF Here, Current
  <2> QED BY <1>1, <1>2, <1>5, <2>1, <2>2, <2>3
          DEF GoodOpening, GoodMeta, AwaitingIsGated, OneFurther
<1> QED BY <1>3, <1>4, <1>5

\* A plan that only commits, at the stage where the task is.
LEMMA CommitIsGood ==
  ASSUME NEW m \in Frontmatter, NEW rows, NEW meta \in Frontmatter, NEW by,
         Here(meta) = Here(m), meta.status \notin {"merged", "awaiting_approval"}
  PROVE  GoodPlan(m, rows, Commit(meta), by)
BY DEF GoodPlan, GoodDecision, GoodOpening, GoodMeta, Commit, AwaitingIsGated

LEMMA AdvanceIsGood ==
  ASSUME NEW m \in Frontmatter, NEW rows \in Seq(RowType), NEW basis \in BOOLEAN,
         m.status \in {"pending", "running"}, NEW by,
         AdvancePlan(Stages, m, KBMode, basis).ok
  PROVE  GoodPlan(m, rows, AdvancePlan(Stages, m, KBMode, basis), by)
<1> DEFINE at == [m EXCEPT !.stage = Current(Stages, m)]
           plan == AdvancePlan(Stages, m, KBMode, basis)
<1>1. First(Stages) \in StageIds(Stages) /\ First(Stages) # NoStage
  <2>1. 1 \in 1..Len(Stages)  BY StageFacts
  <2> QED BY <2>1, StagesAssumption DEF First, StageIds
<1>2. /\ at \in Frontmatter /\ at.stage = Here(m) /\ Here(at) = Here(m)
      /\ at.status = m.status /\ Here(m) # NoStage
  BY <1>1 DEF Frontmatter, Here, Current, StageNames
<1>3. CASE ~Grounded(KBMode, basis)
  <2>1. plan = Commit([m EXCEPT !.status = "paused"])  BY <1>3 DEF AdvancePlan
  <2>2. LET new == [m EXCEPT !.status = "paused"] IN
        new \in Frontmatter /\ Here(new) = Here(m) /\ new.status = "paused"
    BY DEF Frontmatter, Statuses, Here, Current
  <2> QED BY <2>1, <2>2, CommitIsGood
<1>4. CASE Grounded(KBMode, basis) /\ IsLast(Stages, at.stage)
  <2> DEFINE new == [at EXCEPT !.status = "delivered"]
  <2>1. plan = Commit(new)  BY <1>4 DEF AdvancePlan
  <2>2. new \in Frontmatter /\ Here(new) = Here(m) /\ new.status = "delivered"
    BY <1>2 DEF Frontmatter, Statuses, Here, Current
  <2>3. GoodPlan(m, rows, Commit(new), by)
    <3> HIDE DEF new
    <3> QED BY <2>2, CommitIsGood
  <2> QED BY <2>1, <2>3
<1>5. CASE /\ Grounded(KBMode, basis) /\ ~IsLast(Stages, at.stage)
           /\ NeedsApproval(Stages, at.stage)
  <2> DEFINE new == [at EXCEPT !.status = "awaiting_approval"]
  <2>1. plan = [Commit(new) EXCEPT !.open = at.stage]  BY <1>5 DEF AdvancePlan
  <2>2. plan.open = Here(m) /\ plan.decide = "" /\ plan.meta = new
    BY <1>2, <2>1 DEF Commit
  <2>3. /\ new \in Frontmatter /\ new.stage = Here(m) /\ Here(new) = Here(m)
        /\ new.status = "awaiting_approval"
    BY <1>2 DEF Frontmatter, Statuses, Here, Current
  <2>4. GoodPlan(m, rows, plan, by)
    <3> HIDE DEF plan, new
    <3> QED BY <1>2, <1>5, <2>2, <2>3
            DEF GoodPlan, GoodDecision, GoodOpening, GoodMeta, AwaitingIsGated
  <2> QED BY <2>4
<1>6. CASE /\ Grounded(KBMode, basis) /\ ~IsLast(Stages, at.stage)
           /\ ~NeedsApproval(Stages, at.stage)
  <2>1. Known(Stages, at.stage)  BY <1>6 DEF AdvancePlan, Refused
  <2>2. plan = EnterNext(Stages, at, NextStage(Stages, Here(m)))
    BY <1>2, <1>6, <2>1 DEF AdvancePlan
  <2>3. GateOpens(m, plan)  BY <1>2, <1>6 DEF GateOpens
  <2>4. GoodOpening(m, plan) /\ GoodMeta(m, plan)
    BY <1>2, <2>1, <2>2, <2>3, EnterNextIsGood
  <2>5. plan.decide = ""
    <3> HIDE DEF plan
    <3> QED BY <2>2, EnterNextDecidesNothing
  <2>6. GoodPlan(m, rows, plan, by)
    <3> HIDE DEF plan
    <3> QED BY <2>4, <2>5 DEF GoodPlan, GoodDecision
  <2> QED BY <2>6
<1> QED BY <1>3, <1>4, <1>5, <1>6

\* The role check looks at the newest undecided row and Decide at the rows of
\* the current stage, and yet whoever passes the check has the stage's role.
LEMMA WebUserIsRouted ==
  ASSUME NEW m \in Frontmatter, NEW rows \in Seq(RowType), NEW user,
         TaskInvariant(m, rows), WebDecidable(Stages, m),
         HasPending(rows, m.stage), CanDecide(user, ApprovalRoleOf(rows))
  PROVE  user \in {RoleFor(m.stage), "admin", "webhook"}
<1>0. RowsAreGated(rows) /\ NewestPendingIsCurrent(m, rows) /\ AwaitingIsGated(m)
  BY DEF TaskInvariant
<1>1. /\ m.status = "awaiting_approval" /\ ~IsTeamReview(Stages, m.stage)
      /\ Readable(m) /\ m.stage # NoStage
  BY <1>0, StageFacts DEF WebDecidable, Readable, Statuses, AwaitingIsGated
<1>2. Here(m) = m.stage  BY <1>1 DEF Here, Current
<1>3. PICK i \in 1..Len(rows) : rows[i].stage = m.stage /\ Pending(rows, i)
  BY DEF HasPending
<1>4. PICK k \in 1..Len(rows) :
        i <= k /\ Pending(rows, k) /\ ApprovalRoleOf(rows) = rows[k].role
  BY <1>3, NewestPending
<1>5. rows[k].stage = m.stage
  <2>1. CASE i = k  BY <1>3, <2>1
  <2>2. CASE i < k
    BY <1>0, <1>1, <1>2, <1>3, <1>4, <2>2 DEF NewestPendingIsCurrent, Here
  <2> QED BY <1>4, <2>1, <2>2, LenProperties
<1>6. ApprovalRoleOf(rows) = RoleFor(m.stage)
  BY <1>0, <1>4, <1>5 DEF RowsAreGated
<1>7. RoleFor(m.stage) # ""  BY DEF RoleFor
<1> QED BY <1>6, <1>7 DEF CanDecide

LEMMA ApproveIsGood ==
  ASSUME NEW m \in Frontmatter, NEW rows \in Seq(RowType), NEW user \in Roles,
         TaskInvariant(m, rows), CanDecide(user, ApprovalRoleOf(rows)),
         ApprovePlan(Stages, m).ok, HasPending(rows, m.stage)
  PROVE  GoodPlan(m, rows, ApprovePlan(Stages, m), user)
<1> DEFINE plan == ApprovePlan(Stages, m)
<1>1. WebDecidable(Stages, m)  BY DEF ApprovePlan, Refused
<1>2. user \in {RoleFor(m.stage), "admin", "webhook"}
  BY <1>1, WebUserIsRouted
<1>3. m.status = "awaiting_approval" /\ NeedsApproval(Stages, m.stage)
  BY <1>1 DEF WebDecidable, TaskInvariant, AwaitingIsGated
<1>4. Known(Stages, m.stage) /\ m.stage # NoStage /\ Here(m) = m.stage
  BY <1>3, StageFacts DEF Here, Current
<1> DEFINE base == EnterNext(Stages, m, NextStage(Stages, Here(m)))
<1>5. plan = [base EXCEPT !.decide = "approved"]
  BY <1>1, <1>4 DEF ApprovePlan
<1>6. plan.decide = "approved" /\ plan.open = base.open /\ plan.meta = base.meta
  BY <1>5 DEF EnterNext, Commit
<1> HIDE DEF plan, base
<1>7. GoodDecision(m, rows, plan, user)
  BY <1>2, <1>3, <1>4, <1>6 DEF GoodDecision
<1>8. GateOpens(m, plan)  BY <1>6 DEF GateOpens
<1>9. GoodOpening(m, plan) /\ GoodMeta(m, plan)
  BY <1>4, <1>6, <1>8, EnterNextIsGood DEF base
<1> QED BY <1>7, <1>9 DEF GoodPlan, plan

LEMMA RejectIsGood ==
  ASSUME NEW m \in Frontmatter, NEW rows \in Seq(RowType), NEW user \in Roles,
         TaskInvariant(m, rows), CanDecide(user, ApprovalRoleOf(rows)),
         RejectPlan(Stages, m).ok, HasPending(rows, m.stage)
  PROVE  GoodPlan(m, rows, RejectPlan(Stages, m), user)
<1> DEFINE plan == RejectPlan(Stages, m)
           target == RejectTarget(Stages, m.stage)
           meta == [m EXCEPT !.stage = target, !.status = "running"]
<1>1. WebDecidable(Stages, m)  BY DEF RejectPlan, Refused
<1>2. user \in {RoleFor(m.stage), "admin", "webhook"}
  BY <1>1, WebUserIsRouted
<1>3. m.status = "awaiting_approval" /\ NeedsApproval(Stages, m.stage)
  BY <1>1 DEF WebDecidable, TaskInvariant, AwaitingIsGated
<1>4. Known(Stages, m.stage) /\ m.stage # NoStage /\ Here(m) = m.stage
  BY <1>3, StageFacts DEF Here, Current
<1>5. /\ target \in StageNames /\ target # NoStage
      /\ StageOf(Stages, target) \in 0..StageOf(Stages, m.stage)
  BY <1>4, RejectTargetFacts
<1>6. plan.decide = "rejected" /\ plan.open = NoStage /\ plan.meta = meta
  BY <1>1 DEF RejectPlan, Commit
<1>7. /\ meta \in Frontmatter /\ meta.status = "running" /\ Here(meta) = target
  BY <1>5 DEF Frontmatter, Statuses, Here, Current
<1> HIDE DEF plan, meta, target
<1>8. GoodDecision(m, rows, plan, user)
  BY <1>2, <1>3, <1>4, <1>6 DEF GoodDecision
<1>9. GoodOpening(m, plan) /\ GoodMeta(m, plan)
  BY <1>4, <1>5, <1>6, <1>7 DEF GoodOpening, GoodMeta, AwaitingIsGated
<1> QED BY <1>8, <1>9 DEF GoodPlan, plan

LEMMA MarkMergedIsGood ==
  ASSUME NEW m \in Frontmatter, NEW rows \in Seq(RowType),
         MarkMergedPlan(m).ok, HasPending(rows, m.stage)
  PROVE  GoodPlan(m, rows, MarkMergedPlan(m), "webhook")
<1> DEFINE plan == MarkMergedPlan(m)
           meta == [m EXCEPT !.status = "merged"]
<1>1. m.stage = "merge" /\ m.status = "awaiting_approval"
  BY DEF MarkMergedPlan, Refused
<1>2. plan.decide = "approved" /\ plan.open = NoStage /\ plan.meta = meta
  BY <1>1 DEF MarkMergedPlan, Commit
<1>3. /\ meta \in Frontmatter /\ meta.status = "merged" /\ meta.stage = "merge"
      /\ Here(meta) = Here(m)
  BY <1>1 DEF Frontmatter, Statuses, Here, Current
<1> HIDE DEF plan, meta
<1>4. GoodDecision(m, rows, plan, "webhook")
  BY <1>1, <1>2 DEF GoodDecision, NoStage
<1>5. GoodOpening(m, plan) /\ GoodMeta(m, plan)
  BY <1>1, <1>2, <1>3 DEF GoodOpening, GoodMeta, AwaitingIsGated
<1> QED BY <1>4, <1>5 DEF GoodPlan, plan

LEMMA DeliverIsGood ==
  ASSUME NEW m \in Frontmatter, NEW rows \in Seq(RowType), NEW by,
         DeliverPlan(Stages, m).ok
  PROVE  GoodPlan(m, rows, DeliverPlan(Stages, m), by)
<1> DEFINE plan == DeliverPlan(Stages, m)
<1>1. m.stage = "merge" /\ m.status = "merged" /\ Known(Stages, m.stage)
  BY DEF DeliverPlan, Refused
<1>2. Here(m) = m.stage  BY <1>1 DEF Here, Current, NoStage
<1>3. plan = EnterNext(Stages, m, NextStage(Stages, Here(m)))
  BY <1>1, <1>2 DEF DeliverPlan
<1> HIDE DEF plan
<1>4. GateOpens(m, plan)  BY <1>1 DEF GateOpens
<1>5. GoodOpening(m, plan) /\ GoodMeta(m, plan)
  BY <1>1, <1>2, <1>3, <1>4, EnterNextIsGood
<1>6. plan.decide = ""  BY <1>3, EnterNextDecidesNothing
<1> QED BY <1>5, <1>6 DEF GoodPlan, GoodDecision, plan

\* The four calls that change only the status or the archived flag.
LEMMA StatusChangesAreGood ==
  ASSUME NEW m \in Frontmatter, NEW rows, NEW by
  PROVE  /\ PausePlan(m).ok => GoodPlan(m, rows, PausePlan(m), by)
         /\ ResumePlan(m).ok => GoodPlan(m, rows, ResumePlan(m), by)
         /\ ArchivePlan(m).ok => GoodPlan(m, rows, ArchivePlan(m), by)
         /\ RecoverPlan(m).ok => GoodPlan(m, rows, RecoverPlan(m), by)
<1> DEFINE paused == [m EXCEPT !.status = "paused"]
           resumed == [m EXCEPT !.status = "running"]
           archived == [m EXCEPT !.archived = TRUE]
<1>1. /\ paused \in Frontmatter /\ Here(paused) = Here(m) /\ paused.status = "paused"
      /\ resumed \in Frontmatter /\ Here(resumed) = Here(m) /\ resumed.status = "running"
  BY DEF Frontmatter, Statuses, Here, Current
<1>2. archived \in Frontmatter /\ Here(archived) = Here(m) /\ archived.status = m.status
  BY DEF Frontmatter, Here, Current
<1>3. /\ PausePlan(m).ok => PausePlan(m) = Commit(paused)
      /\ ResumePlan(m).ok => ResumePlan(m) = Commit(resumed)
      /\ ArchivePlan(m).ok => ArchivePlan(m) = Commit(archived) /\ m.status = "delivered"
      /\ RecoverPlan(m).ok => RecoverPlan(m) = Commit(paused)
  BY DEF PausePlan, ResumePlan, ArchivePlan, RecoverPlan, Refused
<1> HIDE DEF paused, resumed, archived
<1>4. /\ GoodPlan(m, rows, Commit(paused), by)
      /\ GoodPlan(m, rows, Commit(resumed), by)
      /\ archived.status = "delivered" => GoodPlan(m, rows, Commit(archived), by)
  BY <1>1, <1>2, CommitIsGood
<1> QED BY <1>2, <1>3, <1>4

-----------------------------------------------------------------------------
(* Every step of the specification carries out a good plan. *)

\* What all the handlers but CreateTask do to one task.
LEMMA PerformPreserves ==
  ASSUME IndInv, NEW t \in Tasks, Readable(task[t]), NEW plan, NEW by,
         Perform(t, plan, by),
         HasPending(approval[t], task[t].stage) \/ plan.decide = "" =>
           GoodPlan(task[t], approval[t], plan, by)
  PROVE  IndInv'
<1> DEFINE m == task[t]
           rows == approval[t]
<1>1. /\ task \in [Tasks -> Frontmatter \cup {Absent, Unreadable}]
      /\ approval \in [Tasks -> Seq(RowType)]
      /\ broken \in [Tasks -> BOOLEAN]
      /\ \A u \in Tasks : TaskInvariant(task[u], approval[u])
  BY DEF IndInv, TypeOK
<1>2. m \in Frontmatter /\ rows \in Seq(RowType) /\ TaskInvariant(m, rows)
  <2>1. task[t] \in Frontmatter \cup {Absent, Unreadable}  BY <1>1
  <2>2. ~Readable(Absent) /\ ~Readable(Unreadable)
    BY DEF Readable, Absent, Unreadable, Statuses
  <2>3. task[t] # Absent /\ task[t] # Unreadable  BY <2>2
  <2>4. task[t] \in Frontmatter  BY <2>1, <2>3
  <2> QED BY <1>1, <2>4
<1>3. GoodPlan(m, rows, plan, by)
  BY DEF Perform
<1>4. PICK reached \in Decided..Written :
        /\ approval' = [approval EXCEPT ![t] = RowsAfter(rows, m, plan, by, reached)]
        /\ task' = [task EXCEPT ![t] = FileAfter(m, plan, reached)]
        /\ broken' = [broken EXCEPT ![t] = broken[t] \/ reached # Written]
  BY DEF Perform
<1>5. /\ RowsAfter(rows, m, plan, by, reached) \in Seq(RowType)
      /\ FileAfter(m, plan, reached) \in Frontmatter \cup {Unreadable}
      /\ TaskInvariant(FileAfter(m, plan, reached), RowsAfter(rows, m, plan, by, reached))
  BY <1>2, <1>3, PlanPreserves
<1> HIDE DEF m, rows
<1>6. /\ task' \in [Tasks -> Frontmatter \cup {Absent, Unreadable}]
      /\ approval' \in [Tasks -> Seq(RowType)]
  BY <1>1, <1>4, <1>5
<1>7. broken' \in [Tasks -> BOOLEAN]  BY <1>1, <1>4
<1>8. ASSUME NEW u \in Tasks PROVE TaskInvariant(task'[u], approval'[u])
  <2>1. CASE u = t
    <3>1. /\ task'[t] = FileAfter(m, plan, reached)
          /\ approval'[t] = RowsAfter(rows, m, plan, by, reached)
      BY <1>1, <1>4
    <3> QED BY <1>5, <2>1, <3>1
  <2>2. CASE u # t
    <3>1. task'[u] = task[u] /\ approval'[u] = approval[u]
      BY <1>1, <1>4, <2>2
    <3> QED BY <1>1, <3>1
  <2> QED BY <2>1, <2>2
<1> QED BY <1>6, <1>7, <1>8 DEF IndInv, TypeOK

LEMMA InitEstablishes == Init => IndInv
<1> SUFFICES ASSUME Init PROVE IndInv  OBVIOUS
<1>1. << >> \in Seq(RowType) /\ Len(<< >>) = 0  BY EmptySeq
<1>2. TypeOK  BY <1>1 DEF Init, TypeOK
<1>3. TaskInvariant(Absent, << >>)
  BY <1>1 DEF TaskInvariant, NoTaskNoRows, RowsAreGated, PendingIsSuffix, RoutedRows, PendingAtCurrent,
              NewestPendingIsCurrent, MergedIsSettled, GatesPassedBy, AwaitingIsGated,
              Absent, Readable, Statuses
<1> QED BY <1>2, <1>3 DEF Init, IndInv

LEMMA NextPreserves == IndInv /\ [Next]_vars => IndInv'
<1> SUFFICES ASSUME IndInv, [Next]_vars PROVE IndInv'  OBVIOUS
<1>1. CASE UNCHANGED vars
  BY <1>1 DEF vars, IndInv, TypeOK
<1>0. /\ task \in [Tasks -> Frontmatter \cup {Absent, Unreadable}]
      /\ approval \in [Tasks -> Seq(RowType)] /\ broken \in [Tasks -> BOOLEAN]
      /\ \A u \in Tasks : TaskInvariant(task[u], approval[u])
  BY DEF IndInv, TypeOK
<1>2. ASSUME NEW t \in Tasks, CreateTask(t) PROVE IndInv'
  <2>1. PICK m \in {Fresh, Unreadable} : task' = [task EXCEPT ![t] = m]
    BY <1>2 DEF CreateTask
  <2>2. approval' = approval /\ broken' = broken /\ task[t] = Absent
    BY <1>2 DEF CreateTask
  <2>3. approval[t] = << >>
    BY <1>0, <2>2 DEF TaskInvariant, NoTaskNoRows
  <2>4. m \in Frontmatter \cup {Unreadable} /\ m.status \in {"pending", "unreadable"}
    <3>1. Fresh \in Frontmatter /\ Fresh.status = "pending"
      BY DEF Fresh, Frontmatter, Statuses
    <3>2. Unreadable.status = "unreadable"  BY DEF Unreadable
    <3> QED BY <3>1, <3>2
  <2>5. TypeOK'
    BY <1>0, <2>1, <2>2, <2>4 DEF TypeOK
  <2>6. TaskInvariant(m, << >>)
    <3>1. Len(<< >>) = 0  BY EmptySeq
    <3>2. GatesPassedBy(m, << >>)
      <4>1. CASE m = Unreadable
        BY <4>1 DEF GatesPassedBy, Unreadable, Readable, Statuses
      <4>2. CASE m = Fresh
        <5>1. Current(Stages, m) = First(Stages) /\ 1 \in 1..Len(Stages)
          BY <4>2, StageFacts DEF Current, Fresh
        <5>2. StageOf(Stages, Current(Stages, m)) = 1
          BY <5>1, StageFacts DEF First
        <5> QED BY <5>2 DEF GatesPassedBy
      <4> QED BY <4>1, <4>2
    <3> QED BY <2>4, <3>1, <3>2
            DEF TaskInvariant, NoTaskNoRows, RowsAreGated, PendingIsSuffix, RoutedRows,
                PendingAtCurrent, NewestPendingIsCurrent, MergedIsSettled, AwaitingIsGated
  <2>7. \A u \in Tasks : TaskInvariant(task'[u], approval'[u])
    BY <1>0, <2>1, <2>2, <2>3, <2>6
  <2> QED BY <2>5, <2>7 DEF IndInv
<1>3. ASSUME NEW t \in Tasks, Readable(task[t]) PROVE
        task[t] \in Frontmatter /\ approval[t] \in Seq(RowType)
        /\ TaskInvariant(task[t], approval[t])
  BY <1>0, <1>3 DEF Readable, Absent, Unreadable, Statuses
<1>4. ASSUME NEW t \in Tasks, Advance(t) PROVE IndInv'
  <2>1. PICK basis \in BOOLEAN :
          Perform(t, AdvancePlan(Stages, task[t], KBMode, basis), "agent")
    BY <1>4 DEF Advance
  <2>2. Readable(task[t]) /\ task[t].status \in {"pending", "running"}
    BY <1>4 DEF Advance, Readable, Statuses
  <2>3. AdvancePlan(Stages, task[t], KBMode, basis).ok  BY <2>1 DEF Perform
  <2>4. GoodPlan(task[t], approval[t], AdvancePlan(Stages, task[t], KBMode, basis), "agent")
    BY <1>3, <2>2, <2>3, AdvanceIsGood
  <2> QED BY <2>1, <2>2, <2>4, PerformPreserves
<1>5. ASSUME NEW t \in Tasks, Approve(t) PROVE IndInv'
  <2>1. PICK user \in Roles :
          /\ Readable(task[t])
          /\ CanDecide(user, ApprovalRoleOf(approval[t]))
          /\ Perform(t, ApprovePlan(Stages, task[t]), user)
    BY <1>5 DEF Approve
  <2>2. ApprovePlan(Stages, task[t]).ok  BY <2>1 DEF Perform
  <2>3. ApprovePlan(Stages, task[t]).decide # ""
    BY <2>2 DEF ApprovePlan, Refused
  <2>4. HasPending(approval[t], task[t].stage) =>
          GoodPlan(task[t], approval[t], ApprovePlan(Stages, task[t]), user)
    BY <1>3, <2>1, <2>2, ApproveIsGood
  <2> QED BY <2>1, <2>3, <2>4, PerformPreserves
<1>6. ASSUME NEW t \in Tasks, Reject(t) PROVE IndInv'
  <2>1. PICK user \in Roles :
          /\ Readable(task[t])
          /\ CanDecide(user, ApprovalRoleOf(approval[t]))
          /\ Perform(t, RejectPlan(Stages, task[t]), user)
    BY <1>6 DEF Reject
  <2>2. RejectPlan(Stages, task[t]).ok  BY <2>1 DEF Perform
  <2>3. RejectPlan(Stages, task[t]).decide # ""
    BY <2>2 DEF RejectPlan, Refused, Commit
  <2>4. HasPending(approval[t], task[t].stage) =>
          GoodPlan(task[t], approval[t], RejectPlan(Stages, task[t]), user)
    BY <1>3, <2>1, <2>2, RejectIsGood
  <2> QED BY <2>1, <2>3, <2>4, PerformPreserves
<1>7. ASSUME NEW t \in Tasks, MarkMerged(t) PROVE IndInv'
  <2>1. Readable(task[t]) /\ Perform(t, MarkMergedPlan(task[t]), "webhook")
    BY <1>7 DEF MarkMerged
  <2>2. MarkMergedPlan(task[t]).ok  BY <2>1 DEF Perform
  <2>3. MarkMergedPlan(task[t]).decide # ""
    BY <2>2 DEF MarkMergedPlan, Refused, Commit
  <2>4. HasPending(approval[t], task[t].stage) =>
          GoodPlan(task[t], approval[t], MarkMergedPlan(task[t]), "webhook")
    BY <1>3, <2>1, <2>2, MarkMergedIsGood
  <2> QED BY <2>1, <2>3, <2>4, PerformPreserves
<1>8. ASSUME NEW t \in Tasks, Deliver(t) PROVE IndInv'
  <2>1. Readable(task[t]) /\ Perform(t, DeliverPlan(Stages, task[t]), "human")
    BY <1>8 DEF Deliver
  <2>2. DeliverPlan(Stages, task[t]).ok  BY <2>1 DEF Perform
  <2>3. GoodPlan(task[t], approval[t], DeliverPlan(Stages, task[t]), "human")
    BY <1>3, <2>1, <2>2, DeliverIsGood
  <2> QED BY <2>1, <2>3, PerformPreserves
<1>9. ASSUME NEW t \in Tasks, Readable(task[t]), NEW plan, NEW by,
             plan \in {PausePlan(task[t]), ResumePlan(task[t]), ArchivePlan(task[t]),
                       RecoverPlan(task[t])},
             Perform(t, plan, by)
      PROVE  IndInv'
  <2>1. plan.ok  BY <1>9 DEF Perform
  <2>2. GoodPlan(task[t], approval[t], plan, by)
    BY <1>3, <1>9, <2>1, StatusChangesAreGood
  <2> QED BY <1>9, <2>2, PerformPreserves
<1>10. ASSUME NEW t \in Tasks, Pause(t) \/ Resume(t) \/ Archive(t) \/ RecoverOnBoot(t)
       PROVE  IndInv'
  BY <1>9, <1>10 DEF Pause, Resume, Archive, RecoverOnBoot
<1> QED BY <1>1, <1>2, <1>4, <1>5, <1>6, <1>7, <1>8, <1>10 DEF Next

\* The inductive invariant holds in every reachable state.
THEOREM Invariance == Spec => []IndInv
<1> QED BY InitEstablishes, NextPreserves, PTL DEF Spec

\* Frontmatter, rows and the history flag stay of their types.
THEOREM TypeCorrect == Spec => []TypeOK
<1>1. IndInv => TypeOK  BY DEF IndInv
<1> QED BY <1>1, Invariance, PTL

\* No stage beyond a gate is reached without that gate's approval, however the
\* task was rejected, paused, retried or left half-written on the way.
THEOREM GatesArePassed == Spec => []GatesPassed
<1>1. IndInv => GatesPassed  BY DEF IndInv, TaskInvariant, GatesPassed
<1> QED BY <1>1, Invariance, PTL

\* What waits for a web decision is about the stage its task is at.
THEOREM PendingRowsStayCurrent == Spec => []PendingRowsAreCurrent
<1>1. IndInv => PendingRowsAreCurrent
  BY DEF IndInv, TaskInvariant, PendingRowsAreCurrent
<1> QED BY <1>1, Invariance, PTL

\* Every decision was made by the role its row belongs to, by an admin or by
\* the merge webhook.
THEOREM DecisionsAreRouted == Spec => []RoleRouted
<1>1. IndInv => RoleRouted  BY DEF IndInv, TaskInvariant, RoleRouted
<1> QED BY <1>1, Invariance, PTL

\* A merged task has its merge stage approved and nothing left to decide there.
THEOREM MergedStaysSettled == Spec => []MergedTasksAreSettled
<1>1. IndInv => MergedTasksAreSettled
  BY DEF IndInv, TaskInvariant, MergedTasksAreSettled
<1> QED BY <1>1, Invariance, PTL
=============================================================================
