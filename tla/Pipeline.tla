------------------------------ MODULE Pipeline ------------------------------
(***************************************************************************)
(* The stage list of pipeline.yaml and the lookups the engine makes in it. *)
(* A pipeline is a non-empty sequence of stages                            *)
(*     [id, approval, onReject]                                            *)
(* and every operator below takes the pipeline it looks into, because the  *)
(* file is reloaded while the server runs.  Model aliases, circuit-breaker *)
(* settings and the declarative fields of a stage are left out: nothing in *)
(* the engine reads them.                                                  *)
(***************************************************************************)
EXTENDS Naturals, Sequences

\* The empty stage of a fresh task, and the empty result of Next at the end.
NoStage == ""

\* approval: required | auto | team_mr_review; on_reject: retry | back_to_coding
Stage == [id : STRING, approval : STRING, onReject : STRING]

StageIds(p) == {p[i].id : i \in 1..Len(p)}

\* Position of the first stage called id, 0 when there is none.
StageOf(p, id) ==
  IF id \in StageIds(p)
  THEN CHOOSE i \in 1..Len(p) : p[i].id = id /\ \A j \in 1..(i-1) : p[j].id # id
  ELSE 0

Known(p, id) == StageOf(p, id) # 0

First(p) == p[1].id

IsLast(p, id) == p[Len(p)].id = id

\* Only meaningful for a known stage: the code returns an error otherwise.
NextStage(p, id) ==
  IF StageOf(p, id) = Len(p) THEN NoStage ELSE p[StageOf(p, id) + 1].id

Approval(p, id) == IF Known(p, id) THEN p[StageOf(p, id)].approval ELSE ""

IsTeamReview(p, id) == Approval(p, id) = "team_mr_review"

NeedsApproval(p, id) == Approval(p, id) \in {"required", "team_mr_review"}

\* Mutant: the configured word is taken for the name of the stage.
RejectTarget_Word(p, id) ==
  IF Known(p, id) /\ p[StageOf(p, id)].onReject = "back_to_coding"
  THEN "back_to_coding" ELSE id

RejectTarget(p, id) ==
  IF Known(p, id) /\ p[StageOf(p, id)].onReject = "back_to_coding"
  THEN "coding" ELSE id

\* The power-model check made on every load: merge is never automatic.
ValidStages(p) ==
  /\ Len(p) > 0
  /\ \A i \in 1..Len(p) :
       p[i].id = "merge" => p[i].approval \in {"required", "team_mr_review"}
=============================================================================
