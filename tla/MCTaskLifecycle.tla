--------------------------- MODULE MCTaskLifecycle ---------------------------
(* A small instance of TaskLifecycle: the five-stage pipeline of the engine's *)
(* tests with the design gate in front.                                        *)
EXTENDS TaskLifecycle

MCStage(id, approval_, onReject) ==
  [id |-> id, approval |-> approval_, onReject |-> onReject]

MCStages ==
  << MCStage("design",  "required",       "retry"),
     MCStage("coding",  "auto",           ""),
     MCStage("testing", "required",       "back_to_coding"),
     MCStage("merge",   "team_mr_review", ""),
     MCStage("deliver", "auto",           "") >>

MCTasks == {"T1"}
MCRoles == {"designer", "tester", "admin"}

\* The merge stage is the last one.
MCMergeLast ==
  << MCStage("design", "required",       "retry"),
     MCStage("coding", "auto",           ""),
     MCStage("merge",  "team_mr_review", "") >>

=============================================================================
