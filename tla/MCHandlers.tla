----------------------------- MODULE MCHandlers -----------------------------
(* Small instances of Handlers: one task, one or two requests at a time.      *)
EXTENDS HandlersRefinement, TLC

CONSTANTS S1, S2

MCTasks == {"T1"}
OneSlot == {S1}
TwoSlots == {S1, S2}
SlotSymmetry == Permutations(TwoSlots)

\* What the invariants of the concurrent run depend on: handlers never read the
\* index, nor what the watcher is doing.
HandlerView == <<file, torn, approval, slot, server, todo, crashes>>

MCStage(id, approval_, onReject) ==
  [id |-> id, approval |-> approval_, onReject |-> onReject]

\* A web gate that sends back, the merge gate, and the delivery stage.
MCStages ==
  << MCStage("coding",  "auto",           ""),
     MCStage("testing", "required",       "back_to_coding"),
     MCStage("merge",   "team_mr_review", ""),
     MCStage("deliver", "auto",           "") >>

\* The shortest pipeline with a web gate, the merge gate and a delivery.
MCShort ==
  << MCStage("design",  "required",       "retry"),
     MCStage("merge",   "team_mr_review", ""),
     MCStage("deliver", "auto",           "") >>

MCRoles == {"tester", "customer"}
MCDesigner == {"designer"}
MCTwoRoles == {"designer", "customer"}

EveryRefusal == {"decide", "open", "read", "write", "fill", "index"}
NoRefusal == {}
NoTearing == {"route", "decide", "open", "read", "index"}
=============================================================================
