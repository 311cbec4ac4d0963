------------------------- MODULE HandlersRefinement -------------------------
(***************************************************************************)
(* That the running server of Handlers, as long as requests do not         *)
(* overlap, does what TaskLifecycle says: the state of TaskLifecycle read  *)
(* off the state of the server.                                            *)
(***************************************************************************)
EXTENDS Handlers

Effect == {"open", "read", "truncate", "write"}

\* The goroutines that have begun to change task t.
Changing(t) == {s \in Procs : slot[s].t = t /\ slot[s].pc \in Effect \cup {"fill"}}

\* A call takes effect when its task.md is whole again, or when it ends early:
\* until then the task is as the goroutine read it, and so are its rows.
TaskOf == [t \in Tasks |->
             IF Changing(t) = {} THEN OnDisk(t)
             ELSE slot[CHOOSE s \in Changing(t) : TRUE].m]
RowsOf == [t \in Tasks |->
             IF Changing(t) = {} THEN approval[t]
             ELSE slot[CHOOSE s \in Changing(t) : TRUE].rows]

Serially ==
  INSTANCE TaskLifecycle WITH
    MaxRows <- MaxRows + 2, task <- TaskOf, approval <- RowsOf

\* With one request at a time the server implements TaskLifecycle: every
\* interleaving of a handler with crashes, boot recovery and the watcher
\* amounts to one of its steps.
ImplementsLifecycle == Serially!Spec
=============================================================================
