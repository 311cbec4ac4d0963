------------------------------ MODULE Handlers ------------------------------
(***************************************************************************)
(* The running server: HTTP and webhook handlers, each in its goroutine,   *)
(* boot recovery and the directory watcher, interleaved between any two    *)
(* accesses to shared state.  Nothing locks a task: a handler parses       *)
(* task.md, works on its copy and writes the copy back.  A slot is a       *)
(* goroutine that serves one request after the other; the slot "boot" is   *)
(* RecoverOnBoot, which runs before the server listens.                    *)
(***************************************************************************)
EXTENDS Engine, FiniteSets

CONSTANTS
  Tasks, Stages, Roles, KBMode, MaxRows,   \* as in TaskLifecycle
  Slots,          \* requests in flight at the same time
  MaxCrashes,     \* bound on crashes of the server
  Refusals        \* where the database or the file system may refuse a call:
                  \* a subset of the pc values ("route": the role query),
                  \* "sync" for the upserts of a Sync, the first one's
                  \* included, "boot" for the writes of boot recovery

\* A request is not boot recovery; what may refuse a call; the authn roles.  Of
\* the pipeline: what Load checks, and, not checked by the code, that stages have
\* names and that the stage back_to_coding sends a task to does not come after
\* the one rejected.
ASSUME HandlersAssumption ==
  /\ "boot" \notin Slots
  /\ Refusals \subseteq {"route", "decide", "open", "read", "truncate", "write",
                         "fill", "index", "sync", "boot"}
  /\ Roles \subseteq {"customer", "designer", "tester", "team", "admin"}
  /\ MaxRows \in Nat /\ MaxCrashes \in Nat
  /\ Stages \in Seq(Stage)
  /\ ValidStages(Stages)
  /\ \A i \in 1..Len(Stages) : Stages[i].id # NoStage
  /\ \A i, j \in 1..Len(Stages) :
       Stages[i].onReject = "back_to_coding" /\ Stages[j].id = "coding" => j <= i

VARIABLES
  file,      \* the last complete frontmatter of task.md
  torn,      \* task.md is truncated, or not there yet in a new directory
  approval,  \* approval rows of every task
  index,     \* task_index, Absent where there is no row
  slot,      \* what every goroutine is doing
  server,    \* "down", "recovering" or "serving"
  todo,      \* directories RecoverOnBoot has still to visit
  dirty,     \* the watcher has an event to act upon
  scan,      \* what the watcher has parsed and not yet written to the index
  crashes,   \* number of crashes so far
  broken     \* history: some call on the task stopped half-way

vars == <<file, torn, approval, index, slot, server, todo, dirty, scan,
          crashes, broken>>

Serial == Cardinality(Slots) = 1
Procs == Slots \cup {"boot"}

Frontmatter == [stage : StageIds(Stages) \cup {"coding", NoStage}, status : Statuses,
                archived : BOOLEAN]

Absent == [stage |-> NoStage, status |-> "absent", archived |-> FALSE]
Unreadable == [stage |-> NoStage, status |-> "unreadable", archived |-> FALSE]
Fresh == [stage |-> NoStage, status |-> "pending", archived |-> FALSE]
Readable(m) == m.status \in Statuses

\* What ParseFile sees.
OnDisk(t) == IF torn[t] THEN Unreadable ELSE file[t]

\* m is the parsed copy the handler works on; rows is a history field of the
\* serial model: the approval rows when the call parsed the task.
Idle == [pc |-> "idle", call |-> "none", t |-> "none", user |-> "none",
         m |-> Absent, basis |-> TRUE, again |-> FALSE, rows |-> <<>>]

Init ==
  /\ file = [t \in Tasks |-> Absent]
  /\ torn = [t \in Tasks |-> FALSE]
  /\ approval = [t \in Tasks |-> <<>>]
  /\ index = [t \in Tasks |-> Absent]
  /\ slot = [s \in Procs |-> Idle]
  /\ server = "serving"
  /\ todo = {}
  /\ dirty = FALSE
  /\ scan = {}
  /\ crashes = 0
  /\ broken = [t \in Tasks |-> FALSE]

-----------------------------------------------------------------------------
(* One request. *)

PlanOf(r) ==
  CASE r.call = "advance" -> AdvancePlan(Stages, r.m, KBMode, r.basis)
    [] r.call = "approve" -> ApprovePlan(Stages, r.m)
    [] r.call = "reject"  -> RejectPlan(Stages, r.m)
    [] r.call = "pause"   -> PausePlan(r.m)
    [] r.call = "resume"  -> ResumePlan(r.m)
    [] r.call = "merged"  -> MarkMergedPlan(r.m)
    [] r.call = "deliver" -> DeliverPlan(Stages, r.m)
    [] r.call = "archive" -> ArchivePlan(r.m)
    [] r.call = "recover" -> RecoverPlan(r.m)

Decidable == {"approve", "reject"}
WebCalls == Decidable \cup {"pause", "resume", "deliver", "archive"}
Webhooks == {"advance", "merged"}

Goto(s, pc) == slot' = [slot EXCEPT ![s].pc = pc]

FirstEffect(plan) ==
  IF plan.decide # "" THEN "decide" ELSE IF plan.open # NoStage THEN "open" ELSE "read"

\* The call has changed something it has not yet completed.
HalfDone(s) ==
  \/ slot[s].pc = "write"
  \/ /\ slot[s].pc \in {"open", "read", "truncate"}
     /\ \/ PlanOf(slot[s]).decide # ""
        \/ PlanOf(slot[s]).open # NoStage /\ slot[s].pc # "open"

\* The call ends here with an error.
Abandon(s) ==
  /\ slot' = [slot EXCEPT ![s] = Idle]
  /\ broken' = IF HalfDone(s) THEN [broken EXCEPT ![slot[s].t] = TRUE] ELSE broken

\* A request about an existing task; only approve and reject look at the role.
\* MaxRows bounds the advances from a gated stage, and OpenRow the rows that
\* stale writes would otherwise add without end.
Submit(s) ==
  /\ server = "serving" /\ slot[s] = Idle /\ s \in Slots
  /\ \E t \in Tasks, call \in WebCalls \cup Webhooks, user \in Roles :
       /\ file[t] # Absent
       /\ call = "advance" /\ NeedsApproval(Stages, Current(Stages, file[t]))
            => Len(approval[t]) < MaxRows
       /\ call \notin Decidable => user = CHOOSE r \in Roles : TRUE
       /\ slot' = [slot EXCEPT ![s] =
            [Idle EXCEPT !.call = call, !.t = t, !.user = user,
                         !.pc = IF call \in Decidable THEN "route" ELSE "parse"]]
  /\ UNCHANGED <<file, torn, approval, index, server, todo, dirty, scan, crashes, broken>>

\* createTask takes a number by Mkdir, which fails if the directory exists.
Mkdir(s) ==
  /\ server = "serving" /\ slot[s] = Idle /\ s \in Slots
  /\ \E t \in Tasks :
       /\ file[t] = Absent /\ ~torn[t]
       /\ torn' = [torn EXCEPT ![t] = TRUE]
       /\ slot' = [slot EXCEPT ![s] =
                     [Idle EXCEPT !.call = "create", !.t = t, !.pc = "fill"]]
  /\ dirty' = TRUE
  /\ UNCHANGED <<file, approval, index, server, todo, scan, crashes, broken>>

\* No row of the index is written here: that is left to the watcher.
Fill(s) ==
  /\ slot[s].pc = "fill"
  /\ file' = [file EXCEPT ![slot[s].t] = Fresh]
  /\ torn' = [torn EXCEPT ![slot[s].t] = FALSE]
  /\ dirty' = TRUE
  /\ slot' = [slot EXCEPT ![s] = Idle]
  /\ UNCHANGED <<approval, index, server, todo, scan, crashes, broken>>

\* When the query for the role fails nothing is asked, and the request goes on.
Route(s) ==
  /\ slot[s].pc = "route"
  /\ \E known \in {TRUE} \cup {"route" \notin Refusals} :
       IF known => CanDecide(slot[s].user, ApprovalRoleOf(approval[slot[s].t]))
       THEN Goto(s, "parse")
       ELSE slot' = [slot EXCEPT ![s] = Idle]
  /\ UNCHANGED <<file, torn, approval, index, server, todo, dirty, scan, crashes, broken>>

\* Mutant: the webhook lets every status advance.
Admitted_AnyStatus(r) == Readable(r.m) /\ (r.call # "advance" => PlanOf(r).ok)

\* The status the advance webhook asks for, the engine's own guards otherwise.
Admitted(r) ==
  /\ Readable(r.m)
  /\ r.call = "advance" => r.m.status \in {"pending", "running"}
  /\ r.call # "advance" => PlanOf(r).ok

\* The copy is taken, the guards are evaluated on it, and the copy is kept.
Parse(s) ==
  /\ slot[s].pc = "parse"
  /\ LET r == [slot[s] EXCEPT !.m = OnDisk(slot[s].t),
                              !.rows = IF Serial THEN approval[slot[s].t] ELSE <<>>]
         next == IF r.call = "advance" THEN "search" ELSE FirstEffect(PlanOf(r))
     IN  slot' = [slot EXCEPT ![s] =
                    IF Admitted(r) THEN [r EXCEPT !.pc = next] ELSE Idle]
  /\ UNCHANGED <<file, torn, approval, index, server, todo, dirty, scan, crashes, broken>>

\* The knowledge base answers, finds nothing or times out after five seconds.
Search(s) ==
  /\ slot[s].pc = "search"
  /\ \E basis \in (IF KBMode = "off" THEN {TRUE} ELSE BOOLEAN) :
       LET r == [slot[s] EXCEPT !.basis = basis] IN
       IF PlanOf(r).ok
       THEN slot' = [slot EXCEPT ![s] = [r EXCEPT !.pc = FirstEffect(PlanOf(r))]]
       ELSE slot' = [slot EXCEPT ![s] = Idle]
  /\ UNCHANGED <<file, torn, approval, index, server, todo, dirty, scan, crashes, broken>>

\* Mutant: an update that changed no row counts as a decision.
DecideRows_Unchecked(s) ==
  /\ slot[s].pc = "decide"
  /\ LET r == slot[s] IN
     /\ approval' = [approval EXCEPT ![r.t] =
                       Decide(@, r.m.stage, PlanOf(r).decide,
                              IF r.call = "merged" THEN "webhook" ELSE r.user)]
     /\ Goto(s, IF PlanOf(r).open # NoStage THEN "open" ELSE "read")
  /\ UNCHANGED <<file, torn, index, server, todo, dirty, scan, crashes, broken>>

DecideRows(s) ==
  /\ slot[s].pc = "decide"
  /\ LET r == slot[s] IN
     IF HasPending(approval[r.t], r.m.stage)
     THEN /\ approval' = [approval EXCEPT ![r.t] =
                            Decide(@, r.m.stage, PlanOf(r).decide,
                                   IF r.call = "merged" THEN "webhook" ELSE r.user)]
          /\ Goto(s, IF PlanOf(r).open # NoStage THEN "open" ELSE "read")
     ELSE slot' = [slot EXCEPT ![s] = Idle] /\ UNCHANGED approval
  /\ UNCHANGED <<file, torn, index, server, todo, dirty, scan, crashes, broken>>

OpenRow(s) ==
  /\ slot[s].pc = "open" /\ Len(approval[slot[s].t]) <= MaxRows
  /\ approval' = [approval EXCEPT ![slot[s].t] = NewApproval(@, PlanOf(slot[s]).open)]
  /\ Goto(s, "read")
  /\ UNCHANGED <<file, torn, index, server, todo, dirty, scan, crashes, broken>>

\* WriteMeta reads the body back first, and fails on a truncated task.md.
\* A call whose stage is unknown has recorded its decision and ends here.
ReadBody(s) ==
  /\ slot[s].pc = "read"
  /\ IF Readable(OnDisk(slot[s].t)) /\ PlanOf(slot[s]).commits
     THEN Goto(s, "truncate") /\ UNCHANGED broken
     ELSE Abandon(s)
  /\ UNCHANGED <<file, torn, approval, index, server, todo, dirty, scan, crashes>>

\* Only a watcher that is running sees the change.
Truncate(s) ==
  /\ slot[s].pc = "truncate"
  /\ torn' = [torn EXCEPT ![slot[s].t] = TRUE]
  /\ dirty' = (dirty \/ server = "serving")
  /\ Goto(s, "write")
  /\ UNCHANGED <<file, approval, index, server, todo, scan, crashes, broken>>

\* Mutant: a lost update is noticed, but only after the file was truncated.
WriteBack_Compare(s) ==
  /\ slot[s].pc = "write"
  /\ IF file[slot[s].t] = slot[s].m
     THEN /\ file' = [file EXCEPT ![slot[s].t] = PlanOf(slot[s]).meta]
          /\ torn' = [torn EXCEPT ![slot[s].t] = FALSE]
          /\ dirty' = (dirty \/ server = "serving")
          /\ Goto(s, "index")
          /\ UNCHANGED broken
     ELSE Abandon(s) /\ UNCHANGED <<file, torn, dirty>>
  /\ UNCHANGED <<approval, index, server, todo, scan, crashes>>

\* The copy is written.  Two handlers that have both truncated the file write one
\* over the other from its beginning, so that the frontmatter is the last one's;
\* the tail a longer body leaves behind is, with the body, left out.
WriteBack(s) ==
  /\ slot[s].pc = "write"
  /\ file' = [file EXCEPT ![slot[s].t] = PlanOf(slot[s]).meta]
  /\ torn' = [torn EXCEPT ![slot[s].t] = FALSE]
  /\ dirty' = (dirty \/ server = "serving")
  /\ Goto(s, "index")
  /\ UNCHANGED <<approval, index, server, todo, scan, crashes, broken>>

\* Archive writes task.md and the index a second time, through commit.
UpsertTask(s) ==
  /\ slot[s].pc = "index"
  /\ LET r == slot[s] IN
     /\ index' = [index EXCEPT ![r.t] = PlanOf(r).meta]
     /\ slot' = [slot EXCEPT ![s] =
          IF r.call = "archive" /\ ~r.again
          THEN [r EXCEPT !.pc = "read", !.m = PlanOf(r).meta, !.again = TRUE]
          ELSE Idle]
  /\ UNCHANGED <<file, torn, approval, server, todo, dirty, scan, crashes, broken>>

\* A statement or a file operation fails: Decide, NewApproval, the log entry
\* of Approve or the reading of the body, WriteFile, the index.
Fail(s) ==
  /\ slot[s].pc \in Refusals \ {"route"}
  /\ s = "boot" => "boot" \in Refusals
  /\ Abandon(s)
  /\ UNCHANGED <<file, torn, approval, index, server, todo, dirty, scan, crashes>>

Step(s) ==
  \/ Fill(s)
  \/ Route(s)
  \/ Parse(s)
  \/ Search(s)
  \/ DecideRows(s)
  \/ OpenRow(s)
  \/ ReadBody(s)
  \/ Truncate(s)
  \/ WriteBack(s)
  \/ UpsertTask(s)

-----------------------------------------------------------------------------
(* The watcher: an event starts the debounce, whose end starts a Sync. *)

\* Mutant: a task.md that does not parse is indexed too.
WatchScan_Everything ==
  /\ server = "serving" /\ dirty /\ scan = {}
  /\ scan' = {<<t, OnDisk(t)>> : t \in {u \in Tasks : OnDisk(u) # Absent}}
  /\ dirty' = FALSE
  /\ UNCHANGED <<file, torn, approval, index, slot, server, todo, crashes, broken>>

\* Scan passes over what does not parse.
WatchScan ==
  /\ server = "serving" /\ dirty /\ scan = {}
  /\ scan' = {<<t, OnDisk(t)>> : t \in {u \in Tasks : Readable(OnDisk(u))}}
  /\ dirty' = FALSE
  /\ UNCHANGED <<file, torn, approval, index, slot, server, todo, crashes, broken>>

\* Mutant: events that arrive during a Sync are dropped when it ends.
WatchUpsert_DropsEvents ==
  /\ server = "serving"
  /\ \E e \in scan : /\ index' = [index EXCEPT ![e[1]] = e[2]]
                     /\ scan' = scan \ {e}
  /\ dirty' = FALSE
  /\ UNCHANGED <<file, torn, approval, slot, server, todo, crashes, broken>>

\* An upsert that fails is logged; nothing repeats it.
WatchUpsert ==
  /\ server = "serving"
  /\ \E e \in scan, ok \in {TRUE} \cup {"sync" \notin Refusals} :
       /\ index' = [index EXCEPT ![e[1]] = IF ok THEN e[2] ELSE @]
       /\ scan' = scan \ {e}
  /\ UNCHANGED <<file, torn, approval, slot, server, todo, dirty, crashes, broken>>

-----------------------------------------------------------------------------
(* Going down and coming up again. *)

Crash ==
  /\ server # "down" /\ crashes < MaxCrashes
  /\ crashes' = crashes + 1
  /\ server' = "down" /\ todo' = {} /\ dirty' = FALSE /\ scan' = {}
  /\ slot' = [s \in Procs |-> Idle]
  /\ broken' = [t \in Tasks |->
                  broken[t] \/ \E s \in Procs : slot[s].t = t /\ HalfDone(s)]
  /\ UNCHANGED <<file, torn, approval, index>>

\* Serve: a full Sync, before anything else can touch the files; upserts that fail
\* are logged, as the watcher's are.
Boot ==
  /\ server = "down"
  /\ server' = "recovering"
  /\ \E failed \in SUBSET Tasks :
       /\ failed # {} => "sync" \in Refusals
       /\ index' = [t \in Tasks |-> IF Readable(OnDisk(t)) /\ t \notin failed
                                   THEN OnDisk(t) ELSE index[t]]
  /\ todo' = Tasks
  /\ UNCHANGED <<file, torn, approval, slot, dirty, scan, crashes, broken>>

\* RecoverOnBoot takes the directories in turn.
RecoverNext ==
  /\ server = "recovering" /\ slot["boot"] = Idle
  /\ \E t \in todo :
       /\ todo' = todo \ {t}
       /\ slot' = IF RecoverPlan(OnDisk(t)).ok
                  THEN [slot EXCEPT !["boot"] =
                          [Idle EXCEPT !.call = "recover", !.t = t, !.pc = "read",
                                       !.m = OnDisk(t),
                                       !.rows = IF Serial THEN approval[t] ELSE <<>>]]
                  ELSE slot
  /\ UNCHANGED <<file, torn, approval, index, server, dirty, scan, crashes, broken>>

\* Mutant: recovery goes on in the background while the server listens.
Listen_Early ==
  /\ server = "recovering"
  /\ server' = "serving"
  /\ UNCHANGED <<file, torn, approval, index, slot, todo, dirty, scan, crashes, broken>>

\* Only now is the directory watched, and the port opened.
Listen ==
  /\ server = "recovering" /\ todo = {} /\ slot["boot"] = Idle
  /\ server' = "serving"
  /\ UNCHANGED <<file, torn, approval, index, slot, todo, dirty, scan, crashes, broken>>

Next ==
  \/ \E s \in Slots : Submit(s) \/ Mkdir(s)
  \/ \E s \in Procs : Step(s) \/ Fail(s)
  \/ WatchScan
  \/ WatchUpsert
  \/ Crash
  \/ Boot
  \/ RecoverNext
  \/ Listen

Spec == Init /\ [][Next]_vars

\* Goroutines run on, the watcher's timers fire (maxWait bounds the debounce)
\* and a server that is starting goes on.  Nobody has to send a request, and
\* nobody has to restart a server that is down.
Fairness ==
  /\ \A s \in Procs : WF_vars(Step(s))
  /\ WF_vars(WatchScan) /\ WF_vars(WatchUpsert)
  /\ WF_vars(RecoverNext) /\ WF_vars(Listen)

FairSpec == Spec /\ Fairness

-----------------------------------------------------------------------------
(* What the handlers promise.                                               *)

\* One row of approvals.
RowType == [stage : StageIds(Stages), role : {RoleFor(s) : s \in StageIds(Stages)},
            decision : {"", "approved", "rejected"},
            by : Roles \cup {"", "webhook"}]

\* The type of the state: what is indexed and what is in the rows are whole
\* frontmatters and roles of the program, never a file that did not parse.
TypeOK ==
  /\ file \in [Tasks -> Frontmatter \cup {Absent}]
  /\ torn \in [Tasks -> BOOLEAN]
  /\ approval \in [Tasks -> Seq(RowType)]
  /\ index \in [Tasks -> Frontmatter \cup {Absent}]
  /\ \A s \in Procs : slot[s] = Idle \/ slot[s].t \in Tasks
  /\ server \in {"down", "recovering", "serving"}
  /\ todo \subseteq Tasks
  /\ dirty \in BOOLEAN
  /\ \A e \in scan : e[1] \in Tasks /\ Readable(e[2])
  /\ crashes \in 0..MaxCrashes
  /\ broken \in [Tasks -> BOOLEAN]

\* A paused task stays as it is until a human resumes it: no handler that was
\* already under way writes over the pause (Pause: "any state, writing stops").
PauseHolds ==
  [][\A t \in Tasks :
       file[t].status = "paused" /\ file'[t] # file[t]
         => file'[t] = [file[t] EXCEPT !.status = "running"]]_vars

\* The port is opened only when no task is running any more: RecoverOnBoot
\* has paused them all, whatever the crash left half-written.
NothingRunsAcrossRestart ==
  [][server = "recovering" /\ server' = "serving"
       => \A t \in Tasks : OnDisk(t).status # "running"]_vars

Quiet == server = "serving" /\ \A s \in Procs : slot[s] = Idle

IndexAgrees == \A t \in Tasks : Readable(OnDisk(t)) => index[t] = OnDisk(t)

\* Mutant: the status of the task does not matter.
ListPendingApprovals_AnyStatus(role) ==
  {e \in UNION {{t} \X (1..Len(approval[t])) : t \in Tasks} :
     LET row == approval[e[1]][e[2]] IN
     row.decision = "" /\ index[e[1]] # Absent /\ role \in {"admin", row.role}}

\* The web page of a role: the rows <<task, number>> it is asked to decide,
\* joined with the derived index and not with the task files.
ListPendingApprovals(role) ==
  {e \in UNION {{t} \X (1..Len(approval[t])) : t \in Tasks} :
     LET row == approval[e[1]][e[2]] IN
     /\ row.decision = "" /\ role \in {"admin", row.role}
     /\ index[e[1]].status = "awaiting_approval"}

\* When nothing is under way and the index has caught up, the page shows each
\* role what it can decide ("tasks awaiting approval that the role may
\* approve", ListPendingApprovals): a row of a web gate leads to an approval
\* the handler accepts, and a task no call on which stopped half-way that waits
\* at a web gate is on the page of the role of its stage.
QueueIsRight ==
  Quiet /\ IndexAgrees =>
    /\ \A role \in Roles \cup {"admin"} : \A e \in ListPendingApprovals(role) :
         LET rows == approval[e[1]] IN
         Readable(OnDisk(e[1])) /\ ~IsTeamReview(Stages, rows[e[2]].stage) =>
           /\ WebDecidable(Stages, OnDisk(e[1]))
           /\ HasPending(rows, OnDisk(e[1]).stage)
           /\ CanDecide(role, ApprovalRoleOf(rows))
    /\ \A t \in Tasks :
         Readable(OnDisk(t)) /\ WebDecidable(Stages, OnDisk(t)) /\ ~broken[t] =>
           \E e \in ListPendingApprovals(RoleFor(OnDisk(t).stage)) : e[1] = t

\* Once requests stop coming, the derived index ends up equal to the task
\* files, after failed upserts, stale scans and restarts.
IndexCatchesUp == <>[]Quiet => <>[]IndexAgrees

\* Whatever requests overlap, a task is beyond a gated stage only if some row
\* of that stage was approved: no race opens a gate nobody approved.
EveryGateWasApproved ==
  \A t \in Tasks : \A k \in 1..Len(Stages) :
    /\ Readable(file[t])
    /\ k < StageOf(Stages, Current(Stages, file[t]))
    /\ NeedsApproval(Stages, Stages[k].id)
    => \E i \in 1..Len(approval[t]) :
         approval[t][i].stage = Stages[k].id /\ approval[t][i].decision = "approved"

\* However the writes of handlers overlap, task.md does not stay truncated without
\* crashes and failing writes: whoever truncated it has still to fill it.  (What
\* WriteFile leaves in the body when two of them overlap is not modelled.)
TornOnlyWhileWriting ==
  \A t \in Tasks :
    torn[t] => \E s \in Procs : slot[s].t = t /\ slot[s].pc \in {"write", "fill"}

\* Every decided row was decided by a user of its role, an admin or the merge
\* webhook (authn.go: only users of approval.role may decide).
RoleRouted ==
  \A t \in Tasks : \A i \in 1..Len(approval[t]) :
    approval[t][i].decision # "" =>
      approval[t][i].by \in {approval[t][i].role, "admin", "webhook"}

=============================================================================
