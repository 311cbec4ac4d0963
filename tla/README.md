# A formal model of control-api

control-api is the orchestration backend of a small agent platform. A task is a
document, `tasks/TASK-*/task.md`; its frontmatter (stage, status, archived) is
the authority. A session works on the current stage and reports it done through
a webhook; gated stages then wait in an approval queue for a person of the right
role, the merge stage for the merge webhook of the Git platform. SQLite holds an
index derived from the files, the approval rows and a hash-chained work log.

This directory holds TLA+ modules translated from the Go source, TLC
configurations that check them on small instances, and proofs for every value of
the constants.

## Inventory of the system

| Part | State | Operations | Talks to |
|---|---|---|---|
| `pipeline` | stages of pipeline.yaml, mtime and size of the file | Load, refresh on every access, First, Next, IsLast, NeedsApproval, IsTeamReview, RejectTarget | read by `engine`; edited by people at any time |
| `engine` | none of its own | Advance (with grounding), Approve, Reject, Pause, Resume, MarkMerged, Deliver, Archive, RecoverOnBoot | `pipeline`, `tasks`, `store`, `kb` |
| `api` | the hub of event streams (connections, their buffers, a lock), one goroutine per request | Serve, createTask, taskAction, mergeEvent, advanceEvent, broadcast, streamEvents, read-only lists | `engine`, `authn`, `store`, `registry`, browsers |
| `tasks` | the task.md files | ParseFile, WriteMeta, Scan | file system |
| `store` | task_index, approval, work_log, users, sessions | UpsertTask, NewApproval, Decide, ApprovalRoleOf, Log, VerifyLog | SQLite (WAL, immediate transactions) |
| `watcher` | set of watched directories, debounce and cap timers | Sync, watchD, event loop | `tasks`, `store`, inotify through fsnotify |
| `authn` | none (users and sessions are rows of `store`) | AddUser, LoginWithUser, Authenticate, CanDecide | `store` |
| `kb` | none | Search, with a timeout | HTTP service |
| `registry`, `config` | read once at startup | lookups | files |
| `reconcile`, `service`, `cmd` | none | one-shot commands | files, systemd |

What makes it hard:

* **Nothing locks a task.** A handler parses task.md, decides on its copy, may
  wait for the knowledge base, and writes the copy back. Requests about the same
  task, boot recovery and the watcher overlap.
* **Several stores, no transaction over them.** A call changes the approval rows,
  then task.md, then the index, then the log, and may stop after any of these.
  WriteMeta truncates before it writes.
* **The role check and the decision look at different things**: the newest
  pending row of any stage, and the rows of the stage the task is at.
* **Sequences** of rejections, pauses, resumes, advances and repeated webhooks
  leave several rows behind for one stage.
* **The watcher works on news that is old.** Between an event and its handling the
  directory may have gone and come again; while it parses and writes, files change;
  the kernel's queue is bounded and its overflow is only logged.
* **The hub drops events** of a full channel and sends under its lock, next to
  browsers that are slow, hang, break off, or lose their session.

What makes each part correct: for the engine, that approvals and stages agree
(no gate is passed unapproved, what waits is about the present stage, decisions
are routed by role and final, a merge confirmation holds until delivery, no task
gets stuck); for the handlers, that overlap and crashes do not add behaviours to
that, that a pause holds, that nothing runs on after a restart, that the
approval page shows each role what it can decide; for the index and the watcher,
that the index ends up equal to the files and no directory is left unwatched;
for creations, that numbers are unique; for the hub, that what is announced gets
shown and nobody holds up a handler; for sessions, that a role taken away ends;
for the work log, that honest logs verify and changed ones do not; for the
pipeline, that a lookup sees the edits made before it.

`PROJECT.json` lists every hazard at its line with the properties that cover it.

## The modules

```
Pipeline          lookups in the stage list             pipeline/pipeline.go
  Engine          what each engine method does          engine/*.go, store/domain.go, authn
    TaskLifecycle       one handler = one step          engine, api  (abstract spec)
      TaskLifecycleProofs
        TaskStepProofs  what one step may do
      MCTaskLifecycle
    Handlers            one statement = one step        api, tasks, watcher, engine/retry.go
      HandlersProofs
      HandlersRefinement    INSTANCE TaskLifecycle
        MCHandlers
        RefinementProofs    Handlers implements TaskLifecycle
TaskDirs          creations and hand edits of tasks/    api/tasks.go createTaskDir
  Watcher         watches, events, timers, Sync         watcher/watcher.go, api/server.go Serve
    WatcherProofs, MCWatcher
Sessions          accounts, logins, expiry              authn/authn.go, store/domain.go
  EventHub        streams of events to browsers         api/tasks.go sseHub, streamEvents
    EventHubProofs, MCEventHub
WorkLog           the hash chain and its verification   store/domain.go Log, store/verify.go
  WorkLogProofs, MCWorkLog
HotReload         pipeline.yaml reloaded at run time    pipeline/pipeline.go
  HotReloadProofs, MCHotReload
```

**Pipeline** has constant operators only; each takes the stage sequence it looks
into. **Engine** describes each method by a *plan*: whether its guards hold, the
decision it records, the stage it queues a row for, and the frontmatter it
writes. All methods touch durable state in the order Decide, NewApproval,
task.md, index, log, so a plan determines what any prefix of the call leaves
behind. The approval table of a task is a sequence of rows in id order.

**TaskLifecycle** is the promise: calls do not overlap. `task` is what ParseFile
would return, or `Absent`, or `Unreadable`; `approval` the rows; `broken` a
history variable, true once a call on the task stopped half-way. Each action is
a whole handler, with the guards of the HTTP layer and of the engine; `Perform`
chooses how far the call gets: after the decision, after the new row, after the
truncation, or to the end. A refused call changes nothing and is no step. With
`reached = Decided` a plan that decides nothing changes nothing but `broken`;
this allows more than the code does.

**Handlers** is the running server. A slot is a goroutine serving one request at
a time; `slot[s].pc` says which access to shared state comes next, `slot[s].m` is
the parsed copy. `file`/`torn` are task.md and whether it is truncated or not
there yet; `index` the derived rows; `dirty`/`scan` the watcher's pending event
and the frontmatters it has parsed and not yet written; `server`/`todo` the boot
sequence (full sync, recovery, watch, listen). `Fail` lets the database or the
file system refuse at the places named in `Refusals`; `Crash` stops everything
and loses what is not durable. `ListPendingApprovals(role)` is the query behind
the approval page, a join of rows and index. The index row and the log entry are
not part of TaskLifecycle. **HandlersRefinement** holds the refinement mapping: the
task and the rows as they were before the call, from the first change of a call
to its last.

**TaskDirs** is the directory tasks/: `disk[n]` is what TASK-n holds (nothing, a
directory without a readable task.md, or a version of one). A creation is
ListDirs, Mkdir (with its retry on a number that is taken) and Fill, which may
fail and leave an empty directory. External: people and sessions write a
task.md, move a directory in and take one away, at any time except in a directory
that is just being created.

**Watcher** runs next to that: Serve's first Sync, then `watchD` (watch the root,
list it, watch what is there; a directory that goes meanwhile makes it give up),
then the loop. `kernel` is the set of inotify watches and `queue` the events on
their way, external, as inotify and fsnotify are used here: a directory that goes
takes its watch with it, equal neighbours are merged, a full queue drops.
`watched` is the watcher's own set, `timer` and `cap` count ticks. Sync parses the
directories one by one, in order, while they change; its upserts are one step, as
nobody else writes the index in this module. `Refusals` names what the system may
refuse: a watch (the limit of inotify, permission), a listing, the row of a task.
While watches are set up a refusal makes watchD give up; in the loop it is only
logged, and the directory stays without a watch. Three history variables name the
directories that suffer: `unheard` (a change left nothing in the queue), `refused`
(the loop was last refused the watch) and `unwritten` (the row, or the listing, was
refused when it was last to be written). What the disk does after the first unheard
change is not pursued; after a refusal it is, with changes by hand.

**Sessions** tells sessions apart by the role they carry; a login reads the account
in one step and adds the session in another. **EventHub** has handlers that
change a task, take the lock, offer the event to each channel and unlock, the
goroutine of each connection (take an event from the channel; write and flush it,
blocked while the connection has no room; return once the client is gone, and
leave under the lock), and, external, browsers that fetch the list when an
event comes, of which those that hang never read. Events carry nothing the browser acts upon, so a channel is a number.
`unseen` and `owed` are history: which lists lack a handler's change, and which
browsers were told of a change their list lacks. `GiveUp` is a handler that fails
after its change, an automatic pause among them, and announces nothing.

**WorkLog** is one call of Log per writer as a transaction that holds SQLite's
write lock from BEGIN to its end, `VerifyLog` as an operator on the table, and,
external, the archive-and-clear of the table. The hash of an entry is the
sequence of contents that lead to it: no collisions.

**HotReload** is Load and the lookups: `disk` is the file, told apart by the
number of the edit that wrote it; `loaded` the edit whose stages are in force;
`stamp` mtime and size, again as an edit; a lookup is Stat, Compare under the read
lock, Reload under the write lock, Read. An edit writes a valid file, breaks it
or removes it, and always changes the stamp.

Definitions named `X_Something` and commented as mutants are plausible wrong
versions of `X`. The specifications do not use them; each passing property is
broken by one of them.

### What the models leave out on purpose

Titles, bodies, comments and artifacts; the YAML text; the non-empty comment a
rejection needs; the name recorded in `decided_by` (the models record the role of
the requester, the code takes a name from the request when it gives one); HTTP
decoding, the webhook secret, password hashing, tokens, and the heartbeat
comments of the stream, which are written like events. Of the reads, a listing of
tasks/ and the query for the pending role may fail (Watcher, `handlers_concurrent`);
a task.md that cannot be read is one that does not parse; other reads succeed.

Two handlers that have both truncated task.md write one over the other from its
beginning. The frontmatter is then the last one's, but if the first text was the
longer one its tail stays at the end of the body. Bodies are left out, so that the
models do not show it: `TornOnlyWhileWriting` says that the file does not stay
truncated, not that its text is that of one writer.

In Handlers a task directory is never deleted, nobody but the server edits task.md,
and the watcher's scan is one step; Watcher has all of that, without approvals.
Upserts of a Sync may fail in Handlers as well, at boot and later ("sync"); no run
of Handlers lets them, as `IndexCatchesUp` needs them, and the proofs allow them.
Rows of different tasks do not interact. After a lost change a later Sync, brought
about by any other event, would heal the index; Watcher follows such a run, but for
further changes of the disk.

## What the runs check

| Run | Question | Bounds | Distinct states |
|---|---|---|---|
| `lifecycle` | do rows, stage and status agree after every sequence of complete and cut-off calls? does no task get stuck? | 1 task, the five-stage pipeline of the tests with a design gate, 3 roles, 6 rows, KB enforced | 150 thousand |
| `lifecycle_merge_last` | is a merge stage that comes last reviewed? **no** | 3 stages | small |
| `handlers_serial` | does the server, statement by statement, implement TaskLifecycle? does a pause hold, does nothing run across a restart, does the index catch up, is the approval page right? | 1 request at a time, 1 crash, every refusal, 4 stages, 2 roles, 2 queued rows (3 in all) | 880 thousand |
| `handlers_concurrent` | what survives overlapping requests? | 2 requests at a time, no crash, refusals that do not tear the file, the failing role query among them, same pipeline | 1.8 million |
| `handlers_pause_race` | does a pause hold with 2 requests? **no** | 3 stages, 1 queued row | small |
| `handlers_role_race` | are decisions routed by role with 2 requests? **no** | as above, 2 roles | small |
| `handlers_index_race` | does the index catch up with 2 requests? **no** | as above | small |
| `watcher` | does the index follow the files, is every directory watched, are numbers unique? | 2 numbers, 2 versions, 2 creations, debounce 1, cap 1, queue of 2, every refusal, changes by hand after one | 2.3 million |
| `event_hub` | does what is announced get shown? can a browser hold up a handler? does a stale role end? | 2 connections of which 1 hangs, 1 handler, channels of 1, 1 event on the wire, 2 roles | 114 thousand |
| `worklog` | does verify-log accept what concurrent writers leave, and find a changed column? | 3 writers, 2 contents, 4 rows, 1 reset | 6 thousand |
| `hot_reload` | does a lookup see every edit made before it, do the stages in force never go back? | 3 lookups at a time, 4 edits | 210 thousand |
| `hot_reload_startup` | also when the file is edited while Load runs? **no** | same | small |

Tasks share no row and no file, so one task is enough for properties of a task;
what several tasks share is the work log, which has its own module, and the boot
recovery loop, whose order does not matter to one task. Six rows allow a
rejection at each gate, a second round and duplicates from pause and resume.
Stages are enough when every kind of successor occurs: gate to auto, auto to
gate, gate to team review, team review to auto, and last. `handlers_concurrent`
uses a VIEW without the index and the watcher, which handlers never read, and
the symmetry of the two slots.

In `watcher` two directories are the least for which one changes while the other
is parsed or watched, and two creations collide on both numbers; a queue of two
holds a removal and the creation after it, and overflows at the third event. A cap
of one tick, like the debounce, is still told from it: an event after the tick puts
off the debounce and not the cap. One refusal of each kind may come at any step,
any number of them while nobody changes anything; after one, people go on changing
files and directories. Without `refused`, without `unheard` or without `unwritten`
as an exception the properties fail. In
`event_hub` a channel of one is full after one event, so that everything the
code does at its eight happens after fewer steps; one connection hangs with a
full channel and its goroutine in a write that ends only when the browser goes, while
the other is served. One handler suffices for the liveness
properties, as it changes tasks again and again; `NewsIsPending` is proved for
any number of them.

Deadlock is checked in `event_hub`, where somebody always can go on. In the other
runs it is not: a delivered, archived task, a full log, a directory nobody
changes have nothing more to do.

**Fairness.** Every liveness property is stated from the moment something stops, or
needs nobody's good will. `IndexCatchesUp`: goroutines that have started run on,
the watcher's timers fire (the cap bounds the debounce), and a server that is
starting goes on: weak fairness of each goroutine, of the watcher's two steps and
of boot. `IndexFollows` and `SyncIsNotPostponed`: weak fairness of the watcher's
steps and of time; Go's select chooses at random among ready channels, and a timer
that has run out stays ready, so events cannot shut a timer out for ever.
`AnnouncedIsShown`, `HandlersNeverWait`, `DeadConnsAreDropped`: weak fairness of
goroutines that can go on; strong fairness of taking the lock, for handlers and
for leaving connections, as sync.Mutex hands the lock to a waiter after a
millisecond, and of noticing that the client is gone, as select chooses at random; strong fairness of a reading browser's fetch, since its session comes
and goes. A browser that hangs has no fairness at all. `StaleRoleEnds`: time passes,
so sessions expire, and a login that has begun ends. No request, edit, crash,
restart or login is assumed to happen.

## What the violation runs show

* `PauseHolds` (engine.go:191): a pause that is recorded between the parse and
  the write of an advance is overwritten. The code calls pause the highest
  priority, during which all writing is forbidden.
* `RoleRouted` (api/tasks.go:99): a request that was let through because nothing
  was pending decides a row that was queued meanwhile.
* `IndexCatchesUp` (engine.go:194): file writes and index writes of two handlers
  in opposite orders, with the watcher's sync in between, leave the index behind
  until something else happens.
* `DeliveredAfterReview` (engine.go:50): the last stage is delivered before its
  approval mode is looked at, and validateStages accepts merge as last stage.

* `FreshAfterStat` (pipeline.go:104): Load parses first and takes the time stamp
  afterwards; after an edit in between, the old stages stay in force until the
  next edit.

The first three need two requests about one task at the same time; with one
at a time `handlers_serial` shows the same properties to hold (`RoleRouted`
through the refinement).

Three properties say what holds rather than what one might wish.
`NoTaskIsStranded` has the premise `EveryStageCanBeLeft`: that the stage coding
exists if a rejection goes back to it, and that no stage but merge is a team
review. Load checks neither; without them a task can be sent to a stage advance
refuses, or wait for a review no call can record. It also excepts tasks one of
whose calls was cut off: a decision that was recorded before a failing write
leaves a task that awaits approval with nothing to approve. And
`OnlyOverflowOrRefusalLosesChanges` says that from the loop on a change of a
directory is lost only to a full queue or to the refusal of that directory's own
watch (watcher.go:137 logs it and goes on), not that none is; between the first Sync
and the watches there is a gap at startup as well. `EveryDirIsCovered`,
`ChangesArePending` and `IndexFollows` except the directories concerned, one by one:
what they say is that the others do not suffer.

## What is proved

`TaskLifecycleProofs`, for every set of tasks and roles and every pipeline that
satisfies `StagesAssumption`: `Spec => []IndInv`, and from it type correctness,
`GatesPassed`, `PendingRowsAreCurrent`, `RoleRouted` and `MergedTasksAreSettled`.

The assumption: Load's own check of the merge stage; stage names not empty and
not repeated; and a stage that is rejected "back to coding" does not come before
coding. The code does not check the last two. With coding after the rejected
stage, a rejection would move a task forward past gates.

Why `IndInv` is needed: `RoleRouted` compares the decider with each row decided,
while the handler compares the user with the newest pending row only.
`NewestPendingIsCurrent` says these rows are of one stage when the web may
decide; it rests on `PendingAtCurrent` (a rejection or approval takes all rows of
its stage, so none is left behind) and on `RowsAreGated` (role and stage of a row
belong together). `GatesPassed` speaks of the newest row of a stage;
`PendingIsSuffix` says that what is decided together is the end of the stage's
rows, so that after an approval the newest row is approved.

Layout: lemmas about the pipeline lookups and about Decide and NewApproval; what
a plan may do to a task's rows and frontmatter, once per engine method; one step
per action; and the temporal theorems.

`TaskStepProofs`, on top of it: every step creates a task or leaves a prefix of a
good plan in force (`StepCases`). From that `DecisionsAreFinal`, `MergedIsStable`,
`StageMoves`, and `NoTaskIsStranded`, whose invariant adds what `IndInv` does not
say: that an undisturbed task that awaits approval has its row
(`AwaitingTasksAreQueued`, for pipelines with stages nobody can leave as well).

`HandlersProofs`, for any number of requests at a time, tasks and crashes, any
refusals, and pipelines that satisfy `HandlersAssumption` (as above; names may be
repeated; the roles are those of authn and the bounds are numbers):

* `NoRaceOpensAGate` (`EveryGateWasApproved`). The invariant `GateInv` says of the
  file *and of the copy of every request under way* that each gate behind its stage
  has an approved row. Copies grow old, and an old one may be written over a newer
  file; but rows are only added and decided, never taken back (`Grown`), so what an
  old copy has been through stays approved. A request past its Decide knows that
  its own gate is approved (`Good`). `PlansFit` then says that every plan leads
  from a copy that fits to a frontmatter that fits. This is the weaker of the two
  gate properties: the newest row may be a rejection that an overtaken approval
  ignored.
* `ServerTypes` (`TypeOK`). The invariant `TypeInv` says of the requests what the
  state alone does not show: every copy at work was readable (`Typed`), and whoever
  decides has a role. Each plan leads from a readable copy to a readable
  frontmatter (`PlanShape`), so nothing that failed to parse gets into the index
  or is written back; an unreadable task.md stays for a person to mend.
* `RowsAreNeverLost`: the rows grow, keep stage and role, and a recorded decision is
  final, whatever overlaps. `DecisionsAreFinal` says it of TaskLifecycle; here no
  call has to be alone.
* `RestartPausesAll` (`NothingRunsAcrossRestart`), provided boot recovery is not
  refused itself. `BootInv`: until the server listens no request is under way, and
  of the directories visited only the one being paused can be running.
* `TornFilesAreBeingWritten` (`TornOnlyWhileWriting`), without crashes and writes
  that are cut off: however truncations and writes overlap, a truncated task.md has
  a request that is still to fill it.
* `PauseIsRespected` (`PauseHolds`), for one request at a time. The invariant
  `PauseInv`: nobody has written task.md since the request under way read it, so it
  is admitted on what the file still says. The only plan of a paused copy that
  commits is that of resume (`PausedIsResumed`).

`RefinementProofs`, for one request at a time, every pipeline, any tasks, crashes and
refusals except that of the role query:

* `ServerImplementsLifecycle` (`ImplementsLifecycle`): the server, one access to
  shared state at a time, implements TaskLifecycle under the mapping of
  HandlersRefinement. The invariant `SerialInv` says that a request under way is
  `Faithful`: it was let in by the guards (`LetIn`), and the rows are those it found
  with exactly the part of its plan carried out that its place in the handler
  tells (`RowsFollow`), the file torn just while it is written. Where the request
  ends, is refused, or a crash cuts it off, that prefix is a value of `reached` in
  `Perform`, and the step is one of TaskLifecycle; every other access, the
  watcher's steps and the index are stutters (`NextImplements`). Archive, which
  writes twice, amounts to two archivings, either of which may be cut off.
* What TaskLifecycle guarantees holds of the server then. `Life` is TaskStepProofs
  with the state of the server substituted, so its theorems need no second proof:
  `RestingTasksAreInOrder` says them of the file and the rows of a task no request is
  changing, and `QueueStaysRight` (`QueueIsRight`) derives from them, the index once
  it agrees with the files, and `AwaitingTasksAreQueued`, that the approval page
  shows what it should and misses nothing.

Assumptions: `OneAfterAnother` is one slot, and a role query that does not fail: when
it fails, the handler lets the request through unasked, which TaskLifecycle does
not allow (with more slots `handlers_role_race` shows even a successful query to be
stale). `StagesDiffer`, for the last two: stage names are not repeated, as in
`StagesAssumption`; Load does not check it.

`WatcherProofs`, for any number of directories, creations and versions, any timers,
any queue and any refusals: `NumbersUnique`; the invariant `WatchInvariant`, and from it
`DirsCovered`, `ChangesPending` and `LossesHaveACause`. The invariant relates three
views of the watches: the kernel's, the watcher's set and what the queue will yet
tell. A directory in the set that has lost its watch has its removal in the queue
(`SetIsToldOfRemovals`); one that is there although its removal is queued has its
creation queued after it (`RemovedWasRemade`); every other one has a watch, its
creation in the queue, or, at startup, is still to be watched (`DirsAreReached`),
unless its own watch was refused or an event about it was lost. The exceptions are
sets of directories, so that the argument is made for each directory by itself: an
event about one says nothing of the others (`PostFacts`). For the rows,
`ParsedIsCurrent` says that what a running Sync has parsed is what the disk holds,
or an event is queued.

`EventHubProofs`, for any number of handlers and connections and any capacities:
`NewsPending`. With the type of the channels the property is inductive: the event
that is dropped finds `Capacity` others, which is not zero, and one that was taken is
with its goroutine until it is on the wire.

`WorkLogProofs`, for any number of writers, any contents and bounds:
`ChainIsIntact` (verify-log accepts every chain whose rows continue each other
and whose hashes grow) and `Spec => []LogVerifies`. The inductive invariant says
that only the holder of the lock is inside its transaction, so that what it read
is still the tail when it commits. `SingleChangesAreFound` (`SingleChangeIsFound`)
rests on the chain being intact and on hashes being injective: a changed row no
longer agrees with its own hash (`ChangedRowIsBad`), and the rows before it look
only back (`BadRowLooksBack`). Assumption: `NoWriter` is not a writer.

`HotReloadProofs`, for any number of goroutines and edits: `FreshAfterStat` and
`VersionsGoForward`. Assumption: nobody edits the file while Load runs
(`EditsDuringLoad = FALSE`; without it the first one is false). The invariant
adds that a noted stamp which is the file's stamp stands for the stages in force
(`StampIsHonest`). A reload may note an older stamp than the file it parsed has;
that costs one more reload and never an edit.

The other assumptions (bounds are natural numbers, special values such as `Gone`,
`NoMeta`, `NoHandler`, `NoLogin` are none of the ordinary ones) say nothing about
the code.

Only model-checked: liveness (`IndexCatchesUp`, `IndexFollows`, `SyncIsNotPostponed`,
`AnnouncedIsShown`, `HandlersNeverWait`, `DeadConnsAreDropped`, `StaleRoleEnds`), as
fairness and ENABLED are beyond the prover. Every invariant and action property that
a passing run checks is also proved.

## Not modelled, and the plan

What could be added: **reload and handlers** - HotReload composed with Engine's
plans, for a handler whose lookups straddle a reload. It waits for a statement of
what such a handler must not do: the repository does not say which mixtures of two
versions are wrong, and HotReload shows that the versions it sees never go back.

Three hazards have no property for the same reason: rows of directories that are
gone stay in the index; an automatic pause is not announced to the browsers; and
an edit of pipeline.yaml that keeps time and size is not seen, which the design
accepts.

Not planned: `reconcile` (a command that reads files once and prints
differences), `registry` and `config` (read once at startup), `service` (writes a
systemd unit), the command line (dispatch), the remaining list queries, the HTTP
client of `kb`, the schema in `store`, and functions without a caller
(FailureThreshold, RetryBackoff, Model, ConsecutiveFailures, LastFailureAt).
