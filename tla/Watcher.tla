------------------------------- MODULE Watcher -------------------------------
(***************************************************************************)
(* The watcher of tasks/: Serve's first Sync, the setting up of the        *)
(* watches, and the event loop, whose goroutine takes one event after the  *)
(* other from the kernel's queue, keeps the set of watched directories and *)
(* rebuilds the index when one of its two timers has run out.  Changes of  *)
(* the directory come from TaskDirs, between any two steps of the watcher. *)
(* Handlers says how the server's own writes reach the index.              *)
(***************************************************************************)
EXTENDS TaskDirs, Integers, Sequences

CONSTANTS
  Debounce,    \* ticks from the last event to a Sync
  MaxWait,     \* ticks from the first event to a Sync at the latest
  QueueLimit,  \* events the kernel keeps for the watcher
  Refusals,    \* what the system may refuse: to "watch" a directory, to "list"
               \* tasks/, to write a "row" of the index
  MaxRefused   \* bound: changes are pursued as long as no more was refused

ASSUME WatcherAssumption ==
  /\ Debounce \in Nat \ {0} /\ MaxWait \in Nat \ {0}
  /\ QueueLimit \in Nat \ {0}
  /\ Refusals \subseteq {"watch", "list", "row"}
  /\ MaxRefused \in Nat

VARIABLES
  index,    \* task_index
  phase,    \* "sync" at startup, "root", "list" and "add" while watches are
            \* set up, "loop", or "none" when setting up failed
  todo,     \* directories still to be parsed, or still to be watched
  metas,    \* what the running Sync has parsed
  syncing,  \* a Sync is running
  kernel,   \* directories with an inotify watch
  watched,  \* the watcher's own set of them
  queue,    \* events not yet taken by the loop
  timer,    \* ticks until timer fires, Off when it is nil
  cap,      \* ticks until capTimer fires, Off when it is nil
  unheard,  \* history: directories of which a change left nothing in the queue
  refused,  \* history: directories there whose watch the loop was last refused
  unwritten \* history: directories whose row was refused, or which could not be
            \* listed, when it was last to be written

loopVars == <<index, phase, todo, metas, syncing, watched, timer, cap, unwritten>>
watchVars == <<kernel, watched, refused>>
vars == <<dirVars, loopVars, kernel, queue, unheard, refused>>

Off == -1
NoMeta == "none"

ASSUME NoMetaAssumption == NoMeta \notin Versions

Created(d) == [op |-> "create", dir |-> d]
Removed(d) == [op |-> "remove", dir |-> d]
\* Something changed inside a directory: all the loop makes of it is a Sync.
Touched == [op |-> "touch", dir |-> 0]

Event == {Touched} \cup {Created(d) : d \in Numbers} \cup {Removed(d) : d \in Numbers}

Queued(e) == \E i \in 1..Len(queue) : queue[i] = e

\* Scan's listing: the directories to be parsed, and those of which no row will
\* be written.  When ReadDir is refused Sync returns, having written none.
Listed(dirs, skipped, before) ==
  \/ dirs = Present /\ skipped = before
  \/ "list" \in Refusals /\ dirs = {} /\ skipped = before \cup Present

\* The server has just been started; the index is what its last run left.
Init ==
  /\ DirsInit
  /\ index \in [Numbers -> {NoMeta} \cup Versions]
  /\ unheard = {} /\ refused = {}
  /\ phase = "sync" /\ syncing = TRUE
  /\ Listed(todo, unwritten, {})
  /\ metas = [d \in Numbers |-> NoMeta]
  /\ kernel = {} /\ watched = {}
  /\ queue = <<>>
  /\ timer = Off /\ cap = Off

-----------------------------------------------------------------------------
(* External: inotify as fsnotify hands it on. *)

RootWatched == phase \in {"list", "add", "loop"}

\* Equal events that follow each other are merged.  A full queue drops what
\* comes; the loop only logs the overflow.  To the loop all changes inside a
\* directory are one, and any event that is left stands for them.
Post(e) ==
  IF queue # <<>> /\ queue[Len(queue)] = e THEN UNCHANGED <<queue, unheard>>
  ELSE IF Len(queue) < QueueLimit THEN queue' = Append(queue, e) /\ UNCHANGED unheard
  ELSE /\ unheard' = IF e = Touched THEN unheard ELSE unheard \cup {e.dir}
       /\ UNCHANGED queue

\* What a change of directory d leaves in the queue.  A directory that goes
\* takes its watch with it.  A change inside a directory without a watch is
\* seen when the watcher will yet learn that the directory was created.
Notify(d) ==
  CASE disk'[d] = disk[d] -> UNCHANGED <<kernel, queue, unheard, refused>>
    [] disk'[d] # disk[d] /\ Gone \in {disk[d], disk'[d]} ->
         /\ kernel' = kernel \ {d} /\ refused' = refused \ {d}
         /\ IF RootWatched
            THEN Post(IF disk[d] = Gone THEN Created(d) ELSE Removed(d))
            ELSE unheard' = unheard \cup {d} /\ UNCHANGED queue
    [] OTHER ->
         /\ IF d \in kernel THEN Post(Touched)
            ELSE /\ unheard' = IF Queued(Created(d)) THEN unheard ELSE unheard \cup {d}
                 /\ UNCHANGED queue
         /\ UNCHANGED <<kernel, refused>>

\* Bounds: what follows a change that went unheard is not pursued; after a refusal
\* what people change is, while nobody creates and up to MaxRefused of them.
Refused == Cardinality(refused) + Cardinality(unwritten)

\* The port is open once watches are set up.
Change ==
  /\ unheard = {}
  /\ \/ Refused = 0 /\ (ByHand \/ (phase \in {"loop", "none"} /\ Creation))
     \/ Refused \in 1..MaxRefused /\ ByHand /\ \A c \in Creators : creator[c].pc = "idle"
  /\ \E d \in Numbers :
       /\ \A e \in Numbers \ {d} : disk'[e] = disk[e]
       /\ disk'[d] = disk[d] => disk' = disk
       /\ Notify(d)
  /\ UNCHANGED loopVars

-----------------------------------------------------------------------------
(* Sync: list the directories, parse each task.md, then upsert. *)

\* ReadDir sorts, and the list is worked off in its order.
NextTodo(d) == d \in todo /\ \A e \in todo : d <= e

\* One of the timers has run out.
SyncStart ==
  /\ phase = "loop" /\ ~syncing
  /\ 0 \in {timer, cap}
  /\ syncing' = TRUE
  /\ Listed(todo', unwritten', unwritten)
  /\ UNCHANGED <<dirVars, index, phase, metas, queue, timer, cap, unheard, watchVars>>

\* A directory without a readable task.md is passed over.
SyncParse(d) ==
  /\ syncing /\ NextTodo(d)
  /\ todo' = todo \ {d}
  /\ metas' = IF disk[d] \in Versions THEN [metas EXCEPT ![d] = disk[d]] ELSE metas
  /\ UNCHANGED <<dirVars, index, phase, syncing, queue, timer, cap, unheard, unwritten, watchVars>>

Parsed == {d \in Numbers : metas[d] # NoMeta}

\* Mutant: UpsertTask without its ON CONFLICT clause.
Upsert_InsertOnly(written) ==
  index' = [d \in Numbers |-> IF d \in written /\ index[d] = NoMeta THEN metas[d] ELSE index[d]]

\* UpsertTask for each of them; rows of directories that are gone stay.
Upsert(written) ==
  index' = [d \in Numbers |-> IF d \in written THEN metas[d] ELSE index[d]]

\* Rows are written for what was parsed.  One that is refused is logged and
\* passed over.  The loop then stops both timers.
SyncEnd ==
  /\ syncing /\ todo = {}
  /\ \E failed \in SUBSET Parsed :
       /\ failed # {} => "row" \in Refusals
       /\ Upsert(Parsed \ failed)
       /\ unwritten' = (unwritten \ Parsed) \cup failed
  /\ metas' = [d \in Numbers |-> NoMeta]
  /\ syncing' = FALSE
  /\ timer' = Off /\ cap' = Off
  /\ phase' = IF phase = "sync" THEN "root" ELSE phase
  /\ UNCHANGED <<dirVars, todo, queue, unheard, watchVars>>

-----------------------------------------------------------------------------
(* watchD: watch the root, list it, watch what is there. *)

\* Serve logs that there is no watcher and goes on without it.
GiveUp ==
  /\ phase' = "none"
  /\ todo' = {} /\ kernel' = {} /\ watched' = {} /\ queue' = <<>>

AddRoot ==
  /\ phase = "root"
  /\ \/ phase' = "list" /\ UNCHANGED <<todo, kernel, watched, queue>>
     \/ "watch" \in Refusals /\ GiveUp
  /\ UNCHANGED <<dirVars, index, metas, syncing, timer, cap, unheard, refused, unwritten>>

ListRoot ==
  /\ phase = "list"
  /\ \/ phase' = "add" /\ todo' = Present /\ UNCHANGED <<kernel, watched, queue>>
     \/ "list" \in Refusals /\ GiveUp
  /\ UNCHANGED <<dirVars, index, metas, syncing, timer, cap, unheard, refused, unwritten>>

\* A directory that has gone since is an error, as is a watch that is refused.
AddNext(d) ==
  /\ phase = "add" /\ NextTodo(d)
  /\ \/ /\ d \in Present
        /\ todo' = todo \ {d}
        /\ kernel' = kernel \cup {d} /\ watched' = watched \cup {d}
        /\ UNCHANGED <<phase, queue>>
     \/ (d \notin Present \/ "watch" \in Refusals) /\ GiveUp
  /\ UNCHANGED <<dirVars, index, metas, syncing, timer, cap, unheard, refused, unwritten>>

EnterLoop ==
  /\ phase = "add" /\ todo = {}
  /\ phase' = "loop"
  /\ UNCHANGED <<dirVars, index, todo, metas, syncing, queue, timer, cap, unheard, unwritten, watchVars>>

-----------------------------------------------------------------------------
(* The event loop. *)

Tick ==
  /\ phase = "loop" /\ ~syncing
  /\ timer > 0 \/ cap > 0
  /\ timer' = IF timer > 0 THEN timer - 1 ELSE timer
  /\ cap' = IF cap > 0 THEN cap - 1 ELSE cap
  /\ UNCHANGED <<dirVars, index, phase, todo, metas, syncing, queue, unheard, unwritten, watchVars>>

\* A watch is asked for, and the answer to it.
Watch(d) ==
  \/ kernel' = kernel \cup {d} /\ watched' = watched \cup {d} /\ refused' = refused \ {d}
  \/ "watch" \in Refusals /\ refused' = refused \cup {d} /\ UNCHANGED <<kernel, watched>>

\* Mutant: fsnotify is taken to watch what is below a watched directory.
HandleEvent_NotRecursive(e) ==
  UNCHANGED watchVars

\* Mutant: a directory that goes stays in the set.
HandleEvent_KeepsRemoved(e) ==
  IF e.op = "create" /\ e.dir \in Present \ watched THEN Watch(e.dir) ELSE UNCHANGED watchVars

\* handleEvent: a directory that was created and is there is watched unless the
\* set has it, and stays without a watch when that is refused; one that was
\* removed loses its watch, a later one's included.
HandleEvent(e) ==
  CASE e.op = "create" /\ e.dir \in Present \ watched -> Watch(e.dir)
    [] e.op = "remove" /\ e.dir \in watched ->
         kernel' = kernel \ {e.dir} /\ watched' = watched \ {e.dir} /\ UNCHANGED refused
    [] OTHER -> UNCHANGED watchVars

\* Mutant: Sync runs in a goroutine of its own while the loop takes events.
TakeEvent_Async ==
  /\ phase = "loop" /\ queue # <<>>
  /\ queue' = Tail(queue)
  /\ HandleEvent(queue[1])
  /\ timer' = Debounce
  /\ cap' = IF cap = Off THEN MaxWait ELSE cap
  /\ UNCHANGED <<dirVars, index, phase, todo, metas, syncing, unheard, unwritten>>

\* Mutant: the cap starts again with every event.
TakeEvent_CapRestarts ==
  /\ phase = "loop" /\ ~syncing /\ queue # <<>>
  /\ queue' = Tail(queue)
  /\ HandleEvent(queue[1])
  /\ timer' = Debounce
  /\ cap' = MaxWait
  /\ UNCHANGED <<dirVars, index, phase, todo, metas, syncing, unheard, unwritten>>

\* Any event restarts the debounce; the cap runs from the first one.
TakeEvent ==
  /\ phase = "loop" /\ ~syncing /\ queue # <<>>
  /\ queue' = Tail(queue)
  /\ HandleEvent(queue[1])
  /\ timer' = Debounce
  /\ cap' = IF cap = Off THEN MaxWait ELSE cap
  /\ UNCHANGED <<dirVars, index, phase, todo, metas, syncing, unheard, unwritten>>

Next ==
  \/ Change
  \/ SyncStart
  \/ \E d \in Numbers : SyncParse(d)
  \/ SyncEnd
  \/ AddRoot
  \/ ListRoot
  \/ \E d \in Numbers : AddNext(d)
  \/ EnterLoop
  \/ Tick
  \/ TakeEvent

Spec == Init /\ [][Next]_vars

\* The watcher's goroutine runs on and time passes.  Nobody is obliged to
\* change a task.  select chooses at random among the channels that are ready
\* and a timer that has run out stays ready, so that its turn comes.
FairSpec ==
  /\ Spec
  /\ WF_vars(Tick) /\ WF_vars(TakeEvent)
  /\ WF_vars(SyncStart) /\ WF_vars(\E d \in Numbers : SyncParse(d)) /\ WF_vars(SyncEnd)
  /\ WF_vars(AddRoot) /\ WF_vars(ListRoot) /\ WF_vars(EnterLoop)
  /\ WF_vars(\E d \in Numbers : AddNext(d))

-----------------------------------------------------------------------------
(* What the watcher is for. *)

Readable == {d \in Numbers : disk[d] \in Versions}

\* The last event about d that is queued says that it was created.
LastCreated(d) ==
  \E i \in 1..Len(queue) : /\ queue[i] = Created(d)
                          /\ \A j \in (i + 1)..Len(queue) : queue[j] # Removed(d)

\* Every directory has a watch that the events still queued will not take away,
\* or will be given one by them, however often it was removed and made again
\* while the loop was busy.  The exceptions are the directories whose own watch
\* was refused, and those of which an event was lost: what is refused or lost of
\* one leaves the others covered.
EveryDirIsCovered ==
  phase = "loop" =>
    \A d \in Present \ (refused \cup unheard) :
      LastCreated(d) \/ (d \in kernel /\ ~Queued(Removed(d)))

\* The index agrees with a task.md, or will once the event that is queued, the
\* armed timer or the Sync that is running has done its part: that Sync has yet
\* to come to the directory or has read what it holds now.
UnderWay(d) ==
  \/ queue # <<>>
  \/ syncing /\ (d \in todo \/ metas[d] = disk[d])
  \/ ~syncing /\ (timer # Off \/ index[d] = disk[d])

\* Exceptions: a directory of which a change was not heard, and one whose row was
\* refused by the last Sync, which nobody repeats.
ChangesArePending ==
  phase # "none" => \A d \in Readable \ (unheard \cup unwritten) : UnderWay(d)

\* Once the loop runs, what happens to a directory goes unheard only when the
\* queue is full or the directory's own watch was refused.
OnlyOverflowOrRefusalLosesChanges ==
  [][phase = "loop" => \A d \in unheard' \ unheard : Len(queue) = QueueLimit \/ d \in refused]_vars

\* When nobody changes a task any more the index comes to agree with every
\* readable task.md, unless there is no watcher, a change of that task was not
\* heard, or its row was refused by the last Sync.
IndexFollows ==
  <>[][FALSE]_disk =>
    <>[](phase = "none" \/ \A d \in Readable \ (unheard \cup unwritten) : index[d] = disk[d])

\* A timer that was armed by an event leads to a Sync even if events never cease
\* (FINDING-037): it does not stay armed for ever.
SyncIsNotPostponed == []<>(timer = Off \/ syncing)
=============================================================================
