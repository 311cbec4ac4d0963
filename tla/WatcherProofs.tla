---------------------------- MODULE WatcherProofs ----------------------------
(***************************************************************************)
(* What holds of the watcher for any number of tasks, creations, versions, *)
(* any limits of time and any length of the kernel's queue.                *)
(***************************************************************************)
EXTENDS Watcher, TLAPS

Contents == {Gone, Empty} \cup Versions
Metas == {NoMeta} \cup Versions
Phases == {"sync", "root", "list", "add", "loop", "none"}
Creation0 == [pc : {"idle", "mkdir", "fill"}, next : Numbers]

DirsType ==
  /\ disk \in [Numbers -> Contents]
  /\ creator \in [Creators -> Creation0]

LoopType ==
  /\ index \in [Numbers -> Metas]
  /\ phase \in Phases
  /\ todo \subseteq Numbers
  /\ metas \in [Numbers -> Metas]
  /\ syncing \in BOOLEAN
  /\ timer \in Int /\ cap \in Int
  /\ unwritten \subseteq Numbers

WatchType ==
  /\ kernel \subseteq Numbers /\ watched \subseteq Numbers
  /\ queue \in Seq(Event) /\ Len(queue) <= QueueLimit
  /\ unheard \subseteq Numbers /\ refused \subseteq Numbers

\* A directory that is being created has no task.md yet.
CreatedIsEmpty ==
  \A c \in Creators : creator[c].pc = "fill" => disk[creator[c].next] = Empty

DirsInv == DirsType /\ CreatedIsEmpty /\ NumbersAreUnique

\* A watch is the watch of a directory that is there and in the set.
WatchesAreThere == kernel \subseteq Present \cap watched

\* The set is ahead of the kernel only while the loop has yet to be told.
SetIsToldOfRemovals ==
  \A d \in (watched \ kernel) \ unheard : Queued(Removed(d))

\* A directory that is there although its removal is queued was made again.
RemovedWasRemade ==
  \A d \in Present \ unheard : Queued(Removed(d)) => LastCreated(d)

\* Every directory has a watch or its creation is queued, or it was refused the
\* watch; while watches are set up it may also be one that is still to be watched.
DirsAreReached ==
  phase \in {"add", "loop"} =>
    \A d \in Present \ unheard :
      d \in kernel \cup refused \/ LastCreated(d) \/ (phase = "add" /\ d \in todo)

\* Before the root is watched and after the watcher was given up there is nothing.
PhaseInv ==
  /\ phase \in {"sync", "root", "list", "none"} => watched = {}
  /\ phase \in {"sync", "root", "none"} => queue = <<>>
  /\ phase \notin {"sync", "loop"} => ~syncing

\* What a Sync has read and not yet written is what the file says, or the news of
\* its change is queued, also where the last Sync was refused the row.
ParsedIsCurrent ==
  /\ ~syncing => Parsed = {}
  /\ \A d \in (Readable \cap Parsed) \ unheard : queue # <<>> \/ metas[d] = disk[d]

WatchInv ==
  /\ LoopType /\ WatchType
  /\ WatchesAreThere
  /\ SetIsToldOfRemovals
  /\ RemovedWasRemade
  /\ DirsAreReached
  /\ PhaseInv
  /\ ParsedIsCurrent
  /\ ChangesArePending

IInv == DirsInv /\ WatchInv

-----------------------------------------------------------------------------
(* The directory. *)

LEMMA NumbersFact == 1 \in Numbers /\ Numbers \subseteq Nat
BY NumberAssumption DEF Numbers

LEMMA ContentsFact == Gone # Empty /\ Gone \notin Versions /\ Empty \notin Versions
BY VersionsAssumption DEF Gone, Empty

\* The steps of createTask keep it that a directory is filled by one request.
LEMMA CreationKeepsDirs ==
  ASSUME DirsInv, Creation
  PROVE  DirsInv'
<1> USE NumbersFact, ContentsFact
<1>1. PICK c \in Creators : ListDirs(c) \/ Mkdir(c) \/ Fill(c)
  BY DEF Creation
<1>2. CASE ListDirs(c)
  BY <1>2 DEF ListDirs, DirsInv, DirsType, CreatedIsEmpty, NumbersAreUnique, Contents, Creation0
<1>3. CASE Mkdir(c)
  <2> DEFINE n == creator[c].next
  <2>1. n \in Numbers /\ n \in Nat /\ MaxNumber \in Nat
    BY NumberAssumption DEF DirsInv, DirsType, Creation0
  <2>2. CASE disk[n] = Gone
    <3>1. disk' = [disk EXCEPT ![n] = Empty] /\ creator' = [creator EXCEPT ![c].pc = "fill"]
      BY <1>3, <2>2 DEF Mkdir
    <3>2. DirsType'
      BY <3>1, <2>1 DEF DirsInv, DirsType, Contents, Creation0
    <3>3. CreatedIsEmpty' /\ NumbersAreUnique'
      BY <3>1, <2>1, <2>2 DEF DirsInv, DirsType, CreatedIsEmpty, NumbersAreUnique, Contents, Creation0
    <3> QED BY <3>2, <3>3 DEF DirsInv
  <2>3. CASE disk[n] # Gone
    <3>1. /\ disk' = disk
          /\ \/ n < MaxNumber /\ creator' = [creator EXCEPT ![c] = [pc |-> "mkdir", next |-> n + 1]]
             \/ creator' = [creator EXCEPT ![c] = NoCreation]
      BY <1>3, <2>3 DEF Mkdir
    <3>2. n < MaxNumber => n + 1 \in Numbers
      BY <2>1 DEF Numbers
    <3> QED BY <3>1, <3>2 DEF DirsInv, DirsType, CreatedIsEmpty, NumbersAreUnique, Contents,
              Creation0, NoCreation
  <2> QED BY <2>2, <2>3
<1>4. CASE Fill(c)
  BY <1>4 DEF Fill, DirsInv, DirsType, CreatedIsEmpty, NumbersAreUnique, Contents, Creation0, NoCreation
<1> QED BY <1>1, <1>2, <1>3, <1>4

\* So do people, who leave the directories that are being created alone.
LEMMA ByHandKeepsDirs ==
  ASSUME DirsInv, ByHand
  PROVE  DirsInv'
<1> USE NumbersFact, ContentsFact
<1>1. PICK d \in Numbers : Write(d) \/ MoveIn(d) \/ Remove(d)
  BY DEF ByHand
<1>2. creator' = creator /\ \E v \in Contents : disk' = [disk EXCEPT ![d] = v]
  BY <1>1 DEF Write, MoveIn, Remove, Contents
<1>3. ~BeingCreated(d)
  <2>1. CASE MoveIn(d)
    BY <2>1 DEF MoveIn, Present, BeingCreated, DirsInv, CreatedIsEmpty
  <2> QED BY <1>1, <2>1 DEF Write, Remove
<1>4. \A c \in Creators : creator[c].pc = "fill" => creator[c].next # d
  BY <1>3 DEF BeingCreated, DirsInv, DirsType, Creation0
<1> QED BY <1>2, <1>4 DEF DirsInv, DirsType, CreatedIsEmpty, NumbersAreUnique, Creation0

LEMMA DirsStep ==
  ASSUME DirsInv, [Next]_vars
  PROVE  DirsInv'
<1>1. CASE Change
  BY <1>1, CreationKeepsDirs, ByHandKeepsDirs DEF Change
<1>2. CASE ~Change
  <2>1. UNCHANGED dirVars
    BY <1>2 DEF Next, vars, SyncStart, SyncParse, SyncEnd, AddRoot, ListRoot, AddNext, EnterLoop,
         Tick, TakeEvent
  <2> QED BY <2>1 DEF dirVars, DirsInv, DirsType, CreatedIsEmpty, NumbersAreUnique
<1> QED BY <1>1, <1>2

LEMMA DirsStart ==
  ASSUME Init
  PROVE  DirsInv
BY NumbersFact DEF Init, DirsInit, DirsInv, DirsType, CreatedIsEmpty, NumbersAreUnique, Contents,
  Creation0, NoCreation

\* createTask gives every task a number of its own, however many requests
\* overlap: Mkdir is what decides.
THEOREM NumbersUnique == Spec => []NumbersAreUnique
<1>1. Init => DirsInv
  BY DirsStart
<1>2. DirsInv /\ [Next]_vars => DirsInv'
  BY DirsStep
<1>3. DirsInv => NumbersAreUnique
  BY DEF DirsInv
<1> QED BY <1>1, <1>2, <1>3, PTL DEF Spec

-----------------------------------------------------------------------------
(* The queue. *)

LEMMA LimitFact == QueueLimit \in Nat \ {0} /\ Debounce \in Nat \ {0} /\ MaxWait \in Nat \ {0}
BY WatcherAssumption

LEMMA EventFact ==
  /\ \A d \in Numbers : Created(d) \in Event /\ Removed(d) \in Event
  /\ Touched \in Event
  /\ \A d, e : Created(d) # Removed(e) /\ Created(d) # Touched /\ Removed(d) # Touched
  /\ \A d, e : (Created(d) = Created(e) => d = e) /\ (Removed(d) = Removed(e) => d = e)
BY DEF Created, Removed, Touched, Event

\* What Post adds: the event, at the end, unless it is lost.  An event about one
\* directory says nothing of the others.
LEMMA PostFacts ==
  ASSUME WatchType, NEW e \in Event, Post(e)
  PROVE  /\ queue' \in Seq(Event) /\ Len(queue') <= QueueLimit /\ queue' # <<>>
         /\ unheard \subseteq unheard' /\ unheard' \subseteq unheard \cup {e.dir}
         /\ e = Touched => unheard' = unheard
         /\ unheard' # unheard => Len(queue) = QueueLimit
         /\ \A x : x = e /\ e # Touched /\ e.dir \notin unheard' => Queued(x)'
         /\ \A x : Queued(x)' => Queued(x) \/ x = e
         /\ \A x : Queued(x) => Queued(x)'
         /\ \A d : e = Created(d) /\ d \notin unheard' => LastCreated(d)'
         /\ \A d : LastCreated(d) /\ e # Removed(d) => LastCreated(d)'
<1> USE LimitFact
<1>1. CASE queue # <<>> /\ queue[Len(queue)] = e
  <2>1. UNCHANGED <<queue, unheard>> /\ Len(queue) \in Nat \ {0}
    BY <1>1 DEF Post, WatchType
  <2>2. \A x : Queued(x)' <=> Queued(x) \/ x = e
    BY <1>1, <2>1 DEF Queued
  <2>3. \A d : e = Created(d) => LastCreated(d)'
    BY <1>1, <2>1 DEF LastCreated
  <2>4. \A d : LastCreated(d) => LastCreated(d)'
    BY <2>1 DEF LastCreated
  <2> QED BY <1>1, <2>1, <2>2, <2>3, <2>4 DEF WatchType
<1>2. CASE ~(queue # <<>> /\ queue[Len(queue)] = e) /\ Len(queue) < QueueLimit
  <2>1. queue' = Append(queue, e) /\ unheard' = unheard
    BY <1>2 DEF Post
  <2>2. /\ queue' \in Seq(Event) /\ Len(queue') = Len(queue) + 1 /\ Len(queue) \in Nat
        /\ queue'[Len(queue) + 1] = e
        /\ \A i \in 1..Len(queue) : queue'[i] = queue[i]
    BY <2>1 DEF WatchType
  <2>3. \A x : Queued(x)' <=> Queued(x) \/ x = e
    BY <2>2 DEF Queued
  <2>4. \A d : e = Created(d) => LastCreated(d)'
    <3> SUFFICES ASSUME NEW d, e = Created(d)
                 PROVE  LastCreated(d)'
      OBVIOUS
    <3>1. Len(queue) + 1 \in 1..Len(queue') /\ queue'[Len(queue) + 1] = Created(d)
      BY <2>2
    <3>2. \A j \in (Len(queue) + 1 + 1)..Len(queue') : queue'[j] # Removed(d)
      BY <2>2
    <3> QED BY <3>1, <3>2 DEF LastCreated
  <2>5. \A d : LastCreated(d) /\ e # Removed(d) => LastCreated(d)'
    <3> SUFFICES ASSUME NEW d, LastCreated(d), e # Removed(d)
                 PROVE  LastCreated(d)'
      OBVIOUS
    <3>1. PICK i \in 1..Len(queue) : /\ queue[i] = Created(d)
                                     /\ \A j \in (i + 1)..Len(queue) : queue[j] # Removed(d)
      BY DEF LastCreated
    <3>2. i \in 1..Len(queue') /\ queue'[i] = Created(d)
      BY <3>1, <2>2
    <3>3. ASSUME NEW j \in (i + 1)..Len(queue')
          PROVE  queue'[j] # Removed(d)
      <4>1. j \in (i + 1)..Len(queue) \/ j = Len(queue) + 1
        BY <2>2
      <4>2. j \in (i + 1)..Len(queue) => j \in 1..Len(queue)
        BY <2>2
      <4> QED BY <4>1, <4>2, <3>1, <2>2
    <3> QED BY <3>2, <3>3 DEF LastCreated
  <2>6. Len(queue') <= QueueLimit /\ queue' # <<>>
    BY <1>2, <2>2
  <2> QED BY <2>1, <2>2, <2>3, <2>4, <2>5, <2>6 DEF WatchType
<1>3. CASE ~(queue # <<>> /\ queue[Len(queue)] = e) /\ ~(Len(queue) < QueueLimit)
  <2>1. queue' = queue /\ unheard' = IF e = Touched THEN unheard ELSE unheard \cup {e.dir}
    BY <1>3 DEF Post
  <2>2. Len(queue) = QueueLimit /\ queue # <<>>
    BY <1>3 DEF WatchType
  <2>3. \A x : Queued(x)' <=> Queued(x)
    BY <2>1 DEF Queued
  <2>4. \A d : LastCreated(d)' <=> LastCreated(d)
    BY <2>1 DEF LastCreated
  <2>5. e # Touched => e.dir \in unheard'
    BY <2>1
  <2>6. \A d : e = Created(d) => e # Touched /\ e.dir = d
    <3>1. \A d : Created(d) # Touched
      BY EventFact
    <3>2. \A d : Created(d).dir = d
      BY DEF Created
    <3> QED BY <3>1, <3>2
  <2>7. unheard \subseteq unheard' /\ unheard' \subseteq unheard \cup {e.dir}
    BY <2>1
  <2>8. e = Touched => unheard' = unheard
    BY <2>1
  <2>9. queue' \in Seq(Event) /\ Len(queue') <= QueueLimit /\ queue' # <<>>
    BY <2>1, <2>2 DEF WatchType
  <2> QED BY <2>2, <2>3, <2>4, <2>5, <2>6, <2>7, <2>8, <2>9
<1> QED BY <1>1, <1>2, <1>3

\* What taking an event off the queue leaves in it.
LEMMA TakeFacts ==
  ASSUME WatchType, queue # <<>>, queue' = Tail(queue)
  PROVE  /\ queue[1] \in Event
         /\ queue' \in Seq(Event) /\ Len(queue') <= QueueLimit
         /\ \A x : Queued(x)' => Queued(x)
         /\ \A x : Queued(x) /\ x # queue[1] => Queued(x)'
         /\ \A d : LastCreated(d) => LastCreated(d)' \/ (queue[1] = Created(d) /\ ~Queued(Removed(d))')
<1> USE LimitFact
<1>1. /\ queue' \in Seq(Event) /\ Len(queue) \in Nat \ {0} /\ Len(queue') = Len(queue) - 1
      /\ queue[1] \in Event
      /\ \A i \in 1..Len(queue') : queue'[i] = queue[i + 1] /\ i + 1 \in 1..Len(queue)
  BY DEF WatchType
<1>2. \A i \in 1..Len(queue) : i = 1 \/ (i - 1 \in 1..Len(queue') /\ queue'[i - 1] = queue[i])
  BY <1>1
<1>3. \A x : Queued(x)' => Queued(x)
  BY <1>1 DEF Queued
<1>4. \A x : Queued(x) /\ x # queue[1] => Queued(x)'
  BY <1>2 DEF Queued
<1>5. ASSUME NEW d, LastCreated(d)
      PROVE  LastCreated(d)' \/ (queue[1] = Created(d) /\ ~Queued(Removed(d))')
  <2>1. PICK i \in 1..Len(queue) : /\ queue[i] = Created(d)
                                   /\ \A j \in (i + 1)..Len(queue) : queue[j] # Removed(d)
    BY <1>5 DEF LastCreated
  <2>2. CASE i = 1
    <3>1. \A k \in 1..Len(queue') : k + 1 \in (i + 1)..Len(queue)
      BY <2>2, <1>1
    <3> QED BY <3>1, <2>1, <2>2, <1>1 DEF Queued
  <2>3. CASE i # 1
    <3>1. i - 1 \in 1..Len(queue') /\ queue'[i - 1] = Created(d)
      BY <2>1, <2>3, <1>2
    <3>2. ASSUME NEW k \in (i - 1 + 1)..Len(queue')
          PROVE  queue'[k] # Removed(d)
      <4>1. k \in 1..Len(queue') /\ k + 1 \in (i + 1)..Len(queue)
        BY <1>1, <2>3
      <4> QED BY <4>1, <2>1, <1>1
    <3> QED BY <3>1, <3>2 DEF LastCreated
  <2> QED BY <2>2, <2>3
<1>6. Len(queue') <= QueueLimit
  BY <1>1 DEF WatchType
<1> QED BY <1>1, <1>3, <1>4, <1>5, <1>6

-----------------------------------------------------------------------------
(* The watcher's own steps. *)

LEMMA SyncStartStep ==
  ASSUME IInv, SyncStart
  PROVE  WatchInv'
<1>1. /\ syncing' /\ phase = "loop" /\ ~syncing
      /\ UNCHANGED <<dirVars, index, phase, metas, queue, timer, cap, unheard, kernel, watched, refused>>
  BY DEF SyncStart, watchVars
<1>2. /\ Present \subseteq Numbers /\ todo' \subseteq Numbers
      /\ Present \subseteq todo' \cup unwritten'
      /\ unwritten \subseteq unwritten' /\ unwritten' \subseteq Numbers
  BY DEF SyncStart, Listed, Present, IInv, WatchInv, LoopType
<1>3. syncing' \in BOOLEAN
  BY DEF SyncStart
<1>4. LoopType' /\ WatchType'
  BY <1>1, <1>2, <1>3 DEF IInv, WatchInv, LoopType, WatchType
<1>5. ChangesArePending'
  <2>1. Readable' \subseteq Present
    BY <1>1, ContentsFact DEF Readable, Present, dirVars
  <2> QED BY <1>1, <1>2, <2>1 DEF ChangesArePending, UnderWay
<1>6. ParsedIsCurrent'
  BY <1>1 DEF IInv, WatchInv, ParsedIsCurrent, Parsed
<1>7. /\ WatchesAreThere' /\ SetIsToldOfRemovals' /\ RemovedWasRemade' /\ DirsAreReached' /\ PhaseInv'
  BY <1>1 DEF IInv, WatchInv, WatchesAreThere, SetIsToldOfRemovals, RemovedWasRemade, DirsAreReached,
     PhaseInv, Queued, LastCreated, Present, dirVars
<1> QED BY <1>4, <1>5, <1>6, <1>7 DEF WatchInv

LEMMA SyncParseStep ==
  ASSUME IInv, NEW d \in Numbers, SyncParse(d)
  PROVE  WatchInv'
<1>1. /\ syncing /\ todo' = todo \ {d}
      /\ metas' = IF disk[d] \in Versions THEN [metas EXCEPT ![d] = disk[d]] ELSE metas
      /\ UNCHANGED <<dirVars, index, phase, syncing, queue, timer, cap, unheard, unwritten,
                     kernel, watched, refused>>
  BY DEF SyncParse, watchVars
<1>2. LoopType' /\ WatchType'
  BY <1>1 DEF IInv, WatchInv, LoopType, WatchType, Metas
<1>3. ChangesArePending'
  BY <1>1 DEF IInv, WatchInv, LoopType, ChangesArePending, UnderWay, Readable, dirVars
<1>4. phase # "add"
  BY <1>1 DEF IInv, WatchInv, PhaseInv
<1>5. ParsedIsCurrent'
  BY <1>1 DEF IInv, WatchInv, LoopType, ParsedIsCurrent, Parsed, Readable, dirVars
<1>6. /\ WatchesAreThere' /\ SetIsToldOfRemovals' /\ RemovedWasRemade' /\ DirsAreReached' /\ PhaseInv'
  BY <1>1, <1>4 DEF IInv, WatchInv, WatchesAreThere, SetIsToldOfRemovals, RemovedWasRemade,
     DirsAreReached, PhaseInv, Queued, LastCreated, Present, dirVars
<1> QED BY <1>2, <1>3, <1>5, <1>6 DEF WatchInv

\* A row that was parsed is written, or noted as refused.
LEMMA SyncEndStep ==
  ASSUME IInv, SyncEnd
  PROVE  WatchInv'
<1>1. /\ syncing /\ todo = {} /\ ~syncing'
      /\ metas' = [d \in Numbers |-> NoMeta]
      /\ timer' = -1 /\ cap' = -1
      /\ phase' = IF phase = "sync" THEN "root" ELSE phase
      /\ UNCHANGED <<dirVars, todo, queue, unheard, kernel, watched, refused>>
  BY DEF SyncEnd, Off, watchVars
<1>2. PICK failed \in SUBSET Parsed :
        /\ index' = [d \in Numbers |-> IF d \in Parsed \ failed THEN metas[d] ELSE index[d]]
        /\ unwritten' = (unwritten \ Parsed) \cup failed
  BY DEF SyncEnd, Upsert
<1>3. phase \in {"sync", "loop"} /\ phase' \in {"root", "loop"}
  BY <1>1 DEF IInv, WatchInv, PhaseInv
<1>4. LoopType' /\ WatchType'
  <2>1. index' \in [Numbers -> Metas] /\ metas' \in [Numbers -> Metas]
    <3>1. \A d \in Numbers : index'[d] \in Metas
      BY <1>2 DEF IInv, WatchInv, LoopType
    <3> QED BY <1>1, <1>2, <3>1 DEF Metas
  <2>2. phase' \in Phases /\ timer' \in Int /\ cap' \in Int /\ syncing' \in BOOLEAN
    <3>1. phase' \in Phases
      BY <1>3 DEF Phases
    <3>2. timer' \in Int /\ cap' \in Int
      BY <1>1
    <3>3. syncing' \in BOOLEAN
      BY DEF SyncEnd
    <3> QED BY <3>1, <3>2, <3>3
  <2>3. unwritten' \subseteq Numbers
    BY <1>2 DEF Parsed, IInv, WatchInv, LoopType
  <2> QED BY <1>1, <2>1, <2>2, <2>3 DEF IInv, WatchInv, LoopType, WatchType
<1>5. ChangesArePending'
  <2>1. ASSUME NEW d \in Readable, d \notin unwritten', metas[d] = disk[d]
        PROVE  index'[d] = disk[d]
    <3>1. d \in Numbers /\ d \in Parsed
      BY <2>1, NoMetaAssumption DEF Readable, Parsed
    <3> QED BY <3>1, <2>1, <1>2
  <2>3. Readable' = Readable
    BY <1>1 DEF Readable, dirVars
  <2>4. ASSUME NEW d \in Readable, d \notin unheard, d \notin unwritten', queue = <<>>
        PROVE  index'[d] = disk[d]
    <3>1. CASE d \notin unwritten
      BY <3>1, <2>4, <2>1, <1>1, <1>3 DEF IInv, WatchInv, ChangesArePending, UnderWay
    <3>2. CASE d \in unwritten
      <4>1. d \in Parsed
        BY <3>2, <2>4, <1>2
      <4>2. metas[d] = disk[d]
        BY <4>1, <2>4 DEF IInv, WatchInv, ParsedIsCurrent
      <4> QED BY <4>2, <2>1, <2>4
    <3> QED BY <3>1, <3>2
  <2> QED BY <1>1, <2>3, <2>4 DEF ChangesArePending, UnderWay, dirVars
<1>6. /\ WatchesAreThere' /\ SetIsToldOfRemovals' /\ RemovedWasRemade' /\ DirsAreReached' /\ PhaseInv'
  BY <1>1, <1>3 DEF IInv, WatchInv, WatchesAreThere, SetIsToldOfRemovals, RemovedWasRemade,
     DirsAreReached, PhaseInv, Queued, LastCreated, Present, dirVars
<1>7. ParsedIsCurrent'
  BY <1>1 DEF ParsedIsCurrent, Parsed
<1> QED BY <1>4, <1>5, <1>6, <1>7 DEF WatchInv

\* The watcher is given up: nothing is watched, and nothing queued.
LEMMA GiveUpStep ==
  ASSUME IInv, GiveUp, ~syncing,
         UNCHANGED <<dirVars, index, metas, syncing, timer, cap, unheard, refused, unwritten>>
  PROVE  WatchInv'
<1>1. todo' = {} /\ kernel' = {} /\ watched' = {} /\ phase' = "none" /\ queue' = <<>>
  BY DEF GiveUp
<1>2. LoopType' /\ WatchType'
  BY <1>1, LimitFact DEF IInv, WatchInv, LoopType, WatchType, Phases
<1>3. \A x : ~Queued(x)'
  BY <1>1 DEF Queued
<1>4. ChangesArePending' /\ WatchesAreThere' /\ SetIsToldOfRemovals' /\ DirsAreReached'
  BY <1>1 DEF ChangesArePending, WatchesAreThere, SetIsToldOfRemovals, DirsAreReached
<1>5. RemovedWasRemade' /\ PhaseInv' /\ ParsedIsCurrent'
  BY <1>1, <1>3 DEF IInv, WatchInv, RemovedWasRemade, PhaseInv, ParsedIsCurrent, Parsed
<1> QED BY <1>2, <1>4, <1>5 DEF WatchInv

\* The steps that only move the set-up on, and the passing of time.
LEMMA QuietStep ==
  ASSUME IInv, AddRoot \/ ListRoot \/ EnterLoop \/ Tick
  PROVE  WatchInv'
<1>1. UNCHANGED <<dirVars, index, metas, syncing, unheard, refused, unwritten>> /\ ~syncing
  BY DEF IInv, WatchInv, PhaseInv, AddRoot, ListRoot, EnterLoop, Tick, watchVars
<1>2. CASE GiveUp /\ UNCHANGED <<timer, cap>>
  BY <1>1, <1>2, GiveUpStep
<1>3. CASE ~(GiveUp /\ UNCHANGED <<timer, cap>>)
  <2>1. UNCHANGED <<kernel, watched, queue>>
    BY <1>3 DEF AddRoot, ListRoot, EnterLoop, Tick, watchVars
  <2>2. \/ phase = "root" /\ phase' = "list" /\ UNCHANGED <<todo, timer, cap>>
        \/ phase = "list" /\ phase' = "add" /\ todo' = Present /\ UNCHANGED <<timer, cap>>
        \/ phase = "add" /\ todo = {} /\ phase' = "loop" /\ UNCHANGED <<todo, timer, cap>>
        \/ phase = "loop" /\ Tick /\ UNCHANGED <<todo, phase>>
    BY <1>3 DEF AddRoot, ListRoot, EnterLoop, Tick
  <2>3. timer' \in Int /\ cap' \in Int /\ (timer # Off => timer' # Off)
    BY <2>2 DEF Tick, IInv, WatchInv, LoopType, Off
  <2>4. LoopType' /\ WatchType'
    BY <1>1, <2>1, <2>2, <2>3 DEF IInv, WatchInv, LoopType, WatchType, Phases, Present
  <2>5. ChangesArePending' /\ ParsedIsCurrent'
    BY <1>1, <2>1, <2>2, <2>3 DEF IInv, WatchInv, ChangesArePending, UnderWay, ParsedIsCurrent, Parsed,
       Readable, dirVars
  <2>6. DirsAreReached'
    BY <1>1, <2>1, <2>2 DEF IInv, WatchInv, DirsAreReached, LastCreated, Present, dirVars
  <2>7. /\ WatchesAreThere' /\ SetIsToldOfRemovals' /\ RemovedWasRemade' /\ PhaseInv'
    BY <1>1, <2>1, <2>2 DEF IInv, WatchInv, WatchesAreThere, SetIsToldOfRemovals, RemovedWasRemade,
       PhaseInv, Queued, LastCreated, Present, dirVars
  <2> QED BY <2>4, <2>5, <2>6, <2>7 DEF WatchInv
<1> QED BY <1>2, <1>3

LEMMA AddNextStep ==
  ASSUME IInv, NEW d \in Numbers, AddNext(d)
  PROVE  WatchInv'
<1>1. phase = "add" /\ UNCHANGED <<dirVars, index, metas, syncing, timer, cap, unheard, refused, unwritten>>
  BY DEF AddNext
<1>2. ~syncing
  BY <1>1 DEF IInv, WatchInv, PhaseInv
<1>3. CASE GiveUp
  BY <1>1, <1>2, <1>3, GiveUpStep
<1>4. CASE ~GiveUp
  <2>1. /\ d \in Present
        /\ todo' = todo \ {d} /\ kernel' = kernel \cup {d} /\ watched' = watched \cup {d}
        /\ UNCHANGED <<phase, queue>>
    BY <1>4 DEF AddNext
  <2>2. LoopType' /\ WatchType'
    BY <1>1, <2>1 DEF IInv, WatchInv, LoopType, WatchType
  <2>3. ChangesArePending' /\ ParsedIsCurrent'
    BY <1>1, <1>2, <2>1 DEF IInv, WatchInv, ChangesArePending, UnderWay, ParsedIsCurrent, Parsed, Readable,
       dirVars
  <2>4. /\ WatchesAreThere' /\ SetIsToldOfRemovals' /\ RemovedWasRemade' /\ DirsAreReached' /\ PhaseInv'
    BY <1>1, <2>1 DEF IInv, WatchInv, WatchesAreThere, SetIsToldOfRemovals, RemovedWasRemade,
       DirsAreReached, PhaseInv, Queued, LastCreated, Present, dirVars
  <2> QED BY <2>2, <2>3, <2>4 DEF WatchInv
<1> QED BY <1>3, <1>4

LEMMA TakeEventStep ==
  ASSUME IInv, TakeEvent
  PROVE  WatchInv'
<1> DEFINE e == queue[1]
<1> USE EventFact, LimitFact
<1>1. /\ phase = "loop" /\ ~syncing /\ queue # <<>> /\ queue' = Tail(queue)
      /\ HandleEvent(e) /\ timer' = Debounce /\ cap' = IF cap = Off THEN MaxWait ELSE cap
      /\ UNCHANGED <<dirVars, index, phase, todo, metas, syncing, unheard, unwritten>>
  BY DEF TakeEvent
<1>2. /\ e \in Event
      /\ queue' \in Seq(Event) /\ Len(queue') <= QueueLimit
      /\ \A x : Queued(x)' => Queued(x)
      /\ \A x : Queued(x) /\ x # e => Queued(x)'
      /\ \A d : LastCreated(d) => LastCreated(d)' \/ (e = Created(d) /\ ~Queued(Removed(d))')
  BY <1>1, TakeFacts DEF IInv, WatchInv
<1>3. \/ \E d \in Present \ watched : e = Created(d) /\ Watch(d)
      \/ \E d \in watched : /\ e = Removed(d) /\ refused' = refused
                            /\ kernel' = kernel \ {d} /\ watched' = watched \ {d}
      \/ /\ \A d \in Present \ watched : e # Created(d)
         /\ \A d \in watched : e # Removed(d)
         /\ UNCHANGED <<kernel, watched, refused>>
  <2>1. PICK d \in Numbers \cup {0} : e = Touched \/ e = Created(d) \/ e = Removed(d)
    BY <1>2 DEF Event
  <2>2. CASE e = Touched
    BY <1>1, <2>2 DEF HandleEvent, Touched, watchVars
  <2>3. CASE e = Created(d)
    <3>1. e.op = "create" /\ e.dir = d
      BY <2>3 DEF Created
    <3> QED BY <1>1, <2>3, <3>1 DEF HandleEvent, watchVars
  <2>4. CASE e = Removed(d)
    <3>1. e.op = "remove" /\ e.dir = d
      BY <2>4 DEF Removed
    <3> QED BY <1>1, <2>4, <3>1 DEF HandleEvent, watchVars
  <2> QED BY <2>1, <2>2, <2>3, <2>4
<1>4. Present' = Present /\ Present \subseteq Numbers
  BY <1>1 DEF Present, dirVars
<1>5. LoopType' /\ WatchType'
  BY <1>1, <1>2, <1>3, <1>4 DEF IInv, WatchInv, LoopType, WatchType, Watch
<1>6. WatchesAreThere'
  BY <1>3, <1>4 DEF IInv, WatchInv, WatchesAreThere, Watch
<1>7. SetIsToldOfRemovals'
  BY <1>1, <1>2, <1>3 DEF IInv, WatchInv, SetIsToldOfRemovals, Watch
<1>8. RemovedWasRemade'
  BY <1>1, <1>2, <1>4 DEF IInv, WatchInv, RemovedWasRemade
<1>9. DirsAreReached'
  <2> SUFFICES ASSUME NEW d \in Present, d \notin unheard, d \notin kernel' \cup refused'
               PROVE  LastCreated(d)'
    BY <1>1, <1>4 DEF DirsAreReached
  <2>1. LastCreated(d)
    BY <1>1, <1>3 DEF IInv, WatchInv, DirsAreReached, RemovedWasRemade, WatchesAreThere,
       SetIsToldOfRemovals, Queued, WatchType, Watch
  <2>2. e = Created(d) => Queued(Removed(d))'
    BY <1>2, <1>3 DEF IInv, WatchInv, SetIsToldOfRemovals, Watch
  <2> QED BY <2>1, <2>2, <1>2
<1>10. ChangesArePending' /\ ParsedIsCurrent'
  BY <1>1 DEF ChangesArePending, UnderWay, Off, ParsedIsCurrent, Parsed, IInv, WatchInv
<1>11. PhaseInv'
  BY <1>1 DEF PhaseInv
<1> QED BY <1>5, <1>6, <1>7, <1>8, <1>9, <1>10, <1>11 DEF WatchInv

-----------------------------------------------------------------------------
(* The changes that others make. *)

\* What a change of one directory does to the queue and the watches.
LEMMA ChangeStep ==
  ASSUME IInv, Change
  PROVE  /\ WatchInv'
         /\ phase = "loop" => \A d \in unheard' \ unheard : Len(queue) = QueueLimit \/ d \in refused
<1> USE EventFact, ContentsFact, LimitFact
<1>1. PICK d \in Numbers :
        /\ \A e \in Numbers \ {d} : disk'[e] = disk[e]
        /\ disk'[d] = disk[d] => disk' = disk
        /\ Notify(d)
  BY DEF Change
<1>2. UNCHANGED <<index, phase, todo, metas, syncing, watched, timer, cap, unwritten>>
  BY DEF Change, loopVars
<1>3. disk' \in [Numbers -> Contents] /\ disk \in [Numbers -> Contents]
  <2>1. Creation \/ ByHand
    BY DEF Change
  <2> QED BY <2>1, CreationKeepsDirs, ByHandKeepsDirs DEF IInv, DirsInv, DirsType
<1>4. LoopType'
  BY <1>2 DEF IInv, WatchInv, LoopType
<1>5. \A x \in Readable' \ {d} : x \in Readable /\ disk'[x] = disk[x]
  BY <1>1 DEF Readable
<1>6. CASE disk' = disk
  <2>1. UNCHANGED <<kernel, queue, unheard, refused>>
    BY <1>1, <1>6 DEF Notify
  <2> QED BY <1>2, <1>4, <1>6, <2>1 DEF IInv, WatchInv, WatchType, WatchesAreThere,
            SetIsToldOfRemovals, RemovedWasRemade, DirsAreReached, PhaseInv, ChangesArePending,
            ParsedIsCurrent, Parsed, UnderWay, Readable, Queued, LastCreated, Present
<1>7. CASE disk[d] # disk'[d] /\ (disk[d] = Gone \/ disk'[d] = Gone)
  <2> DEFINE e == IF disk[d] = Gone THEN Created(d) ELSE Removed(d)
  <2>1. kernel' = kernel \ {d} /\ refused' = refused \ {d}
    BY <1>1, <1>7 DEF Notify
  <2>2. IF RootWatched THEN Post(e) ELSE unheard' = unheard \cup {d} /\ UNCHANGED queue
    BY <1>1, <1>7 DEF Notify
  <2>3. IF disk[d] = Gone THEN Present' = Present \cup {d} /\ d \notin Present
                          ELSE Present' = Present \ {d} /\ d \in Present
    BY <1>1, <1>3, <1>7 DEF Present
  <2>4. WatchesAreThere'
    BY <1>2, <2>1, <2>3 DEF IInv, WatchInv, WatchesAreThere
  <2>5. CASE RootWatched
    <3>1. e \in Event /\ e # Touched /\ e.dir = d
      BY DEF Created, Removed
    <3>2. /\ disk[d] = Gone => e = Created(d)
          /\ disk[d] # Gone => e = Removed(d)
      BY DEF e
    <3>3. Post(e) /\ WatchType
      BY <2>2, <2>5 DEF IInv, WatchInv
    <3> HIDE DEF e
    <3>4. /\ queue' \in Seq(Event) /\ Len(queue') <= QueueLimit /\ queue' # <<>>
          /\ unheard \subseteq unheard' /\ unheard' \subseteq unheard \cup {d}
          /\ unheard' # unheard => Len(queue) = QueueLimit
          /\ \A x : x = e /\ d \notin unheard' => Queued(x)'
          /\ \A x : Queued(x)' => Queued(x) \/ x = e
          /\ \A x : Queued(x) => Queued(x)'
          /\ \A x : e = Created(x) /\ x \notin unheard' => LastCreated(x)'
          /\ \A x : LastCreated(x) /\ e # Removed(x) => LastCreated(x)'
      BY <3>1, <3>3, PostFacts
    <3>5. WatchType'
      <4>1. kernel \subseteq Numbers /\ watched \subseteq Numbers /\ unheard \subseteq Numbers /\ refused \subseteq Numbers
        BY DEF IInv, WatchInv, WatchType
      <4> QED BY <1>2, <2>1, <3>4, <4>1 DEF WatchType
    <3>6. SetIsToldOfRemovals'
      <4> SUFFICES ASSUME NEW x \in watched, x \notin kernel', x \notin unheard'
                   PROVE  Queued(Removed(x))'
        BY <1>2 DEF SetIsToldOfRemovals
      <4>1. CASE x \in kernel
        BY <4>1, <2>1, <2>3, <3>4, <3>2 DEF IInv, WatchInv, WatchesAreThere
      <4>2. CASE x \notin kernel
        BY <4>2, <3>4 DEF IInv, WatchInv, SetIsToldOfRemovals
      <4> QED BY <4>1, <4>2
    <3>7. RemovedWasRemade'
      BY <2>3, <3>4, <3>2 DEF IInv, WatchInv, RemovedWasRemade
    <3>8. DirsAreReached'
      BY <1>2, <2>1, <2>3, <3>4, <3>2 DEF IInv, WatchInv, DirsAreReached
    <3>9. PhaseInv' /\ ChangesArePending' /\ ParsedIsCurrent'
      BY <1>2, <2>5, <3>4 DEF IInv, WatchInv, PhaseInv, RootWatched, ChangesArePending, UnderWay,
         ParsedIsCurrent, Parsed
    <3> QED BY <1>4, <2>4, <3>4, <3>5, <3>6, <3>7, <3>8, <3>9 DEF WatchInv
  <2>6. CASE ~RootWatched
    <3>1. unheard' = unheard \cup {d} /\ queue' = queue
      BY <2>2, <2>6
    <3>2. phase \in {"sync", "root", "none"} /\ watched = {} /\ queue = <<>>
      BY <2>6 DEF IInv, WatchInv, LoopType, Phases, PhaseInv, RootWatched
    <3>3. WatchType'
      <4>1. kernel \subseteq Numbers /\ watched \subseteq Numbers /\ unheard \subseteq Numbers /\ refused \subseteq Numbers
        BY DEF IInv, WatchInv, WatchType
      <4> QED BY <1>2, <2>1, <3>1, <4>1 DEF IInv, WatchInv, WatchType
    <3>4. SetIsToldOfRemovals' /\ RemovedWasRemade' /\ DirsAreReached'
      BY <1>2, <3>1, <3>2 DEF SetIsToldOfRemovals, RemovedWasRemade, DirsAreReached, Queued
    <3>5. PhaseInv'
      BY <1>2, <3>1 DEF IInv, WatchInv, PhaseInv
    <3>6. ChangesArePending' /\ ParsedIsCurrent'
      BY <1>2, <1>5, <3>1 DEF IInv, WatchInv, ChangesArePending, UnderWay, ParsedIsCurrent, Parsed
    <3> QED BY <1>4, <2>4, <3>2, <3>3, <3>4, <3>5, <3>6 DEF WatchInv
  <2> QED BY <2>5, <2>6
<1>8. CASE disk[d] # disk'[d] /\ disk[d] # Gone /\ disk'[d] # Gone
  <2>1. /\ kernel' = kernel /\ refused' = refused
        /\ IF d \in kernel THEN Post(Touched)
           ELSE /\ unheard' = IF Queued(Created(d)) THEN unheard ELSE unheard \cup {d}
                /\ UNCHANGED queue
    BY <1>1, <1>8 DEF Notify
  <2>2. Present' = Present /\ d \in Present
    BY <1>1, <1>3, <1>8 DEF Present
  <2>3. CASE d \in kernel
    <3>1. /\ queue' \in Seq(Event) /\ Len(queue') <= QueueLimit /\ queue' # <<>>
          /\ unheard' = unheard
          /\ \A x : Queued(x)' => Queued(x) \/ x = Touched
          /\ \A x : Queued(x) => Queued(x)'
          /\ \A x : LastCreated(x) => LastCreated(x)'
      BY <2>1, <2>3, PostFacts DEF IInv, WatchInv
    <3>2. WatchType' /\ WatchesAreThere'
      BY <1>2, <2>1, <2>2, <3>1 DEF IInv, WatchInv, WatchType, WatchesAreThere
    <3>3. SetIsToldOfRemovals' /\ RemovedWasRemade' /\ DirsAreReached'
      BY <1>2, <2>1, <2>2, <3>1 DEF IInv, WatchInv, SetIsToldOfRemovals, RemovedWasRemade, DirsAreReached
    <3>4. phase \notin {"sync", "root", "none"}
      BY <2>3 DEF IInv, WatchInv, PhaseInv, WatchesAreThere
    <3>5. PhaseInv' /\ ChangesArePending' /\ ParsedIsCurrent'
      BY <1>2, <3>1, <3>4 DEF IInv, WatchInv, PhaseInv, ChangesArePending, UnderWay, ParsedIsCurrent, Parsed
    <3> QED BY <1>4, <3>1, <3>2, <3>3, <3>5 DEF WatchInv
  <2>4. CASE d \notin kernel
    <3>1. queue' = queue /\ unheard' = IF Queued(Created(d)) THEN unheard ELSE unheard \cup {d}
      BY <2>1, <2>4
    <3>2. phase = "loop" => \A x \in unheard' \ unheard : x \in refused
      BY <2>2, <2>4, <3>1 DEF IInv, WatchInv, DirsAreReached, LastCreated, Queued
    <3>3. WatchType' /\ WatchesAreThere'
      BY <1>2, <2>1, <2>2, <3>1 DEF IInv, WatchInv, WatchType, WatchesAreThere
    <3>4. SetIsToldOfRemovals' /\ RemovedWasRemade' /\ DirsAreReached'
      BY <1>2, <2>1, <2>2, <3>1 DEF IInv, WatchInv, SetIsToldOfRemovals, RemovedWasRemade, DirsAreReached,
         Queued, LastCreated
    <3>5. PhaseInv'
      BY <1>2, <3>1 DEF IInv, WatchInv, PhaseInv
    <3>6. Queued(Created(d)) => queue # <<>>
      BY DEF Queued
    <3>7. ChangesArePending' /\ ParsedIsCurrent'
      BY <1>2, <1>5, <3>1, <3>6 DEF IInv, WatchInv, ChangesArePending, UnderWay, ParsedIsCurrent, Parsed
    <3> QED BY <1>4, <3>2, <3>3, <3>4, <3>5, <3>7 DEF WatchInv
  <2> QED BY <2>3, <2>4
<1> QED BY <1>1, <1>6, <1>7, <1>8

-----------------------------------------------------------------------------
(* The theorems. *)

LEMMA WatchStart ==
  ASSUME Init
  PROVE  IInv
<1>1. DirsInv
  BY DirsStart
<1>2. LoopType /\ WatchType
  <2>1. index \in [Numbers -> Metas] /\ metas \in [Numbers -> Metas]
    BY DEF Init, Metas
  <2>2. /\ todo \subseteq Numbers /\ kernel \subseteq Numbers /\ watched \subseteq Numbers
        /\ unwritten \subseteq Numbers /\ unheard \subseteq Numbers /\ refused \subseteq Numbers
    BY DEF Init, Listed, Present
  <2>3. queue \in Seq(Event) /\ Len(queue) <= QueueLimit
    BY LimitFact DEF Init
  <2>4. timer \in Int /\ cap \in Int /\ phase \in Phases /\ syncing \in BOOLEAN
    <3>1. timer \in Int /\ cap \in Int
      BY DEF Init, Off
    <3>2. phase \in Phases
      BY DEF Init, Phases
    <3>3. syncing \in BOOLEAN
      BY DEF Init
    <3> QED BY <3>1, <3>2, <3>3
  <2> QED BY <2>1, <2>2, <2>3, <2>4 DEF LoopType, WatchType
<1>3. ChangesArePending /\ ParsedIsCurrent
  BY ContentsFact DEF Init, Listed, ChangesArePending, UnderWay, Readable, Present, ParsedIsCurrent, Parsed
<1>4. WatchesAreThere /\ SetIsToldOfRemovals /\ RemovedWasRemade /\ DirsAreReached /\ PhaseInv
  BY DEF Init, WatchesAreThere, SetIsToldOfRemovals, RemovedWasRemade, DirsAreReached, PhaseInv, Queued
<1> QED BY <1>1, <1>2, <1>3, <1>4 DEF IInv, WatchInv

LEMMA WatchStep ==
  ASSUME IInv, [Next]_vars
  PROVE  IInv'
<1>1. DirsInv'
  BY DirsStep DEF IInv
<1>2. CASE Next
  BY <1>1, <1>2, ChangeStep, SyncStartStep, SyncParseStep, SyncEndStep, QuietStep, AddNextStep,
     TakeEventStep DEF Next, IInv
<1>3. CASE UNCHANGED vars
  BY <1>1, <1>3 DEF vars, dirVars, loopVars, IInv, WatchInv, LoopType, WatchType, WatchesAreThere,
     SetIsToldOfRemovals, RemovedWasRemade, DirsAreReached, PhaseInv, ChangesArePending, UnderWay,
     ParsedIsCurrent, Parsed, Readable, Queued, LastCreated, Present
<1> QED BY <1>2, <1>3

\* The strengthening: what is watched, what is in the watcher's set and what is
\* queued stay in step over every removal, re-creation and refused watch.
THEOREM WatchInvariant == Spec => []IInv
BY WatchStart, WatchStep, PTL DEF Spec

\* No directory is left without a watch or the news of its creation, but for those
\* whose own watch was refused or of which an event was lost.
THEOREM DirsCovered == Spec => []EveryDirIsCovered
<1>1. IInv => EveryDirIsCovered
  BY DEF IInv, WatchInv, EveryDirIsCovered, RemovedWasRemade, DirsAreReached
<1> QED BY <1>1, WatchInvariant, PTL

\* Wherever the index is behind a task.md, a Sync that will see it is under way,
\* unless its change went unheard or its row was refused.
THEOREM ChangesPending == Spec => []ChangesArePending
<1>1. IInv => ChangesArePending
  BY DEF IInv, WatchInv
<1> QED BY <1>1, WatchInvariant, PTL

\* Once the loop runs a change goes unheard only when the queue is full or the
\* directory's watch was refused.
THEOREM LossesHaveACause == Spec => OnlyOverflowOrRefusalLosesChanges
<1> DEFINE Cause == phase = "loop" => \A d \in unheard' \ unheard : Len(queue) = QueueLimit \/ d \in refused
<1>1. IInv /\ [Next]_vars => [Cause]_vars
  <2> SUFFICES ASSUME IInv, Next
               PROVE  Cause
    OBVIOUS
  <2>1. CASE Change
    BY <2>1, ChangeStep
  <2>2. CASE ~Change
    BY <2>2 DEF Next, SyncStart, SyncParse, SyncEnd, AddRoot, ListRoot, AddNext, EnterLoop, Tick, TakeEvent
  <2> QED BY <2>1, <2>2
<1> QED BY <1>1, WatchInvariant, PTL DEF Spec, OnlyOverflowOrRefusalLosesChanges
=============================================================================
