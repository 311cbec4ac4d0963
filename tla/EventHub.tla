------------------------------ MODULE EventHub ------------------------------
(***************************************************************************)
(* The stream of task events: handlers that change a task and announce it, *)
(* the hub with one buffered channel per connection, the goroutine that    *)
(* writes a channel to its connection, and, external, the browsers, which  *)
(* fetch the list of tasks when an event comes.  An event says no more     *)
(* than that something has changed, so that channels hold a number of      *)
(* events.                                                                 *)
(***************************************************************************)
EXTENDS Sessions, Naturals

CONSTANTS
  Conns,      \* connections of browsers
  Hung,       \* those whose browser does not read
  Handlers,   \* goroutines that serve taskAction and the webhooks
  Capacity,   \* events a channel holds
  WireLimit   \* events written that the browser has not acted upon

ASSUME HubAssumption ==
  /\ Hung \subseteq Conns
  /\ Capacity \in Nat \ {0} /\ WireLimit \in Nat \ {0}

VARIABLES
  client,    \* each browser's end: "closed", "open", or "gone"
  conns,     \* sseHub.conns
  mu,        \* who holds sseHub.mu, NoHandler when nobody does
  buffer,    \* events in each channel
  at,        \* each connection's goroutine: at its "select", with an "event" in
             \* hand, "written", or "leaving"
  wire,      \* events written to each connection
  handler,   \* each handler: "idle", "changed", "sending"
  rest,      \* connections the broadcast under way has yet to come to
  unseen,    \* history: connections whose list lacks the handler's change
  owed       \* history: an event was for a change that the list lacks

hubVars == <<conns, mu, buffer, at, rest>>
vars == <<sessionVars, client, hubVars, wire, handler, unseen, owed>>

NoHandler == "nobody"

ASSUME NoHandlerAssumption == NoHandler \notin Handlers

Init ==
  /\ SessionsInit
  /\ client = [c \in Conns |-> "closed"]
  /\ conns = {} /\ mu = NoHandler
  /\ at = [c \in Conns |-> "select"]
  /\ buffer = [c \in Conns |-> 0]
  /\ wire = [c \in Conns |-> 0]
  /\ handler = [h \in Handlers |-> "idle"]
  /\ rest = {}
  /\ unseen = [h \in Handlers |-> {}]
  /\ owed = [c \in Conns |-> FALSE]

-----------------------------------------------------------------------------
(* Handlers. *)

\* The engine has written task.md and its row; every list is out of date.
Commit(h) ==
  /\ handler[h] = "idle"
  /\ handler' = [handler EXCEPT ![h] = "changed"]
  /\ unseen' = [unseen EXCEPT ![h] = Conns]
  /\ UNCHANGED <<sessionVars, client, hubVars, wire, owed>>

\* What comes after the row fails, or the advance ended in a pause: the handler
\* answers with an error and announces nothing.
GiveUp(h) ==
  /\ handler[h] = "changed"
  /\ handler' = [handler EXCEPT ![h] = "idle"]
  /\ unseen' = [unseen EXCEPT ![h] = {}]
  /\ UNCHANGED <<sessionVars, client, hubVars, wire, owed>>

\* broadcast takes the lock,
Lock(h) ==
  /\ handler[h] = "changed" /\ mu = NoHandler
  /\ handler' = [handler EXCEPT ![h] = "sending"]
  /\ mu' = h /\ rest' = conns
  /\ UNCHANGED <<sessionVars, client, conns, buffer, at, wire, unseen, owed>>

\* Mutant: a send that waits for room.
SendTo_Blocking(h, c) ==
  /\ mu = h /\ c \in rest
  /\ buffer[c] < Capacity
  /\ buffer' = [buffer EXCEPT ![c] = @ + 1]
  /\ rest' = rest \ {c}
  /\ owed' = [owed EXCEPT ![c] = @ \/ (client[c] = "open" /\ c \in unseen[h])]
  /\ UNCHANGED <<sessionVars, client, conns, mu, at, wire, handler, unseen>>

\* Mutant: channels without a buffer, which take an event only from a goroutine
\* that stands at its select.
SendTo_Unbuffered(h, c) ==
  /\ mu = h /\ c \in rest
  /\ buffer' = [buffer EXCEPT ![c] = IF at[c] = "select" THEN 1 ELSE @]
  /\ rest' = rest \ {c}
  /\ owed' = [owed EXCEPT ![c] = @ \/ (client[c] = "open" /\ c \in unseen[h])]
  /\ UNCHANGED <<sessionVars, client, conns, mu, at, wire, handler, unseen>>

\* offers the event to each channel, passing over one that is full,
SendTo(h, c) ==
  /\ mu = h /\ c \in rest
  /\ buffer' = [buffer EXCEPT ![c] = IF @ < Capacity THEN @ + 1 ELSE @]
  /\ rest' = rest \ {c}
  /\ owed' = [owed EXCEPT ![c] = @ \/ (client[c] = "open" /\ c \in unseen[h])]
  /\ UNCHANGED <<sessionVars, client, conns, mu, at, wire, handler, unseen>>

\* and gives the lock back.
Unlock(h) ==
  /\ mu = h /\ rest = {}
  /\ mu' = NoHandler
  /\ handler' = [handler EXCEPT ![h] = "idle"]
  /\ unseen' = [unseen EXCEPT ![h] = {}]
  /\ UNCHANGED <<sessionVars, client, conns, buffer, at, rest, wire, owed>>

-----------------------------------------------------------------------------
(* streamEvents. *)

\* The session is looked at once, when the stream is opened.
Open(c) ==
  /\ client[c] = "closed" /\ Authenticated
  /\ mu = NoHandler
  /\ client' = [client EXCEPT ![c] = "open"]
  /\ conns' = conns \cup {c}
  /\ buffer' = [buffer EXCEPT ![c] = 0]
  /\ wire' = [wire EXCEPT ![c] = 0]
  /\ owed' = [owed EXCEPT ![c] = FALSE]
  /\ UNCHANGED <<sessionVars, mu, at, rest, handler, unseen>>

\* Mutant: an event like the one before it is not written again.
Forward_SkipsRepeats(c) ==
  /\ c \in conns /\ at[c] = "select" /\ buffer[c] > 0
  /\ buffer' = [buffer EXCEPT ![c] = @ - 1]
  /\ at' \in {at, [at EXCEPT ![c] = "event"]}
  /\ UNCHANGED <<sessionVars, client, conns, mu, rest, wire, handler, unseen, owed>>

\* The select takes an event from the channel, also when the context is done,
Forward(c) ==
  /\ c \in conns /\ at[c] = "select" /\ buffer[c] > 0
  /\ buffer' = [buffer EXCEPT ![c] = @ - 1]
  /\ at' = [at EXCEPT ![c] = "event"]
  /\ UNCHANGED <<sessionVars, client, conns, mu, rest, wire, handler, unseen, owed>>

\* The event is written and flushed; the goroutine is blocked until the connection
\* has room or is gone, and then the write fails and nobody looks.  The heartbeat,
\* which carries no event, is left out.
Write(c) ==
  /\ at[c] = "event"
  /\ client[c] = "open" => wire[c] < WireLimit
  /\ wire' = [wire EXCEPT ![c] = IF client[c] = "open" THEN @ + 1 ELSE @]
  /\ at' = [at EXCEPT ![c] = "written"]
  /\ UNCHANGED <<sessionVars, client, conns, mu, buffer, rest, handler, unseen, owed>>

\* Flush has returned.
Flushed(c) ==
  /\ at[c] = "written"
  /\ at' = [at EXCEPT ![c] = "select"]
  /\ UNCHANGED <<sessionVars, client, conns, mu, buffer, rest, wire, handler, unseen, owed>>

\* The request's context is done, the handler returns,
Return(c) ==
  /\ c \in conns /\ at[c] = "select" /\ client[c] = "gone"
  /\ at' = [at EXCEPT ![c] = "leaving"]
  /\ UNCHANGED <<sessionVars, client, conns, mu, buffer, rest, wire, handler, unseen, owed>>

\* Mutant: the deferred remove is forgotten.
Leave_Forgets(c) ==
  /\ at[c] = "leaving"
  /\ client' = [client EXCEPT ![c] = "closed"]
  /\ at' = [at EXCEPT ![c] = "select"]
  /\ buffer' = [buffer EXCEPT ![c] = 0]
  /\ wire' = [wire EXCEPT ![c] = 0]
  /\ owed' = [owed EXCEPT ![c] = FALSE]
  /\ UNCHANGED <<sessionVars, conns, mu, rest, handler, unseen>>

\* and remove, deferred, takes the channel from the hub once it has the lock.
Leave(c) ==
  /\ at[c] = "leaving"
  /\ mu = NoHandler
  /\ conns' = conns \ {c}
  /\ client' = [client EXCEPT ![c] = "closed"]
  /\ at' = [at EXCEPT ![c] = "select"]
  /\ buffer' = [buffer EXCEPT ![c] = 0]
  /\ wire' = [wire EXCEPT ![c] = 0]
  /\ owed' = [owed EXCEPT ![c] = FALSE]
  /\ UNCHANGED <<sessionVars, mu, rest, handler, unseen>>

-----------------------------------------------------------------------------
(* External: the browsers. *)

\* An event comes and the list is fetched, through withAuth: what it shows is
\* every change that is in the index.
Fetch(c) ==
  /\ c \notin Hung /\ client[c] = "open" /\ wire[c] > 0 /\ Authenticated
  /\ wire' = [wire EXCEPT ![c] = @ - 1]
  /\ unseen' = [h \in Handlers |-> unseen[h] \ {c}]
  /\ owed' = [owed EXCEPT ![c] = FALSE]
  /\ UNCHANGED <<sessionVars, client, hubVars, handler>>

\* The tab is closed, or the network fails.
Close(c) ==
  /\ client[c] = "open"
  /\ client' = [client EXCEPT ![c] = "gone"]
  /\ wire' = [wire EXCEPT ![c] = 0]
  /\ owed' = [owed EXCEPT ![c] = FALSE]
  /\ UNCHANGED <<sessionVars, hubVars, handler, unseen>>

\* A step of the sessions beside the hub.
Beside(A) == A /\ UNCHANGED <<client, hubVars, wire, handler, unseen, owed>>

Next ==
  \/ Beside(SessionsNext)
  \/ \E h \in Handlers :
       \/ Commit(h) \/ GiveUp(h) \/ Lock(h) \/ Unlock(h)
       \/ \E c \in Conns : SendTo(h, c)
  \/ \E c \in Conns : Open(c) \/ Leave(c) \/ Fetch(c) \/ Close(c)
  \/ \E c \in Conns : Forward(c) \/ Write(c) \/ Flushed(c) \/ Return(c)

Spec == Init /\ [][Next]_vars

\* Goroutines that can go on do, and time passes, so that sessions expire.  The
\* lock is had in the end by whoever waits for it, as sync.Mutex promises, and a
\* select chooses at random among what it can do, so that each is chosen in the
\* end.  A browser that reads fetches the list when it has a session.  Nobody is
\* obliged to change a task, to log in, to open a stream or to close it.
FairSpec ==
  /\ Spec
  /\ WF_vars(Beside(AddSession)) /\ \A r \in Roles : WF_vars(Beside(Expire(r)))
  /\ \A h \in Handlers :
       /\ SF_vars(Lock(h))
       /\ WF_vars(Unlock(h) \/ \E c \in Conns : SendTo(h, c))
  /\ \A c \in Conns :
       /\ WF_vars(Forward(c) \/ Write(c) \/ Flushed(c))
       /\ SF_vars(Return(c) \/ Leave(c))
  /\ \A c \in Conns \ Hung : SF_vars(Fetch(c))

-----------------------------------------------------------------------------
(* What the stream is for. *)

\* While a browser's list lacks a change that was announced to it, an event that
\* will make it fetch the list is in its channel, with its goroutine or on its
\* way: an event that is dropped because the channel is full is not missed.
NewsIsPending ==
  \A c \in Conns :
    client[c] = "open" /\ owed[c] => buffer[c] > 0 \/ at[c] = "event" \/ wire[c] > 0

\* Hence a list comes to show every change that was announced to it, unless the
\* stream breaks or no session is to be had.
AnnouncedIsShown ==
  []<>Authenticated => \A c \in Conns \ Hung : []<>(client[c] = "open" => ~owed[c])

\* A handler that has begun to announce a change comes to its end, whatever the
\* browsers do.
HandlersNeverWait ==
  \A h \in Handlers : []<>(handler[h] # "sending")

\* A connection that is gone leaves the hub, also one whose goroutine was blocked
\* in a write when it went.
DeadConnsAreDropped ==
  \A c \in Conns : []<>(c \in conns => client[c] = "open")

\* A role that was taken away comes to be accepted no more, although sessions
\* keep the role their user had: none is renewed, and new ones read the account.
StaleRoleEnds ==
  \A r \in Roles : <>[](role # r) => <>[](r \notin accepted)
=============================================================================
