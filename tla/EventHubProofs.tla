--------------------------- MODULE EventHubProofs ---------------------------
(***************************************************************************)
(* That no announced change is missed, for any number of connections and   *)
(* handlers and any capacity of the channels that is not zero.             *)
(***************************************************************************)
EXTENDS EventHub, TLAPS

HubType ==
  /\ client \in [Conns -> {"closed", "open", "gone"}]
  /\ buffer \in [Conns -> 0..Capacity]
  /\ wire \in [Conns -> Nat]
  /\ at \in [Conns -> {"select", "event", "written", "leaving"}]
  /\ owed \in [Conns -> BOOLEAN]

IInv == HubType /\ NewsIsPending

LEMMA HubStart ==
  ASSUME Init
  PROVE  IInv
BY HubAssumption DEF Init, IInv, HubType, NewsIsPending

\* Only an announcement makes a list owe something, and it leaves an event in
\* the channel: its own, or those that fill it.
LEMMA SendKeepsNews ==
  ASSUME IInv, NEW h \in Handlers, NEW c \in Conns, SendTo(h, c)
  PROVE  IInv'
<1>1. /\ buffer' = [buffer EXCEPT ![c] = IF @ < Capacity THEN @ + 1 ELSE @]
      /\ owed' = [owed EXCEPT ![c] = @ \/ (client[c] = "open" /\ c \in unseen[h])]
      /\ UNCHANGED <<client, wire, at>>
  BY DEF SendTo
<1>2. Capacity \in Nat \ {0}
  BY HubAssumption
<1>3. HubType'
  BY <1>1, <1>2 DEF IInv, HubType
<1>4. ASSUME NEW d \in Conns, client'[d] = "open", owed'[d]
      PROVE  buffer'[d] > 0 \/ at'[d] = "event" \/ wire'[d] > 0
  <2>1. CASE d = c
    <3>1. buffer'[c] > 0
      BY <1>1, <1>2 DEF IInv, HubType
    <3> QED BY <2>1, <3>1
  <2>2. CASE d # c
    BY <1>1, <1>4, <2>2 DEF IInv, HubType, NewsIsPending
  <2> QED BY <2>1, <2>2
<1> QED BY <1>3, <1>4 DEF IInv, NewsIsPending

LEMMA HubStep ==
  ASSUME IInv, [Next]_vars
  PROVE  IInv'
<1> USE HubAssumption
<1>1. CASE UNCHANGED <<client, buffer, wire, at, owed>>
  BY <1>1 DEF IInv, HubType, NewsIsPending
<1>2. ASSUME NEW h \in Handlers, NEW c \in Conns, SendTo(h, c)
      PROVE  IInv'
  BY <1>2, SendKeepsNews
<1>3. ASSUME NEW c \in Conns, Open(c) \/ Leave(c)
      PROVE  IInv'
  <2>1. /\ \E v \in {"closed", "open"} : client' = [client EXCEPT ![c] = v]
        /\ buffer' = [buffer EXCEPT ![c] = 0]
        /\ wire' = [wire EXCEPT ![c] = 0]
        /\ owed' = [owed EXCEPT ![c] = FALSE]
        /\ at' \in {at, [at EXCEPT ![c] = "select"]}
    BY <1>3 DEF Open, Leave
  <2>2. HubType'
    BY <2>1 DEF IInv, HubType
  <2>3. NewsIsPending'
    BY <2>1 DEF IInv, HubType, NewsIsPending
  <2> QED BY <2>2, <2>3 DEF IInv
<1>4. ASSUME NEW c \in Conns, Forward(c) \/ Write(c)
      PROVE  IInv'
  BY <1>4 DEF Forward, Write, IInv, HubType, NewsIsPending
<1>5. ASSUME NEW c \in Conns, Fetch(c)
      PROVE  IInv'
  BY <1>5 DEF Fetch, hubVars, IInv, HubType, NewsIsPending
<1>6. ASSUME NEW c \in Conns, Close(c)
      PROVE  IInv'
  BY <1>6 DEF Close, hubVars, IInv, HubType, NewsIsPending
<1>7. ASSUME NEW h \in Handlers, Commit(h) \/ GiveUp(h) \/ Lock(h) \/ Unlock(h)
      PROVE  UNCHANGED <<client, buffer, wire, at, owed>>
  BY <1>7 DEF Commit, GiveUp, Lock, Unlock, hubVars
<1>8. ASSUME NEW c \in Conns, Flushed(c) \/ Return(c)
      PROVE  IInv'
  BY <1>8 DEF Flushed, Return, IInv, HubType, NewsIsPending
<1>9. CASE Beside(SessionsNext) \/ UNCHANGED vars
  BY <1>1, <1>9 DEF Beside, vars, hubVars
<1> QED BY <1>1, <1>2, <1>3, <1>4, <1>5, <1>6, <1>7, <1>8, <1>9 DEF Next

\* However full the channels are, whoever lacks an announced change has an event
\* coming.
THEOREM NewsPending == Spec => []NewsIsPending
<1>1. Init => IInv
  BY HubStart
<1>2. IInv /\ [Next]_vars => IInv'
  BY HubStep
<1>3. IInv => NewsIsPending
  BY DEF IInv
<1> QED BY <1>1, <1>2, <1>3, PTL DEF Spec
=============================================================================
