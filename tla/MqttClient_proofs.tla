---------------------------- MODULE MqttClient_proofs ----------------------------
(***************************************************************************)
(* What Home Assistant is shown of the server and of its entities, for any *)
(* number of entities, any values and messages, and queues of any size.    *)
(***************************************************************************)
EXTENDS MqttClient, Updates_proofs, SequenceTheorems

-----------------------------------------------------------------------------
(***************************************************************************)
(* What the tasks are given to send.                                       *)
(***************************************************************************)
\* Requests that tell of no state.
Stateless == {r \in Request: r.kind # "state"}

LEMMA AnnouncedFacts ==
  /\ Announced \subseteq Stateless /\ Stateless \subseteq Request
  /\ \A r \in Announced: ~(r.kind = "availability" /\ r.of = Server)
BY ServerAssumption DEF Stateless, Request, Announced, Entity

LEMMA EntitiesFacts ==
  /\ Len(Entities) \in Nat /\ DOMAIN Entities = 1..Len(Entities)
  /\ \A n \in 1..Len(Entities): Entities[n] \in Entity
BY EntitiesAssumption, Parts

LEMMA ConcatType ==
  ASSUME NEW S, NEW s \in Seq(S), NEW t \in Seq(S)
  PROVE  s \o t \in Seq(S)
BY ConcatProperties

LEMMA ListType ==
  ASSUME NEW S, NEW m \in Nat, NEW f, \A n \in 1..m: f[n] \in S
  PROVE  [n \in 1..m |-> f[n]] \in Seq(S)
OBVIOUS

LEMMA ForEachTypes ==
  /\ publish_discovery \in Seq(Announced)
  /\ ForEach(Online) \in Seq(Announced)
  /\ ForEach(Offline) \in Seq(Stateless)
<1> DEFINE m == Len(Entities)
<1>1. m \in Nat /\ DOMAIN Entities = 1..m
  BY EntitiesFacts
<1>2. ASSUME NEW n \in 1..m
      PROVE  /\ Discovery(Entities[n]) \in Announced /\ Online(Entities[n]) \in Announced
             /\ Offline(Entities[n]) \in Stateless
  <2>1. Entities[n] \in Entity
    BY EntitiesFacts
  <2> QED BY <2>1 DEF Discovery, Online, Offline, Availability, Announced, Stateless, Request
<1> HIDE DEF m
<1>3. publish_discovery \in Seq(Announced)
  BY <1>1, <1>2 DEF publish_discovery, ForEach
<1>4. ForEach(Online) \in Seq(Announced)
  BY <1>1, <1>2 DEF ForEach
<1>5. ForEach(Offline) \in Seq(Stateless)
  BY <1>1, <1>2 DEF ForEach
<1> QED BY <1>3, <1>4, <1>5

LEMMA ListTypes ==
  /\ Setup \in Seq(Stateless) /\ publish_entities_availability_offline \in Seq(Stateless)
  /\ Announcement \in Seq(Announced)
<1>1. /\ publish_discovery \in Seq(Stateless) /\ ForEach(Online) \in Seq(Stateless)
      /\ ForEach(Offline) \in Seq(Stateless)
  BY ForEachTypes, AnnouncedFacts, SeqMonotonic
<1>2. {Online(Server), Offline(Server), Subscribe("set"), Subscribe("status")} \subseteq Stateless
  BY DEF Online, Offline, Subscribe, Availability, Stateless, Request
<1> DEFINE S == Stateless
<1> HIDE DEF S
<1>3. \A r \in S: <<r>> \in Seq(S)
  OBVIOUS
<1>4. \A r \in S, q \in S: <<r, q>> \in Seq(S)
  OBVIOUS
<1>5. /\ <<Online(Server)>> \in Seq(Stateless) /\ <<Offline(Server)>> \in Seq(Stateless)
      /\ <<Subscribe("set"), Subscribe("status")>> \in Seq(Stateless)
  BY <1>2, <1>3, <1>4 DEF S
<1>6. Setup \in Seq(Stateless)
  BY <1>1, <1>5, ConcatType DEF Setup
<1>7. publish_entities_availability_offline \in Seq(Stateless)
  BY <1>1, <1>5, ConcatType DEF publish_entities_availability_offline
<1>8. Announcement \in Seq(Announced)
  BY ForEachTypes, ConcatType DEF Announcement
<1> QED BY <1>6, <1>7, <1>8

-----------------------------------------------------------------------------
(***************************************************************************)
(* The bounds of the queues, and one thing at a time.                      *)
(***************************************************************************)
LEMMA CommandType ==
  ASSUME NEW m \in Messages
  PROVE  CommandOf(m) \in Seq(Command) /\ Len(CommandOf(m)) <= 1
<1>1. CASE m.topic = "set" /\ m.payload \in DOMAIN PayloadAction
  <2> DEFINE c == [id |-> m.id, action |-> PayloadAction[m.payload]]
  <2>1. CommandOf(m) = <<c>>
    BY <1>1 DEF CommandOf
  <2> HIDE DEF c
  <2>2. c \in ToSet(CommandOf(m))
    BY <2>1 DEF ToSet
  <2>3. c \in Command
    BY <2>2 DEF Command
  <2> QED BY <2>1, <2>3
<1>2. CASE ~(m.topic = "set" /\ m.payload \in DOMAIN PayloadAction)
  BY <1>2 DEF CommandOf
<1> QED BY <1>1, <1>2

LEMMA Moved ==
  ASSUME NEW S, NEW q \in Seq(S), NEW r \in Seq(S), r # <<>>
  PROVE  /\ Append(q, Head(r)) \in Seq(S) /\ Tail(r) \in Seq(S)
         /\ Len(Append(q, Head(r))) = Len(q) + 1 /\ Len(Tail(r)) = Len(r) - 1
         /\ Len(q) \in Nat /\ Len(r) \in Nat \ {0}
<1>1. Head(r) \in S
  BY Removed
<1> QED BY <1>1, Appended, Removed

LEMMA InitTyped == Init => TypeOK
<1> SUFFICES ASSUME Init PROVE TypeOK
  OBVIOUS
<1>1. \A S: <<>> \in Seq(S)
  OBVIOUS
<1>2. Setup \in Seq(Request)
  BY ListTypes, AnnouncedFacts, SeqMonotonic
<1>3. Len(<<>>) = 0 /\ {QueueSize, Capacity, InboxSize} \subseteq Nat
  BY SizesAssumption
<1>4. {shown, published} \subseteq StateOf
  BY DEF Init, StateOf
<1>5. retained \in [Entity \cup {Server} -> BOOLEAN]
  BY DEF Init
<1> HIDE DEF Setup
<1>6. /\ Len(requests) <= QueueSize /\ Len(held) <= 1 /\ Len(cmds) <= Capacity
      /\ Len(rxState) <= Capacity /\ Len(inbox) <= InboxSize
  BY <1>3 DEF Init
<1> QED BY <1>1, <1>2, <1>4, <1>5, <1>6 DEF Init, TypeOK

LEMMA NextTyped == TypeOK /\ [Next]_vars => TypeOK'
<1> SUFFICES ASSUME TypeOK, [Next]_vars PROVE TypeOK'
  OBVIOUS
<1> USE DEF tasks, chans, session, broker
<1> DEFINE Heard == [id: Entity, value: Values]
<1>1. /\ requests \in Seq(Request) /\ sending \in Seq(Request) /\ announcing \in Seq(Announced)
      /\ held \in Seq(Command) /\ cmds \in Seq(Command)
      /\ rxState \in Seq(Heard) /\ inbox \in Seq(Messages)
  BY DEF TypeOK
<1>2. {QueueSize, Capacity, InboxSize} \subseteq Nat \ {0}
  BY SizesAssumption
<1>3. /\ \A S: <<>> \in Seq(S)
      /\ Len(<<>>) = 0
  OBVIOUS
<1>4. /\ Setup \in Seq(Request) /\ publish_entities_availability_offline \in Seq(Request)
  BY ListTypes, AnnouncedFacts, SeqMonotonic
<1> HIDE DEF Heard
<1>5. CASE Push
  <2>1. /\ requests' = Append(requests, Head(sending)) /\ sending' = Tail(sending)
        /\ sending # <<>> /\ Len(requests) < QueueSize
    BY <1>5 DEF Push, Room
  <2>2. /\ requests' \in Seq(Request) /\ sending' \in Seq(Request)
        /\ Len(requests') <= QueueSize /\ Len(sending') = Len(sending) - 1
        /\ Len(sending) \in Nat
    BY <1>1, <1>2, <2>1, Moved
  <2>3. start = "select" => Len(sending') <= 1
    BY <2>2 DEF TypeOK
  <2>4. start # "done"
    BY <2>1 DEF TypeOK
  <2> QED BY <1>5, <2>2, <2>3, <2>4 DEF Push, TypeOK
<1>6. CASE EnterLoop
  BY <1>3, <1>6 DEF EnterLoop, StartIdle, TypeOK
<1>7. CASE RecvState
  <2> DEFINE b == Head(rxState)
  <2>1. /\ rxState # <<>> /\ rxState' = Tail(rxState) /\ sending' = <<State(b.id, b.value)>>
        /\ start = "select" /\ start' = "select"
    BY <1>7 DEF RecvState, StartIdle
  <2>2. b \in Heard /\ rxState' \in Seq(Heard) /\ Len(rxState') = Len(rxState) - 1 /\ Len(rxState) \in Nat
    BY <1>1, <2>1, Removed
  <2>3. State(b.id, b.value) \in Request
    BY <2>2 DEF State, Request, Heard
  <2>4. Len(rxState') <= Capacity
    BY <1>2, <2>2 DEF TypeOK
  <2> DEFINE r == State(b.id, b.value)
  <2>5. sending' = <<r>>
    BY <2>1
  <2> HIDE DEF r, b
  <2>6. sending' \in Seq(Request) /\ Len(sending') = 1
    BY <2>3, <2>5 DEF r
  <2> QED BY <1>7, <2>1, <2>2, <2>4, <2>6 DEF RecvState, Heard, TypeOK
<1>8. CASE RecvShutdown
  <2>1. process # "ended"
    BY <1>8 DEF RecvShutdown, StartIdle
  <2> QED BY <1>4, <1>8, <2>1 DEF RecvShutdown, TypeOK
<1>9. CASE StartDone
  BY <1>9 DEF StartDone, StartIdle, TypeOK
<1>10. CASE Connect \/ PollError \/ Wake
  BY <1>10 DEF Connect, PollError, Wake, Polling, TypeOK
<1>11. CASE Transmit
  <2> DEFINE r == Head(requests)
  <2>1. requests # <<>> /\ requests' = Tail(requests) /\ connected
    BY <1>11 DEF Transmit
  <2>2. r \in Request /\ requests' \in Seq(Request) /\ Len(requests') = Len(requests) - 1 /\ Len(requests) \in Nat
    BY <1>1, <2>1, Removed
  <2>3. Len(requests') <= QueueSize
    BY <1>2, <2>2 DEF TypeOK
  <2>4. /\ retained' = IF r.kind = "availability" THEN [retained EXCEPT ![r.of] = r.to] ELSE retained
        /\ discovered' = IF r.kind = "discovery" THEN discovered \cup {r.of} ELSE discovered
        /\ shown' = IF r.kind = "state" THEN [shown EXCEPT ![r.of] = r.to] ELSE shown
    BY <1>11 DEF Transmit
  <2>5. /\ r.kind = "availability" => r.to \in BOOLEAN
        /\ r.kind = "discovery" => r.of \in Entity
        /\ r.kind = "state" => r.to \in Values
    BY <2>2 DEF Request, Announced
  <2> HIDE DEF r
  <2>6. retained' \in [Entity \cup {Server} -> BOOLEAN] /\ discovered' \subseteq Entity
    BY <2>4, <2>5 DEF TypeOK
  <2>7. shown' \in StateOf
    BY <2>4, <2>5 DEF TypeOK, StateOf
  <2> QED BY <1>11, <2>1, <2>2, <2>3, <2>6, <2>7 DEF Transmit, TypeOK
<1>12. CASE Incoming
  <2> DEFINE m == Head(inbox)
  <2>1. inbox # <<>> /\ inbox' = Tail(inbox) /\ announcing = <<>> /\ held = <<>> /\ ~asleep
    BY <1>12 DEF Incoming, Polling
  <2>2. m \in Messages /\ inbox' \in Seq(Messages) /\ Len(inbox') = Len(inbox) - 1 /\ Len(inbox) \in Nat
    BY <1>1, <2>1, Removed
  <2>3. Len(inbox') <= InboxSize
    BY <1>2, <2>2 DEF TypeOK
  <2>4. /\ \/ announcing' = Announcement /\ held' = held
           \/ held' = CommandOf(m) /\ announcing' = announcing
    BY <1>12 DEF Incoming
  <2>5. /\ announcing' \in Seq(Announced) /\ held' \in Seq(Command) /\ Len(held') <= 1
        /\ announcing' # <<>> => held' = <<>> /\ ~asleep
    BY <1>1, <2>1, <2>2, <2>4, ListTypes, CommandType DEF TypeOK
  <2> QED BY <1>12, <2>2, <2>3, <2>5 DEF Incoming, TypeOK
<1>13. CASE Announce
  <2>1. /\ requests' = Append(requests, Head(announcing)) /\ announcing' = Tail(announcing)
        /\ announcing # <<>> /\ Len(requests) < QueueSize
    BY <1>13 DEF Announce, Room
  <2>2. announcing' \in Seq(Announced) /\ Head(announcing) \in Request
    BY <1>1, <2>1, Removed, AnnouncedFacts
  <2>3. requests' \in Seq(Request) /\ Len(requests') = Len(requests) + 1 /\ Len(requests) \in Nat
    BY <1>1, <2>1, <2>2, Appended
  <2>4. Len(requests') <= QueueSize
    BY <1>2, <2>1, <2>3
  <2> QED BY <1>13, <2>1, <2>2, <2>3, <2>4 DEF Announce, TypeOK
<1>14. CASE SendAction
  <2>1. held' = <<>> /\ cmds' = IF process = "running" THEN cmds \o held ELSE cmds
    BY <1>14 DEF SendAction
  <2>2. cmds \o held \in Seq(Command) /\ Len(cmds \o held) = Len(cmds) + Len(held)
        /\ Len(cmds) \in Nat /\ Len(held) \in Nat
    BY <1>1, ConcatProperties, Parts
  <2>3. process = "running" => Len(cmds) + Len(held) <= Capacity
    BY <1>2, <1>14, <2>2 DEF SendAction, TypeOK
  <2>4. cmds' \in Seq(Command) /\ Len(cmds') <= Capacity
    BY <1>1, <2>1, <2>2, <2>3 DEF TypeOK
  <2> QED BY <1>3, <1>14, <2>1, <2>4 DEF SendAction, TypeOK
<1>15. ASSUME NEW e \in Entity, NEW v \in Values, Broadcast(e, v) PROVE TypeOK'
  <2> DEFINE b == [id |-> e, value |-> v]
             q == IF Len(rxState) < Capacity THEN rxState ELSE Tail(rxState)
  <2>1. b \in Heard
    BY DEF Heard
  <2>2. rxState' = Append(q, b)
    BY <1>15 DEF Broadcast
  <2>3. q \in Seq(Heard) /\ Len(q) < Capacity /\ Len(q) \in Nat
    <3>1. Len(rxState) \in Nat /\ Len(rxState) <= Capacity
      BY <1>1, Parts DEF TypeOK
    <3>2. CASE Len(rxState) < Capacity
      BY <1>1, <3>1, <3>2
    <3>3. CASE ~(Len(rxState) < Capacity)
      <4>1. rxState # <<>>
        BY <1>2, <1>3, <3>3
      <4>2. Tail(rxState) \in Seq(Heard) /\ Len(Tail(rxState)) = Len(rxState) - 1
        BY <1>1, <4>1, Removed
      <4> QED BY <1>2, <3>1, <3>3, <4>2
    <3> QED BY <3>2, <3>3
  <2> HIDE DEF b, q
  <2>4. rxState' \in Seq(Heard) /\ Len(rxState') <= Capacity
    <3>1. Append(q, b) \in Seq(Heard) /\ Len(Append(q, b)) = Len(q) + 1
      BY <2>1, <2>3, Appended
    <3> QED BY <1>2, <2>2, <2>3, <3>1
  <2>5. lagged' \in BOOLEAN
    BY <1>15 DEF Broadcast, TypeOK
  <2>6. published' \in StateOf
    BY <1>15 DEF Broadcast, StateOf, TypeOK
  <2> QED BY <1>15, <2>4, <2>5, <2>6 DEF Broadcast, Heard, TypeOK
<1>16. CASE Dispatch
  <2>1. cmds # <<>> /\ cmds' = Tail(cmds)
    BY <1>16 DEF Dispatch
  <2>2. cmds' \in Seq(Command) /\ Len(cmds') = Len(cmds) - 1 /\ Len(cmds) \in Nat
    BY <1>1, <2>1, Removed
  <2>3. Len(cmds') <= Capacity
    BY <1>2, <2>2 DEF TypeOK
  <2> QED BY <1>16, <2>2, <2>3 DEF Dispatch, TypeOK
<1>17. CASE Shutdown
  <2>1. cmds' = <<>> /\ Len(cmds') <= Capacity /\ cmds' \in Seq(Command)
    BY <1>2, <1>3, <1>17 DEF Shutdown
  <2> QED BY <1>17, <2>1 DEF Shutdown, TypeOK
<1>18. CASE End
  <2>1. /\ requests' \in Seq(Request) /\ sending' \in Seq(Request) /\ announcing' \in Seq(Announced)
        /\ held' \in Seq(Command) /\ cmds' \in Seq(Command)
        /\ rxState' \in Seq([id: Entity, value: Values]) /\ inbox' \in Seq(Messages)
    BY <1>3, <1>18 DEF End
  <2>2. /\ Len(requests') <= QueueSize /\ Len(held') <= 1 /\ Len(cmds') <= Capacity
        /\ Len(rxState') <= Capacity /\ Len(inbox') <= InboxSize
    BY <1>2, <1>3, <1>18 DEF End
  <2>3. retained' \in [Entity \cup {Server} -> BOOLEAN]
    BY <1>18 DEF End, LastWill, TypeOK
  <2>4. {shown', published'} \subseteq StateOf /\ discovered' \subseteq Entity
    BY <1>18 DEF End, TypeOK
  <2>5. /\ asleep' = FALSE /\ lagged' = FALSE /\ connected' = FALSE /\ announcing' = <<>>
        /\ process' = "ended" /\ start' = "done" /\ sending' = <<>> /\ subscribed' = {}
    BY <1>18 DEF End
  <2> QED BY <2>1, <2>2, <2>3, <2>4, <2>5 DEF TypeOK
<1>19. CASE Restart
  BY <1>4, <1>19 DEF Restart, TypeOK
<1>20. CASE LoseConnection
  <2>1. connected /\ process # "ended"
    BY <1>20 DEF LoseConnection, TypeOK
  <2>2. requests' = requests \/ (requests # <<>> /\ requests' = Tail(requests))
    BY <1>20 DEF LoseConnection
  <2>3. requests' \in Seq(Request) /\ Len(requests') <= QueueSize
    <3>1. CASE requests' = requests
      BY <3>1 DEF TypeOK
    <3>2. CASE requests # <<>> /\ requests' = Tail(requests)
      <4>1. Tail(requests) \in Seq(Request) /\ Len(Tail(requests)) = Len(requests) - 1 /\ Len(requests) \in Nat
        BY <1>1, <3>2, Removed
      <4> QED BY <1>2, <3>2, <4>1 DEF TypeOK
    <3> QED BY <2>2, <3>1, <3>2
  <2>4. inbox' = <<>> /\ Len(inbox') <= InboxSize /\ inbox' \in Seq(Messages)
    BY <1>2, <1>3, <1>20 DEF LoseConnection
  <2>5. retained' \in [Entity \cup {Server} -> BOOLEAN]
    BY <1>20 DEF LoseConnection, LastWill, TypeOK
  <2> QED BY <1>20, <2>1, <2>3, <2>4, <2>5 DEF LoseConnection, TypeOK
<1>21. ASSUME NEW m \in Messages, Deliver(m) PROVE TypeOK'
  <2>1. inbox' = Append(inbox, m) /\ Len(inbox) < InboxSize
    BY <1>21 DEF Deliver
  <2>2. Append(inbox, m) \in Seq(Messages) /\ Len(Append(inbox, m)) = Len(inbox) + 1 /\ Len(inbox) \in Nat
    BY <1>1, Appended
  <2>3. inbox' \in Seq(Messages) /\ Len(inbox') <= InboxSize
    BY <1>2, <2>1, <2>2
  <2> QED BY <1>21, <2>3 DEF Deliver, TypeOK
<1>22. CASE UNCHANGED vars
  BY <1>22 DEF vars, TypeOK
<1> QED
  BY <1>5, <1>6, <1>7, <1>8, <1>9, <1>10, <1>11, <1>12, <1>13, <1>14, <1>15, <1>16, <1>17, <1>18,
     <1>19, <1>20, <1>21, <1>22
  DEF Next, Start, EventLoop, Exit, Crash

\* The queues keep their bounds and the tasks their place, for queues of any size.
THEOREM TypeCorrect == Spec => []TypeOK
<1> QED BY InitTyped, NextTyped, PTL DEF Spec

-----------------------------------------------------------------------------
(***************************************************************************)
(* The availability of the server.                                         *)
(***************************************************************************)
OInv == DOMAIN retained = Entity \cup {Server} /\ NoFalseOnline

LEMMA WillSaysOffline ==
  ASSUME DOMAIN retained = Entity \cup {Server}
  PROVE  DOMAIN LastWill = Entity \cup {Server} /\ ~LastWill[Server]
BY DEF LastWill

LEMMA OInvInit == Init => OInv
BY DEF Init, OInv, NoFalseOnline

LEMMA OInvNext == OInv /\ [Next]_vars => OInv'
<1> SUFFICES ASSUME OInv, [Next]_vars PROVE OInv'
  OBVIOUS
<1> USE DEF OInv, NoFalseOnline
<1>1. CASE Start
  BY <1>1 DEF Start, Push, EnterLoop, RecvState, RecvShutdown, StartDone, StartIdle, broker, session
<1>2. CASE EventLoop
  <2>1. CASE Transmit
    BY <2>1 DEF Transmit, Polling
  <2>2. CASE Connect
    BY <2>2 DEF Connect, Polling, broker
  <2>3. CASE PollError \/ Wake \/ Incoming \/ Announce \/ SendAction
    BY <2>3 DEF PollError, Wake, Incoming, Announce, SendAction, broker, session
  <2> QED BY <1>2, <2>1, <2>2, <2>3 DEF EventLoop
<1>3. ASSUME NEW e \in Entity, NEW v \in Values, Broadcast(e, v)
      PROVE  OInv'
  BY <1>3 DEF Broadcast, broker, session
<1>4. CASE Dispatch \/ Shutdown
  BY <1>4 DEF Dispatch, Shutdown, broker, session
<1>5. CASE Exit \/ Crash
  <2>1. End
    BY <1>5 DEF Exit, Crash
  <2>2. retained' = IF connected THEN LastWill ELSE retained
    BY <2>1 DEF End
  <2>3. DOMAIN retained' = Entity \cup {Server} /\ ~retained'[Server]
    BY <2>2, WillSaysOffline
  <2> QED BY <2>3
<1>6. CASE Restart
  BY <1>6 DEF Restart, broker, session
<1>7. CASE LoseConnection
  BY <1>7, WillSaysOffline DEF LoseConnection
<1>8. ASSUME NEW m \in Messages, Deliver(m)
      PROVE  OInv'
  BY <1>8 DEF Deliver, broker
<1>9. CASE UNCHANGED vars
  BY <1>9 DEF vars, broker, session
<1> QED
  BY <1>1, <1>2, <1>3, <1>4, <1>5, <1>6, <1>7, <1>8, <1>9 DEF Next

\* Home Assistant is never shown a server that is gone, or cannot be reached, as
\* available, through crashes, restarts and lost connections in any order.
THEOREM NoFalseOnlineHolds == Spec => []NoFalseOnline
<1>1. OInv => NoFalseOnline
  BY DEF OInv
<1> QED BY OInvInit, OInvNext, <1>1, PTL DEF Spec

-----------------------------------------------------------------------------
(***************************************************************************)
(* What a request tells of an entity and of the server, and what a         *)
(* broadcast tells of an entity.                                           *)
(***************************************************************************)
StateTold(e) == [r \in Request |-> IF r.kind = "state" /\ r.of = e THEN r.to ELSE NoValue]
ValueTold(e) ==
  [b \in [id: Entity, value: Values] |-> IF b.id = e THEN b.value ELSE NoValue]
ServerTold ==
  [r \in Request |->
     IF r.kind = "availability" /\ r.of = Server THEN BoolVal(r.to) ELSE NoValue]

LEMMA RequestsTell ==
  ASSUME NEW q \in Seq(Request)
  PROVE  ServerIn(q) = Told(ServerTold, q) /\ \A e: StatesIn(q, e) = Told(StateTold(e), q)
<1>1. Len(q) \in Nat /\ DOMAIN q = 1..Len(q) /\ \A n \in 1..Len(q): q[n] \in Request
  BY Parts
<1>2. ServerIn(q) = Told(ServerTold, q)
  BY <1>1 DEF ServerIn, Told, ServerTold
<1>3. ASSUME NEW e PROVE StatesIn(q, e) = Told(StateTold(e), q)
  BY <1>1 DEF StatesIn, Told, StateTold
<1> QED BY <1>2, <1>3

LEMMA BroadcastsTell ==
  ASSUME NEW b \in Seq([id: Entity, value: Values]), NEW e
  PROVE  ValuesIn(b, e) = Told(ValueTold(e), b)
<1> DEFINE Heard == [id: Entity, value: Values]
<1>1. Len(b) \in Nat /\ DOMAIN b = 1..Len(b) /\ \A n \in 1..Len(b): b[n] \in Heard
  <2> HIDE DEF Heard
  <2>1. b \in Seq(Heard)
    BY DEF Heard
  <2> QED BY <2>1, Parts
<1> QED BY <1>1 DEF ValuesIn, Told, ValueTold

\* A request that is not on the state of e, or not on the server, changes nothing.
LEMMA StatelessTold ==
  ASSUME NEW q \in Seq(Stateless), NEW v, NEW e
  PROVE  Latest(v, Told(StateTold(e), q)) = v
<1>1. \A n \in DOMAIN q: q[n] \in Stateless
  BY Parts
<1>2. \A r \in Stateless: StateTold(e)[r] = NoValue
  BY DEF Stateless, StateTold
<1> QED BY <1>1, <1>2, ToldNothing

LEMMA AnnouncedTold ==
  ASSUME NEW q \in Seq(Announced), NEW v
  PROVE  Latest(v, Told(ServerTold, q)) = v
<1>1. \A n \in DOMAIN q: q[n] \in Announced
  BY Parts
<1>2. \A r \in Announced: ServerTold[r] = NoValue
  BY AnnouncedFacts DEF ServerTold
<1> QED BY <1>1, <1>2, ToldNothing

\* The offline messages of the shutdown: the server's own comes first.
LEMMA OfflineTold ==
  ASSUME NEW v
  PROVE  Latest(v, Told(ServerTold, publish_entities_availability_offline)) = BoolVal(FALSE)
<1> DEFINE q == publish_entities_availability_offline
           m == Len(Entities)
           p == Told(ServerTold, q)
<1>1. /\ m \in Nat /\ DOMAIN Entities = 1..m /\ \A n \in 1..m: Entities[n] \in Entity
  BY EntitiesFacts
<1>2. DOMAIN q = 1..m + 1 /\ q[1] = Offline(Server) /\ \A n \in 2..m + 1: q[n] = Offline(Entities[n - 1])
  BY <1>1 DEF publish_entities_availability_offline, ForEach
<1>3. Offline(Server) \in Request /\ ServerTold[Offline(Server)] = BoolVal(FALSE)
  BY DEF ServerTold, Offline, Availability, Request
<1>4. \A e \in Entity: Offline(e) \in Request /\ ServerTold[Offline(e)] = NoValue
  BY ServerAssumption DEF ServerTold, Offline, Availability, Request, Entity
<1> HIDE DEF q
<1>5. /\ DOMAIN p = 1..m + 1 /\ p[1] = BoolVal(FALSE)
      /\ \A n \in 2..m + 1: p[n] = NoValue
  <2>1. DOMAIN p = 1..m + 1 /\ \A n \in 1..m + 1: p[n] = ServerTold[q[n]]
    BY <1>2 DEF Told
  <2>2. 1 \in 1..m + 1 /\ \A n \in 2..m + 1: n \in 1..m + 1 /\ n - 1 \in 1..m
    BY <1>1
  <2> HIDE DEF p, m
  <2>3. p[1] = BoolVal(FALSE)
    BY <1>2, <1>3, <2>1, <2>2
  <2>4. ASSUME NEW n \in 2..m + 1 PROVE p[n] = NoValue
    <3>1. Entities[n - 1] \in Entity /\ q[n] = Offline(Entities[n - 1]) /\ p[n] = ServerTold[q[n]]
      BY <1>1, <1>2, <2>1, <2>2
    <3> QED BY <1>4, <3>1
  <2> QED BY <2>1, <2>3, <2>4
<1>6. BoolVal(FALSE) # NoValue
  BY DEF BoolVal, NoValue
<1> HIDE DEF p, m
<1>7. 1 \in News(p) /\ \A k \in News(p): k <= 1
  <2>1. 1 \in News(p)
    <3>1. p[1] # NoValue
      BY <1>5, <1>6
    <3>2. 1 \in DOMAIN p
      BY <1>1, <1>5
    <3> QED BY <3>1, <3>2 DEF News
  <2>2. ASSUME NEW k \in News(p) PROVE k <= 1
    <3>1. k \in 1..m + 1 /\ p[k] # NoValue
      BY <1>5 DEF News
    <3>2. k \notin 2..m + 1
      BY <1>5, <3>1
    <3> QED BY <1>1, <3>1, <3>2
  <2> QED BY <2>1, <2>2
<1>8. m + 1 \in Nat
  BY <1>1
<1>9. Latest(v, p) = p[1]
  BY <1>5, <1>7, <1>8, LatestIs
<1> QED BY <1>5, <1>9 DEF p, q

-----------------------------------------------------------------------------
(***************************************************************************)
(* The states published.                                                   *)
(***************************************************************************)
\* What Home Assistant will be shown of e when the requests q, the requests s after
\* them and the broadcasts b after those have got through.
Coming(x, e, q, s, b) ==
  Latest(Latest(Latest(x, Told(StateTold(e), q)), Told(StateTold(e), s)), Told(ValueTold(e), b))

LEMMA ComingIs ==
  ASSUME TypeOK, NEW e
  PROVE  Latest(Latest(Latest(shown[e], StatesIn(requests, e)), StatesIn(sending, e)),
                ValuesIn(rxState, e))
           = Coming(shown[e], e, requests, sending, rxState)
<1>1. /\ requests \in Seq(Request) /\ sending \in Seq(Request)
      /\ rxState \in Seq([id: Entity, value: Values])
  BY DEF TypeOK
<1>2. /\ StatesIn(requests, e) = Told(StateTold(e), requests)
      /\ StatesIn(sending, e) = Told(StateTold(e), sending)
      /\ ValuesIn(rxState, e) = Told(ValueTold(e), rxState)
  BY <1>1, RequestsTell, BroadcastsTell
<1> QED BY <1>2 DEF Coming

LEMMA NothingComing ==
  ASSUME NEW x, NEW e
  PROVE  Coming(x, e, <<>>, <<>>, <<>>) = x
<1>1. \A F, v: Latest(v, Told(F, <<>>)) = v
  BY ToldNothing
<1> QED BY <1>1 DEF Coming

LEMMA StatesFirst == Init => StatesFollow
<1> SUFFICES ASSUME Init, NEW e \in Entity
             PROVE  published[e] = Latest(Latest(Latest(shown[e], StatesIn(requests, e)), StatesIn(sending, e)),
                                          ValuesIn(rxState, e))
  BY DEF StatesFollow
<1>1. TypeOK
  BY InitTyped
<1>2. Setup \in Seq(Stateless)
  BY ListTypes
<1>3. /\ requests = <<>> /\ rxState = <<>> /\ sending = Setup /\ published[e] = shown[e]
  BY DEF Init
<1>4. \A F, v: Latest(v, Told(F, <<>>)) = v
  BY ToldNothing
<1>5. Latest(shown[e], Told(StateTold(e), Setup)) = shown[e]
  BY <1>2, StatelessTold
<1> HIDE DEF Setup
<1>6. Coming(shown[e], e, requests, sending, rxState) = published[e]
  BY <1>3, <1>4, <1>5 DEF Coming
<1> QED BY <1>1, <1>6, ComingIs

LEMMA StatesKept == TypeOK /\ TypeOK' /\ StatesFollow /\ [Next]_vars => StatesFollow'
<1> SUFFICES ASSUME TypeOK, TypeOK', StatesFollow, [Next]_vars, ~lagged', NEW e \in Entity
             PROVE  (published[e] = Latest(Latest(Latest(shown[e], StatesIn(requests, e)), StatesIn(sending, e)),
                                           ValuesIn(rxState, e)))'
  BY DEF StatesFollow
<1> USE DEF tasks, chans, session, broker
<1> DEFINE Heard == [id: Entity, value: Values]
           F == StateTold(e)
           V == ValueTold(e)
           Now == published[e] = Coming(shown[e], e, requests, sending, rxState)
<1>1. ~lagged => Now
  BY ComingIs DEF StatesFollow
<1>2. SUFFICES Now'
  <2>1. Now' => published'[e] = Coming(shown'[e], e, requests', sending', rxState')
    OBVIOUS
  <2>2. (Latest(Latest(Latest(shown[e], StatesIn(requests, e)), StatesIn(sending, e)),
                ValuesIn(rxState, e)))'
         = Coming(shown'[e], e, requests', sending', rxState')
    <3>1. /\ requests' \in Seq(Request) /\ sending' \in Seq(Request) /\ rxState' \in Seq(Heard)
      BY DEF TypeOK
    <3>2. /\ StatesIn(requests', e) = Told(StateTold(e), requests')
          /\ StatesIn(sending', e) = Told(StateTold(e), sending')
          /\ ValuesIn(rxState', e) = Told(ValueTold(e), rxState')
      BY <3>1, RequestsTell, BroadcastsTell
    <3> QED BY <3>2 DEF Coming
  <2> QED BY <2>1, <2>2
<1>3. /\ requests \in Seq(Request) /\ sending \in Seq(Request) /\ announcing \in Seq(Announced)
      /\ rxState \in Seq(Heard)
  BY DEF TypeOK
<1>4. {shown, published} \subseteq StateOf
  BY DEF TypeOK
<1>5. \A w: Latest(w, Told(F, <<>>)) = w /\ Latest(w, Told(V, <<>>)) = w
  BY ToldNothing
<1> HIDE DEF F, V, Heard
<1>6. ASSUME UNCHANGED <<requests, sending, rxState, lagged, shown, published>> PROVE Now'
  BY <1>1, <1>6 DEF Coming
<1>7. CASE Push
  <2>1. /\ requests' = Append(requests, Head(sending)) /\ sending' = Tail(sending) /\ sending # <<>>
        /\ UNCHANGED <<rxState, shown, published, lagged>>
    BY <1>7 DEF Push
  <2>2. Latest(Latest(shown[e], Told(F, requests')), Told(F, sending'))
          = Latest(Latest(shown[e], Told(F, requests)), Told(F, sending))
    BY <1>3, <2>1, ToldMoved
  <2> QED BY <1>1, <2>1, <2>2 DEF Coming, F
<1>8. CASE RecvState
  <2> DEFINE b == Head(rxState)
             r == State(b.id, b.value)
             w == Latest(shown[e], Told(F, requests))
  <2>1. /\ sending = <<>> /\ sending' = <<r>> /\ rxState # <<>> /\ rxState' = Tail(rxState)
        /\ UNCHANGED <<requests, shown, published, lagged>>
    BY <1>8 DEF RecvState, StartIdle
  <2>2. b \in Heard
    BY <1>3, <2>1, Removed
  <2>3. r \in Request /\ F[r] = V[b]
    BY <2>2 DEF State, Request, Heard, F, V, StateTold, ValueTold
  <2> HIDE DEF r, b, w
  <2>4. sending' = Append(<<>>, r) /\ <<>> \in Seq(Request)
    BY <2>1, <2>3
  <2>5. Latest(w, Told(F, sending')) = IF F[r] = NoValue THEN w ELSE F[r]
    <3>1. Latest(w, Told(F, Append(<<>>, r))) = IF F[r] = NoValue THEN Latest(w, Told(F, <<>>)) ELSE F[r]
      BY <2>3, <2>4, ToldAppended
    <3> QED BY <1>5, <2>4, <3>1
  <2>6. Latest(w, Told(V, rxState)) = Latest(IF V[b] = NoValue THEN w ELSE V[b], Told(V, rxState'))
    BY <1>3, <2>1, ToldRemoved DEF b
  <2>7. Latest(w, Told(F, sending)) = w
    BY <1>5, <2>1
  <2>8. Latest(Latest(w, Told(F, sending')), Told(V, rxState')) = Latest(Latest(w, Told(F, sending)), Told(V, rxState))
    BY <2>3, <2>5, <2>6, <2>7
  <2> QED BY <1>1, <2>1, <2>8 DEF Coming, F, V, w
<1>9. CASE RecvShutdown
  <2> DEFINE s == publish_entities_availability_offline
             w == Latest(shown[e], Told(F, requests))
  <2>1. /\ sending = <<>> /\ sending' = s
        /\ UNCHANGED <<requests, rxState, shown, published, lagged>>
    BY <1>9 DEF RecvShutdown, StartIdle
  <2>2. Latest(w, Told(F, s)) = w
    BY ListTypes, StatelessTold DEF F
  <2> HIDE DEF s
  <2>3. Latest(w, Told(F, sending')) = Latest(w, Told(F, sending))
    BY <1>5, <2>1, <2>2
  <2> QED BY <1>1, <2>1, <2>3 DEF Coming, F
<1>10. CASE EnterLoop \/ StartDone
  BY <1>6, <1>10 DEF EnterLoop, StartDone
<1>11. CASE Connect \/ PollError \/ Wake \/ Incoming \/ SendAction
  BY <1>6, <1>11 DEF Connect, PollError, Wake, Incoming, SendAction
<1>12. CASE Transmit
  <2> DEFINE r == Head(requests)
  <2>1. /\ requests # <<>> /\ requests' = Tail(requests)
        /\ shown' = IF r.kind = "state" THEN [shown EXCEPT ![r.of] = r.to] ELSE shown
        /\ UNCHANGED <<sending, rxState, published, lagged>>
    BY <1>12 DEF Transmit
  <2>2. r \in Request
    BY <1>3, <2>1, Removed
  <2>3. Latest(shown[e], Told(F, requests)) = Latest(IF F[r] = NoValue THEN shown[e] ELSE F[r], Told(F, requests'))
    BY <1>3, <2>1, ToldRemoved
  <2>4. shown'[e] = IF F[r] = NoValue THEN shown[e] ELSE F[r]
    <3> HIDE DEF r
    <3>1. F[r] = IF r.kind = "state" /\ r.of = e THEN r.to ELSE NoValue
      BY <2>2 DEF F, StateTold
    <3>2. r.kind = "state" => r.to # NoValue
      BY <2>2, ValuesAssumption, ValuesAreSome DEF Request, Announced
    <3> QED BY <1>4, <2>1, <3>1, <3>2 DEF StateOf
  <2>5. Latest(shown'[e], Told(F, requests')) = Latest(shown[e], Told(F, requests))
    BY <2>3, <2>4
  <2> QED BY <1>1, <2>1, <2>5 DEF Coming, F
<1>13. CASE Announce
  <2>1. /\ requests' = Append(requests, Head(announcing)) /\ announcing # <<>>
        /\ UNCHANGED <<sending, rxState, shown, published, lagged>>
    BY <1>13 DEF Announce
  <2>2. Head(announcing) \in Stateless /\ Head(announcing) \in Request
    BY <1>3, <2>1, Removed, AnnouncedFacts
  <2>3. F[Head(announcing)] = NoValue
    BY <2>2 DEF Stateless, F, StateTold
  <2>4. Latest(shown[e], Told(F, requests')) = Latest(shown[e], Told(F, requests))
    BY <1>3, <2>1, <2>2, <2>3, ToldAppended
  <2> QED BY <1>1, <2>1, <2>4 DEF Coming, F
<1>14. ASSUME NEW o \in Entity, NEW v \in Values, Broadcast(o, v) PROVE Now'
  <2> DEFINE b == [id |-> o, value |-> v]
             w == Latest(Latest(shown[e], Told(F, requests)), Told(F, sending))
  <2>1. ~lagged /\ Len(rxState) # Capacity
    BY <1>14 DEF Broadcast
  <2>2. Len(rxState) < Capacity
    <3>1. Len(rxState) \in Nat /\ Len(rxState) <= Capacity /\ Capacity \in Nat
      BY <1>3, SizesAssumption, Parts DEF TypeOK
    <3> QED BY <2>1, <3>1
  <2>3. /\ rxState' = Append(rxState, b) /\ published' = [published EXCEPT ![o] = v]
        /\ UNCHANGED <<requests, sending, shown>>
    BY <1>14, <2>2 DEF Broadcast
  <2>4. b \in Heard /\ V[b] = (IF o = e THEN v ELSE NoValue) /\ v # NoValue
    BY ValuesAssumption, ValuesAreSome DEF Heard, V, ValueTold
  <2>5. published'[e] = IF o = e THEN v ELSE published[e]
    BY <1>4, <2>3 DEF StateOf
  <2> HIDE DEF b, w
  <2>6. Latest(w, Told(V, rxState')) = IF V[b] = NoValue THEN Latest(w, Told(V, rxState)) ELSE V[b]
    BY <1>3, <2>3, <2>4, ToldAppended
  <2>7. published[e] = Latest(w, Told(V, rxState))
    BY <1>1, <2>1 DEF Coming, F, V, w
  <2>8. published'[e] = Latest(w, Told(V, rxState'))
    BY <2>4, <2>5, <2>6, <2>7
  <2> QED BY <2>3, <2>8 DEF Coming, F, V, w
<1>15. CASE Dispatch \/ Shutdown
  BY <1>6, <1>15 DEF Dispatch, Shutdown
<1>16. CASE End
  <2>1. requests' = <<>> /\ sending' = <<>> /\ rxState' = <<>> /\ published'[e] = shown'[e]
    BY <1>16 DEF End
  <2> QED BY <2>1, NothingComing
<1>17. CASE Restart
  <2> DEFINE w == Latest(shown[e], Told(F, requests))
  <2>1. /\ sending = <<>> /\ sending' = Setup
        /\ UNCHANGED <<requests, rxState, shown, published, lagged>>
    BY <1>17 DEF Restart, TypeOK
  <2>2. Latest(w, Told(F, Setup)) = w
    BY ListTypes, StatelessTold DEF F
  <2> HIDE DEF Setup
  <2>3. Latest(w, Told(F, sending')) = Latest(w, Told(F, sending))
    BY <1>5, <2>1, <2>2
  <2> QED BY <1>1, <2>1, <2>3 DEF Coming, F
<1>18. CASE LoseConnection
  <2>1. /\ \/ requests' = requests
           \/ requests # <<>> /\ Head(requests).kind = "subscribe" /\ requests' = Tail(requests)
        /\ UNCHANGED <<sending, rxState, shown, published, lagged>>
    BY <1>18 DEF LoseConnection
  <2>2. Latest(shown[e], Told(F, requests')) = Latest(shown[e], Told(F, requests))
    <3>1. CASE requests' = requests
      BY <3>1
    <3>2. CASE requests # <<>> /\ Head(requests).kind = "subscribe" /\ requests' = Tail(requests)
      <4>1. Head(requests) \in Request
        BY <1>3, <3>2, Removed
      <4>2. F[Head(requests)] = NoValue
        BY <3>2, <4>1 DEF F, StateTold
      <4> QED BY <1>3, <3>2, <4>2, ToldRemoved
    <3> QED BY <2>1, <3>1, <3>2
  <2> QED BY <1>1, <2>1, <2>2 DEF Coming, F
<1>19. ASSUME NEW m \in Messages, Deliver(m) PROVE Now'
  BY <1>6, <1>19 DEF Deliver
<1>20. CASE UNCHANGED vars
  BY <1>6, <1>20 DEF vars
<1> QED
  BY <1>7, <1>8, <1>9, <1>10, <1>11, <1>12, <1>13, <1>14, <1>15, <1>16, <1>17, <1>18, <1>19, <1>20
  DEF Next, Start, EventLoop, Exit, Crash

\* No broadcast is lost on its way to Home Assistant, and none overtakes another one
\* of the same entity, as long as the client does not lag behind.
THEOREM StatesFollowed == Spec => []StatesFollow
<1>1. Init => TypeOK /\ StatesFollow
  BY InitTyped, StatesFirst
<1>2. TypeOK /\ StatesFollow /\ [Next]_vars => (TypeOK /\ StatesFollow)'
  BY NextTyped, StatesKept
<1> QED BY <1>1, <1>2, PTL DEF Spec

-----------------------------------------------------------------------------
(***************************************************************************)
(* The last word on the server.                                            *)
(***************************************************************************)
Off == BoolVal(FALSE)

\* What the broker will have been told of the server after the requests q and s.
Word(x, q, s) == Latest(Latest(x, Told(ServerTold, q)), Told(ServerTold, s))

LEMMA WordIs ==
  ASSUME TypeOK, NEW q \in Seq(Request)
  PROVE  LastWord(q) = Word(BoolVal(retained[Server]), requests, q)
BY RequestsTell DEF TypeOK, LastWord, Word

LEMMA LatestFrom ==
  ASSUME NEW v, NEW w, NEW p, Latest(v, p) = w
  PROVE  Latest(w, p) = w
BY DEF Latest

\* What ends with a word ends with it as well when it begins with it.
LEMMA WordFrom ==
  ASSUME NEW x, NEW w, NEW q, NEW s, Word(x, q, s) = w
  PROVE  Word(w, q, s) = w
<1> DEFINE P == Told(ServerTold, q)
           R == Told(ServerTold, s)
<1>1. Latest(Latest(x, P), R) = w
  BY DEF Word
<1> HIDE DEF P, R
<1>2. CASE News(P) = {}
  <2>1. Latest(w, P) = w
    BY <1>2, LatestNone
  <2>2. Latest(w, R) = w
    BY <1>1, LatestFrom
  <2> QED BY <2>1, <2>2 DEF Word, P, R
<1>3. CASE News(P) # {}
  <2>1. Latest(w, P) = Latest(x, P)
    BY <1>3 DEF Latest
  <2> QED BY <1>1, <2>1 DEF Word, P, R
<1> QED BY <1>2, <1>3

\* From the shutdown on, what is under way ends with the server being offline.
LEMMA EndsKept ==
  TypeOK /\ TypeOK' /\ NoFalseOnline /\ EndsOffline /\ [Next]_vars => EndsOffline'
<1> SUFFICES ASSUME TypeOK, TypeOK', NoFalseOnline, EndsOffline, [Next]_vars,
                    start' \in {"offline", "done"}
             PROVE  LastWord(sending)' = Off
  BY DEF EndsOffline, Off
<1> USE DEF tasks, chans, session, broker
<1> DEFINE x == BoolVal(retained[Server])
           F == ServerTold
           Now == Word(x, requests, sending) = Off
<1> SUFFICES Now'
  <2>1. sending' \in Seq(Request) /\ requests' \in Seq(Request)
    BY DEF TypeOK
  <2>2. LastWord(sending)' = Latest(Latest(BoolVal(retained'[Server]), ServerIn(requests')), ServerIn(sending'))
    BY DEF LastWord, ServerIn
  <2>3. LastWord(sending)' = Word(BoolVal(retained'[Server]), requests', sending')
    BY <2>1, <2>2, RequestsTell DEF Word
  <2> QED BY <2>3
<1>1. start \in {"offline", "done"} => Now
  BY WordIs DEF EndsOffline, TypeOK, Off
<1>2. /\ requests \in Seq(Request) /\ sending \in Seq(Request) /\ announcing \in Seq(Announced)
      /\ retained \in [Entity \cup {Server} -> BOOLEAN]
  BY DEF TypeOK
<1>3. \A w: Latest(w, Told(F, <<>>)) = w
  BY ToldNothing
<1> HIDE DEF F, x
<1>4. ASSUME UNCHANGED <<requests, sending, retained>>, start \in {"offline", "done"} PROVE Now'
  <2>1. x' = x
    BY <1>4 DEF x
  <2> QED BY <1>1, <1>4, <2>1
<1>5. CASE Push
  <2>1. /\ requests' = Append(requests, Head(sending)) /\ sending' = Tail(sending) /\ sending # <<>>
        /\ UNCHANGED <<start, retained>>
    BY <1>5 DEF Push
  <2>2. Latest(Latest(x, Told(F, requests')), Told(F, sending'))
          = Latest(Latest(x, Told(F, requests)), Told(F, sending))
    BY <1>2, <2>1, ToldMoved
  <2>3. x' = x
    BY <2>1 DEF x
  <2> QED BY <1>1, <2>1, <2>2, <2>3 DEF Word, F
<1>6. CASE EnterLoop \/ RecvState
  BY <1>6 DEF EnterLoop, RecvState, StartIdle
<1>7. CASE RecvShutdown
  <2>1. sending' = publish_entities_availability_offline
    BY <1>7 DEF RecvShutdown
  <2> HIDE DEF publish_entities_availability_offline
  <2> QED BY <2>1, OfflineTold DEF Word, Off
<1>8. CASE StartDone
  BY <1>4, <1>8 DEF StartDone, StartIdle
<1>9. CASE Connect \/ PollError \/ Wake \/ Incoming \/ SendAction
  BY <1>4, <1>9 DEF Connect, PollError, Wake, Incoming, SendAction
<1>10. CASE Transmit
  <2> DEFINE r == Head(requests)
  <2>1. /\ requests # <<>> /\ requests' = Tail(requests)
        /\ retained' = IF r.kind = "availability" THEN [retained EXCEPT ![r.of] = r.to] ELSE retained
        /\ UNCHANGED <<start, sending>>
    BY <1>10 DEF Transmit
  <2>2. r \in Request
    BY <1>2, <2>1, Removed
  <2>3. Latest(x, Told(F, requests)) = Latest(IF F[r] = NoValue THEN x ELSE F[r], Told(F, requests'))
    BY <1>2, <2>1, ToldRemoved
  <2>4. x' = IF F[r] = NoValue THEN x ELSE F[r]
    <3> HIDE DEF r
    <3>1. F[r] = IF r.kind = "availability" /\ r.of = Server THEN BoolVal(r.to) ELSE NoValue
      BY <2>2 DEF F, ServerTold
    <3>2. \A b: BoolVal(b) # NoValue
      BY DEF BoolVal, NoValue
    <3>3. CASE r.kind = "availability" /\ r.of = Server
      <4>1. retained'[Server] = r.to
        BY <1>2, <2>1, <3>3
      <4> QED BY <3>1, <3>2, <3>3, <4>1 DEF x
    <3>4. CASE ~(r.kind = "availability" /\ r.of = Server)
      <4>1. retained'[Server] = retained[Server]
        BY <1>2, <2>1, <3>4
      <4> QED BY <3>1, <3>4, <4>1 DEF x
    <3> QED BY <3>3, <3>4
  <2>5. Latest(x', Told(F, requests')) = Latest(x, Told(F, requests))
    BY <2>3, <2>4
  <2> QED BY <1>1, <2>1, <2>5 DEF Word, F
<1>11. CASE Announce
  <2>1. /\ requests' = Append(requests, Head(announcing)) /\ announcing # <<>>
        /\ UNCHANGED <<start, sending, retained>>
    BY <1>11 DEF Announce
  <2>2. Head(announcing) \in Announced
    BY <1>2, <2>1, Removed
  <2>3. Head(announcing) \in Request /\ F[Head(announcing)] = NoValue
    BY <2>2, AnnouncedFacts DEF F, ServerTold
  <2>4. Latest(x, Told(F, requests')) = Latest(x, Told(F, requests))
    BY <1>2, <2>1, <2>3, ToldAppended
  <2>5. x' = x
    BY <2>1 DEF x
  <2> QED BY <1>1, <2>1, <2>4, <2>5 DEF Word, F
<1>12. ASSUME NEW e \in Entity, NEW v \in Values, Broadcast(e, v) PROVE Now'
  BY <1>4, <1>12 DEF Broadcast
<1>13. CASE Dispatch \/ Shutdown
  BY <1>4, <1>13 DEF Dispatch, Shutdown
<1>14. CASE End
  <2>1. /\ requests' = <<>> /\ sending' = <<>>
        /\ retained' = IF connected THEN LastWill ELSE retained
    BY <1>14 DEF End
  <2>2. ~retained'[Server]
    BY <1>2, <2>1 DEF NoFalseOnline, LastWill
  <2>3. retained' \in [Entity \cup {Server} -> BOOLEAN]
    BY DEF TypeOK
  <2>4. retained'[Server] = FALSE
    <3>1. Server \in Entity \cup {Server}
      OBVIOUS
    <3>2. retained'[Server] \in BOOLEAN
      BY <2>3, <3>1
    <3> QED BY <2>2, <3>2
  <2>5. x' = Off
    BY <2>4 DEF x, Off
  <2> QED BY <1>3, <2>1, <2>5 DEF Word, F
<1>15. CASE Restart
  BY <1>15 DEF Restart
<1>16. CASE LoseConnection
  <2>1. /\ \/ requests' = requests
           \/ requests # <<>> /\ Head(requests).kind = "subscribe" /\ requests' = Tail(requests)
        /\ retained' = LastWill /\ UNCHANGED <<start, sending>>
    BY <1>16 DEF LoseConnection
  <2>2. retained'[Server] = FALSE
    BY <1>2, <2>1 DEF LastWill
  <2>3. Word(Off, requests, sending) = Off
    BY <1>1, <2>1, WordFrom
  <2>4. Latest(Off, Told(F, requests')) = Latest(Off, Told(F, requests))
    <3>1. CASE requests' = requests
      BY <3>1
    <3>2. CASE requests # <<>> /\ Head(requests).kind = "subscribe" /\ requests' = Tail(requests)
      <4>1. Head(requests) \in Request
        BY <1>2, <3>2, Removed
      <4>2. F[Head(requests)] = NoValue
        BY <3>2, <4>1 DEF F, ServerTold
      <4> QED BY <1>2, <3>2, <4>2, ToldRemoved
    <3> QED BY <2>1, <3>1, <3>2
  <2>5. x' = Off
    BY <2>2 DEF x, Off
  <2> QED BY <2>1, <2>3, <2>4, <2>5 DEF Word, F
<1>17. ASSUME NEW m \in Messages, Deliver(m) PROVE Now'
  BY <1>4, <1>17 DEF Deliver
<1>18. CASE UNCHANGED vars
  BY <1>4, <1>18 DEF vars
<1> QED
  BY <1>5, <1>6, <1>7, <1>8, <1>9, <1>10, <1>11, <1>12, <1>13, <1>14, <1>15, <1>16, <1>17, <1>18
  DEF Next, Start, EventLoop, Exit, Crash

\* The queues, the states, and the last word are in order in every state.
THEOREM Invariance == Spec => []IInv
<1>1. Init => IInv /\ OInv
  BY InitTyped, StatesFirst, OInvInit DEF IInv, OInv, EndsOffline, Init
<1>2. IInv /\ OInv /\ [Next]_vars => (IInv /\ OInv)'
  <2> SUFFICES ASSUME IInv, OInv, [Next]_vars PROVE IInv' /\ OInv'
    OBVIOUS
  <2>1. TypeOK'
    BY NextTyped DEF IInv
  <2>2. OInv'
    BY OInvNext
  <2> QED BY <2>1, <2>2, StatesKept, EndsKept DEF IInv, OInv
<1> QED BY <1>1, <1>2, PTL DEF Spec

\* When start() has returned the last word on the server is that it is offline,
\* whatever the event loop announces in the meantime and wherever a connection is lost.
THEOREM OfflineLast == Spec => []OfflineIsLast
<1>1. IInv => OfflineIsLast
  <2> SUFFICES ASSUME IInv, start = "done" PROVE LastWord(announcing) = Off
    BY DEF OfflineIsLast, Off
  <2>1. TypeOK /\ sending = <<>> /\ announcing \in Seq(Announced)
    BY DEF IInv, TypeOK
  <2>2. announcing \in Seq(Request) /\ <<>> \in Seq(Request)
    BY <2>1, AnnouncedFacts, SeqMonotonic
  <2>3. LastWord(sending) = Off
    BY DEF IInv, EndsOffline, Off
  <2>4. Word(BoolVal(retained[Server]), requests, <<>>) = Off
    BY <2>1, <2>2, <2>3, WordIs
  <2>5. \A w: Latest(w, Told(ServerTold, <<>>)) = w
    BY ToldNothing
  <2>6. \A w: Latest(w, Told(ServerTold, announcing)) = w
    BY <2>1, AnnouncedTold
  <2>7. Word(BoolVal(retained[Server]), requests, announcing) = Off
    BY <2>4, <2>5, <2>6 DEF Word
  <2> QED BY <2>1, <2>2, <2>7, WordIs
<1> QED BY <1>1, Invariance, PTL
=============================================================================


