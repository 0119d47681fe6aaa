------------------------------ MODULE MqttClient ------------------------------
(***************************************************************************)
(* The MQTT client (core/src/mqtt_client.rs) between the server's channels *)
(* and Home Assistant.  Two tasks share one bounded queue of requests to   *)
(* the broker: start(), which announces the server and then publishes the  *)
(* broadcast states, and the event loop, which alone takes requests from   *)
(* the queue, and which also puts some there when Home Assistant restarts. *)
(* The broker and Home Assistant are external: what the broker retains,    *)
(* the last will, and a session that ends with its connection.             *)
(***************************************************************************)
EXTENDS Updates, SequencesExt

CONSTANTS
  Entities,     \* the inputs and outputs of all rooms, a sequence of ids
  Server,       \* stands for the server in its own availability topic
  Values,       \* the values that may be broadcast
  Messages,     \* what may be published to the topics the client subscribes to
  QueueSize,    \* of the request queue of AsyncClient::new
  Capacity,     \* CHANNEL_CAPACITY, of the broadcasts and of the commands
  InboxSize     \* messages on their way from the broker

ASSUME SizesAssumption == {QueueSize, Capacity, InboxSize} \subseteq Nat \ {0}
ASSUME ServerAssumption == Server \notin ToSet(Entities)

Entity == ToSet(Entities)

ASSUME EntitiesAssumption == Entities \in Seq(Entity)
ASSUME ValuesAssumption == Values \subseteq IOValueSet

VARIABLES
  requests,     \* the queue between the tasks and the network
  asleep,       \* event loop: in the second after an error
  announcing,   \* event loop: what it still has to put into the queue
  held,         \* event loop: the command it is sending, if any
  start,        \* where start() stands
  sending,      \* start(): what it still has to put into the queue
  rxState,      \* its share of the broadcast channel
  lagged,       \* it has lost broadcasts it had not received
  cmds,         \* the output command channel
  process,      \* where main() stands
  connected, subscribed, inbox,     \* the session with the broker
  retained,     \* availability topics: online or not
  discovered,   \* entities Home Assistant has been told of
  shown,        \* the last state published of each entity
  published     \* history: what shown will be when all broadcasts got through

tasks   == <<asleep, announcing, held, start, sending>>
chans   == <<rxState, lagged, cmds>>
session == <<connected, subscribed, inbox>>
broker  == <<retained, discovered, shown>>
vars == <<requests, tasks, chans, process, session, broker, published>>

(***************************************************************************)
(* Requests, and the lists of them that the tasks work through.            *)
(***************************************************************************)
Availability(of, online) == [kind |-> "availability", of |-> of, to |-> online]
Discovery(e)  == [kind |-> "discovery", of |-> e, to |-> TRUE]
Subscribe(t)  == [kind |-> "subscribe", of |-> t, to |-> TRUE]
State(e, v)   == [kind |-> "state", of |-> e, to |-> v]

ForEach(Op(_)) == [n \in DOMAIN Entities |-> Op(Entities[n])]
Online(e)  == Availability(e, TRUE)
Offline(e) == Availability(e, FALSE)

publish_discovery == ForEach(Discovery)

Setup ==
  <<Online(Server)>> \o ForEach(Online) \o publish_discovery
    \o <<Subscribe("set"), Subscribe("status")>>

\* Mutant: the server's own topic is announced again too.
AnnouncementOfAll == publish_discovery \o <<Online(Server)>> \o ForEach(Online)

Announcement == publish_discovery \o ForEach(Online)

\* Mutant: only the entities are said to be offline.
OfflineOfEntities == ForEach(Offline)

publish_entities_availability_offline == <<Offline(Server)>> \o ForEach(Offline)

Room == Len(requests) < QueueSize

Init ==
  /\ requests = <<>> /\ asleep = FALSE /\ announcing = <<>> /\ held = <<>>
  /\ start = "setup" /\ sending = Setup
  /\ rxState = <<>> /\ lagged = FALSE /\ cmds = <<>>
  /\ process = "running"
  /\ connected = FALSE /\ subscribed = {} /\ inbox = <<>>
  /\ retained = [t \in Entity \cup {Server} |-> FALSE]
  /\ discovered = {} /\ shown = [e \in Entity |-> NoValue]
  /\ published = shown

(***************************************************************************)
(* start().                                                                *)
(***************************************************************************)
\* Mutant: a request that finds no room is dropped.
PushOrDrop ==
  /\ process # "ended" /\ sending # <<>>
  /\ requests' = IF Room THEN Append(requests, Head(sending)) ELSE requests
  /\ sending' = Tail(sending)
  /\ UNCHANGED <<asleep, announcing, held, start, chans, process, session, broker, published>>

\* One publish or subscribe: it waits for room in the queue.
Push ==
  /\ process # "ended" /\ sending # <<>> /\ Room
  /\ requests' = Append(requests, Head(sending))
  /\ sending' = Tail(sending)
  /\ UNCHANGED <<asleep, announcing, held, start, chans, process, session, broker, published>>

StartIdle(at) == process # "ended" /\ start = at /\ sending = <<>>

EnterLoop ==
  /\ StartIdle("setup")
  /\ start' = "select"
  /\ UNCHANGED <<requests, asleep, announcing, held, sending, chans, process, session, broker,
                 published>>

\* The branch Ok(state) = rx_state.recv().  A lagged receiver returns an error,
\* which disables the branch until the other one, the shutdown, is taken.
RecvState ==
  /\ StartIdle("select") /\ rxState # <<>> /\ ~lagged
  /\ sending' = <<State(Head(rxState).id, Head(rxState).value)>>
  /\ rxState' = Tail(rxState)
  /\ UNCHANGED <<requests, asleep, announcing, held, start, lagged, cmds, process, session,
                 broker, published>>

RecvShutdown ==
  /\ StartIdle("select") /\ process = "stopping"
  /\ start' = "offline" /\ sending' = publish_entities_availability_offline
  /\ UNCHANGED <<requests, asleep, announcing, held, chans, process, session, broker, published>>

StartDone ==
  /\ StartIdle("offline")
  /\ start' = "done"
  /\ UNCHANGED <<requests, asleep, announcing, held, sending, chans, process, session, broker,
                 published>>

(***************************************************************************)
(* The event loop.  Its task is not told of the shutdown: it goes on until *)
(* the process ends.                                                       *)
(***************************************************************************)
\* Mutant: its task ends when the shutdown begins, before the farewell is sent.
PollingUntilShutdown ==
  process = "running" /\ ~asleep /\ announcing = <<>> /\ held = <<>>

Polling == process # "ended" /\ ~asleep /\ announcing = <<>> /\ held = <<>>

\* poll() connects; the session is a new one.
Connect ==
  /\ Polling /\ ~connected
  /\ connected' = TRUE
  /\ UNCHANGED <<requests, tasks, chans, process, subscribed, inbox, broker, published>>

PollError ==
  /\ Polling /\ ~connected
  /\ asleep' = TRUE
  /\ UNCHANGED <<requests, announcing, held, start, sending, chans, process, session, broker,
                 published>>

Wake ==
  /\ process # "ended" /\ asleep
  /\ asleep' = FALSE
  /\ UNCHANGED <<requests, announcing, held, start, sending, chans, process, session, broker,
                 published>>

\* poll() takes a request from the queue, and the broker acts on it.
Transmit ==
  /\ Polling /\ connected /\ requests # <<>>
  /\ requests' = Tail(requests)
  /\ LET r == Head(requests) IN
       /\ retained' = IF r.kind = "availability" THEN [retained EXCEPT ![r.of] = r.to] ELSE retained
       /\ discovered' = IF r.kind = "discovery" THEN discovered \cup {r.of} ELSE discovered
       /\ subscribed' = IF r.kind = "subscribe" THEN subscribed \cup {r.of} ELSE subscribed
       /\ shown' = IF r.kind = "state" THEN [shown EXCEPT ![r.of] = r.to] ELSE shown
  /\ UNCHANGED <<tasks, chans, process, connected, inbox, published>>

(***************************************************************************)
(* handle_command: the command a message stands for, or none.              *)
(***************************************************************************)
PayloadAction == [
  ON     |-> SetValue(BoolVal(TRUE)),
  OFF    |-> SetValue(BoolVal(FALSE)),
  OPEN   |-> SetValue(ShutterVal("Up")),
  CLOSE  |-> SetValue(ShutterVal("Down")),
  STOP   |-> Stop,
  TOGGLE |-> Toggle]

CommandOf(m) ==
  IF m.topic = "set" /\ m.payload \in DOMAIN PayloadAction
  THEN <<[id |-> m.id, action |-> PayloadAction[m.payload]]>>
  ELSE <<>>

IsOnline(m) == m.topic = "status" /\ m.payload = "online"

Incoming ==
  /\ Polling /\ connected /\ inbox # <<>>
  /\ inbox' = Tail(inbox)
  /\ IF IsOnline(Head(inbox))
     THEN announcing' = Announcement /\ UNCHANGED held
     ELSE held' = CommandOf(Head(inbox)) /\ UNCHANGED announcing
  /\ UNCHANGED <<requests, asleep, start, sending, chans, process, connected, subscribed, broker,
                 published>>

\* Mutant: it does not wait for room.
AnnounceUnbounded ==
  /\ process # "ended" /\ announcing # <<>>
  /\ requests' = Append(requests, Head(announcing))
  /\ announcing' = Tail(announcing)
  /\ UNCHANGED <<asleep, held, start, sending, chans, process, session, broker, published>>

\* One publish of the announcement, made by the task that empties the queue.
Announce ==
  /\ process # "ended" /\ announcing # <<>> /\ Room
  /\ requests' = Append(requests, Head(announcing))
  /\ announcing' = Tail(announcing)
  /\ UNCHANGED <<asleep, held, start, sending, chans, process, session, broker, published>>

\* tx_action.send: it waits for room, or fails when the dispatcher is gone.
SendAction ==
  /\ process # "ended" /\ held # <<>>
  /\ process = "running" => Len(cmds) < Capacity
  /\ cmds' = IF process = "running" THEN cmds \o held ELSE cmds
  /\ held' = <<>>
  /\ UNCHANGED <<requests, asleep, announcing, start, sending, rxState, lagged, process, session,
                 broker, published>>

(***************************************************************************)
(* The rest of the server, and its end.                                    *)
(***************************************************************************)
Broadcast(e, v) ==
  /\ process = "running"
  /\ rxState' = Append(IF Len(rxState) < Capacity THEN rxState ELSE Tail(rxState),
                       [id |-> e, value |-> v])
  /\ lagged' = (lagged \/ Len(rxState) = Capacity)
  /\ published' = [published EXCEPT ![e] = v]
  /\ UNCHANGED <<requests, tasks, cmds, process, session, broker>>

Dispatch ==
  /\ process = "running" /\ cmds # <<>>
  /\ cmds' = Tail(cmds)
  /\ UNCHANGED <<requests, tasks, rxState, lagged, process, session, broker, published>>

\* A branch of main()'s select! has returned: all the others are dropped.
Shutdown ==
  /\ process = "running"
  /\ process' = "stopping" /\ cmds' = <<>>
  /\ UNCHANGED <<requests, tasks, rxState, lagged, session, broker, published>>

\* Mutant: no last will is set.
NoWill == retained

\* What the broker does when a connection ends without a farewell.
LastWill == [retained EXCEPT ![Server] = FALSE]

End ==
  /\ process' = "ended"
  /\ requests' = <<>> /\ asleep' = FALSE /\ announcing' = <<>> /\ held' = <<>>
  /\ start' = "done" /\ sending' = <<>>
  /\ rxState' = <<>> /\ lagged' = FALSE /\ cmds' = <<>>
  /\ connected' = FALSE /\ subscribed' = {} /\ inbox' = <<>>
  /\ retained' = IF connected THEN LastWill ELSE retained
  /\ published' = shown
  /\ UNCHANGED <<discovered, shown>>

\* main() has waited for start() to return, and then for the grace period.
Exit == process = "stopping" /\ start = "done" /\ End

Crash == process # "ended" /\ End

Restart ==
  /\ process = "ended"
  /\ process' = "running" /\ start' = "setup" /\ sending' = Setup
  /\ UNCHANGED <<requests, asleep, announcing, held, chans, session, broker, published>>

(***************************************************************************)
(* The broker and Home Assistant.                                          *)
(***************************************************************************)
\* What is not acknowledged is sent again, except for a subscription.
LoseConnection ==
  /\ connected /\ connected' = FALSE
  /\ subscribed' = {} /\ inbox' = <<>>
  /\ retained' = LastWill
  /\ requests' \in {requests} \cup
       {Tail(q): q \in {q \in {requests}: q # <<>> /\ Head(q).kind = "subscribe"}}
  /\ UNCHANGED <<tasks, chans, process, discovered, shown, published>>

Deliver(m) ==
  /\ m.topic \in subscribed /\ Len(inbox) < InboxSize
  /\ inbox' = Append(inbox, m)
  /\ UNCHANGED <<requests, tasks, chans, process, connected, subscribed, broker, published>>

Start == Push \/ EnterLoop \/ RecvState \/ RecvShutdown \/ StartDone

EventLoop == Connect \/ PollError \/ Wake \/ Transmit \/ Incoming \/ Announce \/ SendAction

Next ==
  \/ Start
  \/ EventLoop
  \/ \E e \in Entity, v \in Values: Broadcast(e, v)
  \/ Dispatch
  \/ Shutdown
  \/ Exit
  \/ Crash
  \/ Restart
  \/ LoseConnection
  \/ \E m \in Messages: Deliver(m)

Spec == Init /\ [][Next]_vars

\* Both tasks are polled when they can go on, the event loop takes from the
\* queue and from the network in turn, and the commands are dispatched.
FairSpec ==
  /\ Spec
  /\ WF_vars(Start)
  /\ WF_vars(EventLoop) /\ SF_vars(Transmit) /\ SF_vars(Incoming)
  /\ WF_vars(Dispatch) /\ WF_vars(Exit)

-----------------------------------------------------------------------------
Announced ==
  [kind: {"availability"}, of: Entity, to: {TRUE}]
    \cup [kind: {"discovery"}, of: Entity, to: {TRUE}]

Request ==
  Announced
    \cup [kind: {"availability"}, of: Entity \cup {Server}, to: BOOLEAN]
    \cup [kind: {"subscribe"}, of: {"set", "status"}, to: {TRUE}]
    \cup [kind: {"state"}, of: Entity, to: Values]

StateOf == [Entity -> Values \cup {NoValue}]
Command == UNION {ToSet(CommandOf(m)): m \in Messages}

\* The queue keeps its bound whoever fills it, and each task does one thing at
\* a time.
TypeOK ==
  /\ requests \in Seq(Request) /\ Len(requests) <= QueueSize
  /\ sending \in Seq(Request) /\ announcing \in Seq(Announced)
  /\ held \in Seq(Command) /\ Len(held) <= 1
  /\ cmds \in Seq(Command) /\ Len(cmds) <= Capacity
  /\ rxState \in Seq([id: Entity, value: Values]) /\ Len(rxState) <= Capacity
  /\ inbox \in Seq(Messages) /\ Len(inbox) <= InboxSize
  /\ {asleep, lagged, connected} \subseteq BOOLEAN
  /\ announcing # <<>> => held = <<>> /\ ~asleep
  /\ process \in {"running", "stopping", "ended"}
  /\ process = "ended" => start = "done" /\ ~connected
  /\ start \in {"setup", "select", "offline", "done"}
  /\ start = "select" => Len(sending) <= 1
  /\ start = "done" => sending = <<>>
  /\ subscribed # {} => connected
  /\ retained \in [Entity \cup {Server} -> BOOLEAN] /\ discovered \subseteq Entity
  /\ {shown, published} \subseteq StateOf

\* Home Assistant is never shown a server that is gone, or cannot be reached, as
\* available: whenever the connection ends, the last will takes "online" back,
\* and no queued request can restore it without a connection.
NoFalseOnline == retained[Server] => connected /\ process # "ended"

\* What the requests q, and the broadcasts b, tell of an entity.
StatesIn(q, e) ==
  [n \in DOMAIN q |-> IF q[n].kind = "state" /\ q[n].of = e THEN q[n].to ELSE NoValue]
ValuesIn(b, e) == [n \in DOMAIN b |-> IF b[n].id = e THEN b[n].value ELSE NoValue]

\* No broadcast is lost on its way to Home Assistant, and none overtakes
\* another one of the same entity, through a full queue and lost connections;
\* until the client lags behind, after which it publishes no state at all.
StatesFollow ==
  ~lagged =>
    \A e \in Entity:
      published[e] =
        Latest(Latest(Latest(shown[e], StatesIn(requests, e)), StatesIn(sending, e)),
               ValuesIn(rxState, e))

\* What the requests q tell of the server.
ServerIn(q) ==
  [n \in DOMAIN q |->
     IF q[n].kind = "availability" /\ q[n].of = Server THEN BoolVal(q[n].to) ELSE NoValue]

LastWord(q) == Latest(Latest(BoolVal(retained[Server]), ServerIn(requests)), ServerIn(q))

\* "Proactively publish per-entity and shared offline, then exit": whatever the
\* event loop announces in the meantime, when start() has returned the last word
\* on the server is that it is offline.
OfflineIsLast == start = "done" => LastWord(announcing) = BoolVal(FALSE)

\* The inductive invariant: from the shutdown on, what start() still has to send
\* ends with the server being offline.
EndsOffline == start \in {"offline", "done"} => LastWord(sending) = BoolVal(FALSE)

IInv == TypeOK /\ NoFalseOnline /\ StatesFollow /\ EndsOffline

\* main() waits for start() without a timeout.  Its end comes all the same, when
\* the broker can be reached and the event loop is not caught in an announcement:
\* the queue is emptied whatever it is full of, and the offline messages get in.
ShutdownEnds ==
  <>[]connected /\ <>[](announcing = <<>>) => (process = "stopping" ~> process = "ended")

\* "Re-publish discovery and set per-entity availability online" when Home
\* Assistant comes online: an announcement that is begun is finished.  It is not:
\* when the queue is full, the event loop waits for itself to empty it.
AnnouncementEnds == announcing # <<>> ~> announcing = <<>>

\* "Set LWT for Home Assistant availability", "Publish availability ONLINE": a
\* server that stays connected is shown as available in the end.  It is not after
\* a reconnection: the last will has said offline, and start() is past saying
\* online, nor does anyone subscribe again.
AvailableInTheEnd ==
  <>[](process = "running" /\ connected) => <>[]retained[Server]
=============================================================================
