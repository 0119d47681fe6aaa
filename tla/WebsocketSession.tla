--------------------------- MODULE WebsocketSession ---------------------------
(***************************************************************************)
(* A websocket session (core/src/websocket_server.rs) between its client   *)
(* and the rest of the server.  The session forwards the values that are   *)
(* broadcast, and answers a request for the home data with the copy the    *)
(* rules engine keeps of them: two views of the same outputs, each behind  *)
(* by what is still in a channel of its own.                               *)
(***************************************************************************)
EXTENDS Updates, SequencesExt

CONSTANTS
  Output,       \* ids of the outputs
  Values,       \* the values that may be broadcast
  Capacity,     \* CHANNEL_CAPACITY, of each channel of the server
  SocketSize    \* messages the socket holds, in each direction

ASSUME SizesAssumption == {Capacity, SocketSize} \subseteq Nat \ {0}
ASSUME ValuesAssumption == NoValue \notin Values

VARIABLES
  rxEngine, copy,       \* the engine's share of the broadcasts, and its copy
  rxInput, answer,      \* the input channel, and the answer to a request in it
  rxFeedback, lagged,   \* the session's share of the broadcasts; it has lost some
  pc,                   \* where handle_connection stands
  authenticated,        \* its variable of that name
  reply,                \* what it is sending to the client, if anything
  toServer, toClient,   \* the socket
  view,                 \* what the client knows of the outputs
  trusted,              \* history: the client has given its password on this
                        \* connection, and no wrong one has been heard since
  state,                \* history: the last value broadcast for each output
  overtaken             \* history: outputs whose last value had been forwarded
                        \* before an older one was answered in the home data

engine  == <<rxEngine, copy, rxInput, answer>>
share   == <<rxFeedback, lagged>>
session == <<pc, authenticated, reply>>
socket  == <<toServer, toClient>>
client  == <<view, trusted>>
history == <<state, overtaken>>
vars == <<engine, share, session, socket, client, history>>

Unknown == [o \in Output |-> NoValue]

Init ==
  /\ rxEngine = <<>> /\ copy = Unknown /\ rxInput = <<>> /\ answer = <<>>
  /\ rxFeedback = <<>> /\ lagged = FALSE
  /\ pc = "closed" /\ authenticated = FALSE /\ reply = <<>>
  /\ toServer = <<>> /\ toClient = <<>>
  /\ view = Unknown /\ trusted = FALSE
  /\ state = Unknown /\ overtaken = {}

\* What the client can say: Request, and the rest of enum Message.
Said == {"login", "wrong login", "get_home", "set_state", "ping", "close"}

\* What it is told: the values of some outputs, or none.
Response(kind, values) == [kind |-> kind, values |-> values]
Reply(kind) == Response(kind, Unknown)

(***************************************************************************)
(* The client.                                                             *)
(***************************************************************************)
Say(m) ==
  /\ pc # "closed" /\ Len(toServer) < SocketSize
  /\ toServer' = Append(toServer, m)
  /\ trusted' = (trusted \/ m = "login")
  /\ UNCHANGED <<engine, share, session, toClient, view, history>>

Learn(known, m) == [o \in Output |-> IF m.values[o] = NoValue THEN known[o] ELSE m.values[o]]

Read ==
  /\ toClient # <<>>
  /\ toClient' = Tail(toClient)
  /\ view' = Learn(view, Head(toClient))
  /\ UNCHANGED <<engine, share, session, toServer, trusted, history>>

(***************************************************************************)
(* accept_connection: the session's receiver is made here, before a login. *)
(***************************************************************************)
\* Mutant: a new connection takes over the login of the last one.
AcceptRemembered ==
  /\ pc = "closed" /\ pc' = "select"
  /\ trusted' = FALSE
  /\ toClient' = <<>> /\ view' = Unknown /\ overtaken' = {}
  /\ UNCHANGED <<engine, share, authenticated, reply, toServer, state>>

accept_connection ==
  /\ pc = "closed" /\ pc' = "select"
  /\ authenticated' = FALSE /\ trusted' = FALSE
  /\ toClient' = <<>> /\ view' = Unknown /\ overtaken' = {}
  /\ UNCHANGED <<engine, share, reply, toServer, state>>

\* handle_connection returns, and drops its receiver and the socket; the client
\* may still read what has been written.
Close ==
  /\ pc' = "closed" /\ reply' = <<>>
  /\ rxFeedback' = <<>> /\ lagged' = FALSE
  /\ toServer' = <<>>

(***************************************************************************)
(* The two branches of select!.                                            *)
(***************************************************************************)
\* Mutant: broadcasts are forwarded without a login.
RecvFeedbackUngated ==
  /\ pc = "select" /\ rxFeedback # <<>> /\ ~lagged
  /\ rxFeedback' = Tail(rxFeedback)
  /\ reply' = <<Response("event", [Unknown EXCEPT ![Head(rxFeedback).id] = Head(rxFeedback).value])>>
  /\ pc' = "reply"
  /\ UNCHANGED <<engine, lagged, authenticated, socket, client, history>>

RecvFeedback ==
  /\ pc = "select" /\ authenticated /\ rxFeedback # <<>> /\ ~lagged
  /\ rxFeedback' = Tail(rxFeedback)
  /\ reply' = <<Response("event", [Unknown EXCEPT ![Head(rxFeedback).id] = Head(rxFeedback).value])>>
  /\ pc' = "reply"
  /\ UNCHANGED <<engine, lagged, authenticated, socket, client, history>>

\* Mutant: a session that has lost broadcasts goes on with the others.
RecvLaggedGoesOn ==
  /\ pc = "select" /\ authenticated /\ lagged
  /\ lagged' = FALSE
  /\ UNCHANGED <<engine, rxFeedback, session, socket, client, history>>

RecvLagged ==
  /\ pc = "select" /\ authenticated /\ lagged
  /\ Close
  /\ UNCHANGED <<engine, authenticated, toClient, client, history>>

Take(m) ==
  /\ pc = "select" /\ toServer # <<>> /\ Head(toServer) = m
  /\ trusted' = (trusted /\ (m = "wrong login" => "login" \in ToSet(Tail(toServer))))
  /\ UNCHANGED <<engine, view, history>>

Respond(kind, at) ==
  /\ toServer' = Tail(toServer)
  /\ reply' = <<Reply(kind)>> /\ pc' = at
  /\ UNCHANGED <<share, toClient>>

TakeLogin == Take("login") /\ Respond("login", "reply") /\ authenticated' = TRUE

\* Mutant: it is told so, and may go on as who it was.
TakeWrongLoginGoesOn ==
  Take("wrong login") /\ Respond("login", "reply") /\ UNCHANGED authenticated

TakeWrongLogin == Take("wrong login") /\ Respond("login", "refuse") /\ authenticated' = FALSE

TakePing == Take("ping") /\ Respond("pong", "reply") /\ UNCHANGED authenticated

\* The last word before the session breaks off: you have not logged in.
Refuse(m) ==
  /\ Take(m) /\ ~authenticated
  /\ Respond("login", "refuse") /\ UNCHANGED authenticated

TakeQuery(m) ==
  /\ Take(m) /\ authenticated
  /\ toServer' = Tail(toServer) /\ pc' = m
  /\ UNCHANGED <<share, authenticated, reply, toClient>>

\* A closed socket, a message of another kind, or one that cannot be read.
TakeClose == Take("close") /\ Close /\ UNCHANGED <<authenticated, toClient>>

(***************************************************************************)
(* What the session waits for while it serves a message; meanwhile the     *)
(* broadcasts pile up.                                                     *)
(***************************************************************************)
Queries == {"get_home", "set_state"}

\* Mutant: it does not wait for room.
SendQueryAtOnce ==
  /\ pc \in Queries
  /\ rxInput' = Append(rxInput, pc)
  /\ IF pc = "get_home" THEN pc' = "await" /\ UNCHANGED reply
                        ELSE pc' = "reply" /\ reply' = <<Reply("set_state")>>
  /\ UNCHANGED <<rxEngine, copy, answer, share, authenticated, socket, client, history>>

SendQuery ==
  /\ pc \in Queries /\ Len(rxInput) < Capacity
  /\ rxInput' = Append(rxInput, pc)
  /\ IF pc = "get_home" THEN pc' = "await" /\ UNCHANGED reply
                        ELSE pc' = "reply" /\ reply' = <<Reply("set_state")>>
  /\ UNCHANGED <<rxEngine, copy, answer, share, authenticated, socket, client, history>>

GetAnswer ==
  /\ pc = "await" /\ answer # <<>>
  /\ reply' = answer /\ answer' = <<>> /\ pc' = "reply"
  /\ UNCHANGED <<rxEngine, copy, rxInput, share, authenticated, socket, client, history>>

Write ==
  /\ pc \in {"reply", "refuse"} /\ Len(toClient) < SocketSize
  /\ toClient' = toClient \o reply
  /\ IF pc = "reply" THEN pc' = "select" /\ reply' = <<>> /\ UNCHANGED <<share, toServer>>
                     ELSE Close
  /\ UNCHANGED <<engine, authenticated, client, history>>

WriteError ==
  /\ pc \in {"reply", "refuse"}
  /\ Close
  /\ UNCHANGED <<engine, authenticated, toClient, client, history>>

(***************************************************************************)
(* The rest of the server: a broadcast, and the two halves of the engine,  *)
(* which ends the server when it lags itself (RulesEngine).                *)
(***************************************************************************)
Broadcast(o, v) ==
  /\ Len(rxEngine) < Capacity
  /\ LET b == [id |-> o, value |-> v] IN
       /\ rxEngine' = Append(rxEngine, b)
       /\ rxFeedback' = CASE pc = "closed" -> <<>>
                          [] pc # "closed" /\ Len(rxFeedback) < Capacity -> Append(rxFeedback, b)
                          [] OTHER -> Append(Tail(rxFeedback), b)
  /\ lagged' = (lagged \/ Len(rxFeedback) = Capacity)
  /\ state' = [state EXCEPT ![o] = v]
  /\ overtaken' = overtaken \ {o}
  /\ UNCHANGED <<copy, rxInput, answer, session, socket, client>>

EngineFeedback ==
  /\ rxEngine # <<>>
  /\ rxEngine' = Tail(rxEngine)
  /\ copy' = [copy EXCEPT ![Head(rxEngine).id] = Head(rxEngine).value]
  /\ UNCHANGED <<rxInput, answer, share, session, socket, client, history>>

\* The outputs of which the broadcasts s tell.
Subjects(s) == {b.id: b \in ToSet(s)}

EngineInput ==
  /\ rxInput # <<>>
  /\ rxInput' = Tail(rxInput)
  /\ IF Head(rxInput) = "get_home"
     THEN /\ answer' = <<Response("home", copy)>>
          /\ overtaken' = overtaken \cup (Subjects(rxEngine) \ Subjects(rxFeedback))
     ELSE UNCHANGED <<answer, overtaken>>
  /\ UNCHANGED <<rxEngine, copy, share, session, socket, client, state>>

Next ==
  \/ \E m \in Said: Say(m)
  \/ Read
  \/ accept_connection
  \/ RecvFeedback
  \/ RecvLagged
  \/ TakeLogin
  \/ TakeWrongLogin
  \/ TakePing
  \/ \E m \in Queries: Refuse(m)
  \/ \E m \in Queries: TakeQuery(m)
  \/ TakeClose
  \/ SendQuery
  \/ GetAnswer
  \/ Write
  \/ WriteError
  \/ \E o \in Output, v \in Values: Broadcast(o, v)
  \/ EngineFeedback
  \/ EngineInput

Spec == Init /\ [][Next]_vars

-----------------------------------------------------------------------------
Heard  == [id: Output, value: Values]
Home   == [Output -> Values \cup {NoValue}]
Answer == [kind: {"login", "pong", "set_state"}, values: {Unknown}]
            \cup [kind: {"event", "home"}, values: Home]

\* Where the one request for the home data is, while the session waits.
Asking == {n \in DOMAIN rxInput: rxInput[n] = "get_home"}

\* The channels and the socket keep their bounds, and the session serves one
\* message at a time.
TypeOK ==
  /\ rxEngine \in Seq(Heard) /\ Len(rxEngine) <= Capacity
  /\ rxInput \in Seq(Queries) /\ Len(rxInput) <= Capacity
  /\ rxFeedback \in Seq(Heard) /\ Len(rxFeedback) <= Capacity
  /\ toServer \in Seq(Said) /\ Len(toServer) <= SocketSize
  /\ toClient \in Seq(Answer) /\ Len(toClient) <= SocketSize
  /\ {copy, view, state} \subseteq Home
  /\ {lagged, authenticated, trusted} \subseteq BOOLEAN
  /\ pc \in {"closed", "select", "await", "reply", "refuse"} \cup Queries
  /\ pc = "closed" => toServer = <<>> /\ rxFeedback = <<>> /\ ~lagged
  /\ reply \in Seq(Answer) /\ Len(reply) = IF pc \in {"reply", "refuse"} THEN 1 ELSE 0
  /\ answer \in Seq(Answer) /\ Len(answer) <= 1
  /\ Asking # {} => answer = <<>> /\ \A n, k \in Asking: n = k
  /\ Asking # {} \/ answer # <<>> => pc = "await"
  /\ overtaken \subseteq Output

\* "gate events and commands until login": of the house, a client is told nothing,
\* and can command nothing, on a connection on which it has not given its password,
\* or has given a wrong one after it; whatever it has said before, and on
\* connections before.
Gated ==
  ~trusted =>
    /\ \A m \in ToSet(reply): m.kind \in {"login", "pong"}
    /\ pc \notin {"await"} \cup Queries

\* What the messages q, and the broadcasts b, tell of an output.
AnswersIn(q, o) == [n \in DOMAIN q |-> q[n].values[o]]
ValuesIn(b, o)  == [n \in DOMAIN b |-> IF b[n].id = o THEN b[n].value ELSE NoValue]

\* What the client will know of an output when all that is on its way is there.
WillKnow(o) ==
  Latest(Latest(Latest(Latest(view[o], AnswersIn(toClient, o)), AnswersIn(reply, o)),
                AnswersIn(answer, o)),
         ValuesIn(rxFeedback, o))

\* What the client will know of an output once it has been told all that is on its
\* way is the last value broadcast for it, if it will know any: no value is
\* missing, and none comes after a newer one.  It may go wrong for an output only
\* when the engine was behind the session on it as it answered: then the home data
\* undoes what has been forwarded, until the output is heard of again.
ViewFollows ==
  pc # "closed" /\ ~lagged =>
    \A o \in Output \ overtaken: WillKnow(o) \in {NoValue, state[o]}

(***************************************************************************)
(* The inductive invariant.  The engine's copy follows the outputs, and    *)
(* the last word of the session's share on an output is the last value     *)
(* broadcast; only who has logged in is authenticated.                     *)
(***************************************************************************)
SharesFollow ==
  \A o \in Output:
    /\ Latest(copy[o], ValuesIn(rxEngine, o)) = state[o]
    /\ Latest(state[o], ValuesIn(rxFeedback, o)) = state[o]

LoginSaid == authenticated \/ "login" \in ToSet(toServer) => trusted

IInv == TypeOK /\ LoginSaid /\ Gated /\ SharesFollow /\ ViewFollows
=============================================================================
