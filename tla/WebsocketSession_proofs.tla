------------------------ MODULE WebsocketSession_proofs ------------------------
(***************************************************************************)
(* A session tells its client nothing before a login and, after one, every *)
(* value in its order, for any outputs, values and channel sizes.          *)
(***************************************************************************)
EXTENDS WebsocketSession, Updates_proofs, SequenceTheorems

-----------------------------------------------------------------------------
(***************************************************************************)
(* The bounds of the channels, and one message at a time.                  *)
(***************************************************************************)
LEMMA ValueFacts == NoValue \notin Values /\ {Capacity, SocketSize} \subseteq Nat \ {0}
BY ValuesAssumption, SizesAssumption

LEMMA AnswerFacts ==
  /\ Unknown \in Home
  /\ \A kind \in {"login", "pong", "set_state"}: Reply(kind) \in Answer
  /\ \A kind \in {"event", "home"}, h \in Home: Response(kind, h) \in Answer
  /\ \A m \in Answer: m.values \in Home
BY DEF Unknown, Home, Reply, Response, Answer

\* The answers that are a sequence of one.
LEMMA OneType ==
  ASSUME NEW S, NEW e \in S
  PROVE  <<e>> \in Seq(S) /\ Len(<<e>>) = 1 /\ Head(<<e>>) = e /\ Tail(<<e>>) = <<>> /\ <<e>> # <<>>
OBVIOUS

LEMMA NoneType == ASSUME NEW S PROVE <<>> \in Seq(S) /\ Len(<<>>) = 0
OBVIOUS

LEMMA EmptyOrNot ==
  ASSUME NEW S, NEW q \in Seq(S)
  PROVE  Len(q) \in Nat /\ (Len(q) = 0 <=> q = <<>>)
OBVIOUS

\* A queue of at most n entries that has room, or has lost one, takes another.
LEMMA Roomy ==
  ASSUME NEW S, NEW q \in Seq(S), NEW n \in Nat, Len(q) < n, NEW e \in S
  PROVE  Append(q, e) \in Seq(S) /\ Len(Append(q, e)) <= n
<1>1. Append(q, e) \in Seq(S) /\ Len(Append(q, e)) = Len(q) + 1 /\ Len(q) \in Nat
  BY Appended
<1> QED BY <1>1

LEMMA Shorter ==
  ASSUME NEW S, NEW q \in Seq(S), NEW n \in Nat, Len(q) <= n, q # <<>>
  PROVE  /\ Tail(q) \in Seq(S) /\ Len(Tail(q)) <= n /\ Len(Tail(q)) < n /\ Head(q) \in S
<1>1. Tail(q) \in Seq(S) /\ Len(Tail(q)) = Len(q) - 1 /\ Len(q) \in Nat /\ Head(q) \in S
  BY Removed
<1> QED BY <1>1

LEMMA InitTyped == Init => TypeOK
<1> SUFFICES ASSUME Init PROVE TypeOK
  OBVIOUS
<1>1. /\ \A S: <<>> \in Seq(S)
      /\ Len(<<>>) = 0 /\ 0 <= Capacity /\ 0 <= SocketSize /\ 0 <= 1
  BY ValueFacts
<1>2. Asking = {} /\ {copy, view, state} \subseteq Home
  BY AnswerFacts DEF Init, Asking
<1>3. /\ rxEngine = <<>> /\ rxInput = <<>> /\ answer = <<>> /\ rxFeedback = <<>>
      /\ toServer = <<>> /\ toClient = <<>> /\ reply = <<>> /\ pc = "closed"
      /\ lagged = FALSE /\ authenticated = FALSE /\ trusted = FALSE /\ overtaken = {}
  BY DEF Init
<1>4. pc \notin {"reply", "refuse"}
  BY <1>3
<1>5. /\ rxEngine \in Seq(Heard) /\ Len(rxEngine) <= Capacity
      /\ rxInput \in Seq(Queries) /\ Len(rxInput) <= Capacity
      /\ rxFeedback \in Seq(Heard) /\ Len(rxFeedback) <= Capacity
      /\ toServer \in Seq(Said) /\ Len(toServer) <= SocketSize
      /\ toClient \in Seq(Answer) /\ Len(toClient) <= SocketSize
      /\ answer \in Seq(Answer) /\ Len(answer) <= 1
  BY <1>1, <1>3
<1>6. reply \in Seq(Answer) /\ Len(reply) = IF pc \in {"reply", "refuse"} THEN 1 ELSE 0
  BY <1>1, <1>3, <1>4
<1> QED BY <1>2, <1>3, <1>5, <1>6 DEF TypeOK

LEMMA CloseTyped ==
  ASSUME TypeOK, Close, Asking = {}, answer = <<>>,
         UNCHANGED <<engine, view, state, authenticated, trusted>>, overtaken' = overtaken,
         toClient' \in Seq(Answer), Len(toClient') <= SocketSize
  PROVE  TypeOK'
<1>1. /\ \A S: <<>> \in Seq(S)
      /\ Len(<<>>) = 0 /\ 0 <= Capacity /\ 0 <= SocketSize
  BY ValueFacts
<1>2. /\ pc' = "closed" /\ reply' = <<>> /\ rxFeedback' = <<>> /\ lagged' = FALSE /\ toServer' = <<>>
  BY DEF Close
<1>3. UNCHANGED <<rxEngine, copy, rxInput, answer, view, state, authenticated, trusted, overtaken>>
  BY DEF engine
<1>4. Asking' = {} /\ answer' = <<>>
  BY <1>3 DEF Asking
<1>5. pc' \notin {"reply", "refuse"}
  BY <1>2
<1>6. /\ rxFeedback' \in Seq(Heard) /\ Len(rxFeedback') <= Capacity
      /\ toServer' \in Seq(Said) /\ Len(toServer') <= SocketSize
  BY <1>1, <1>2
<1>7. reply' \in Seq(Answer) /\ Len(reply') = IF pc' \in {"reply", "refuse"} THEN 1 ELSE 0
  BY <1>1, <1>2, <1>5
<1>8. /\ rxEngine' \in Seq(Heard) /\ Len(rxEngine') <= Capacity
      /\ rxInput' \in Seq(Queries) /\ Len(rxInput') <= Capacity
      /\ {copy', view', state'} \subseteq Home
      /\ {lagged', authenticated', trusted'} \subseteq BOOLEAN
      /\ answer' \in Seq(Answer) /\ Len(answer') <= 1
      /\ overtaken' \subseteq Output
  BY <1>2, <1>3 DEF TypeOK
<1> QED BY <1>2, <1>4, <1>6, <1>7, <1>8 DEF TypeOK

LEMMA NextTyped == TypeOK /\ [Next]_vars => TypeOK'
<1> SUFFICES ASSUME TypeOK, [Next]_vars PROVE TypeOK'
  OBVIOUS
<1> USE DEF engine, share, session, socket, client, history
<1>1. /\ rxEngine \in Seq(Heard) /\ rxInput \in Seq(Queries) /\ rxFeedback \in Seq(Heard)
      /\ toServer \in Seq(Said) /\ toClient \in Seq(Answer) /\ reply \in Seq(Answer) /\ answer \in Seq(Answer)
      /\ {copy, view, state} \subseteq Home
  BY DEF TypeOK
<1>2. /\ Len(rxEngine) <= Capacity /\ Len(rxInput) <= Capacity /\ Len(rxFeedback) <= Capacity
      /\ Len(toServer) <= SocketSize /\ Len(toClient) <= SocketSize
  BY DEF TypeOK
<1>3. /\ \A S: <<>> \in Seq(S)
      /\ Len(<<>>) = 0 /\ Capacity \in Nat \ {0} /\ SocketSize \in Nat \ {0}
  BY ValueFacts
<1>4. pc # "await" => Asking = {} /\ answer = <<>>
  BY DEF TypeOK
<1>5. ASSUME UNCHANGED rxInput PROVE Asking' = Asking
  BY <1>5 DEF Asking
<1>6. ASSUME NEW m \in Said, Say(m) PROVE TypeOK'
  <2>1. toServer' = Append(toServer, m) /\ pc # "closed" /\ Len(toServer) < SocketSize
    BY <1>6 DEF Say
  <2>2. toServer' \in Seq(Said) /\ Len(toServer') <= SocketSize
    BY <1>1, <1>3, <2>1, Roomy
  <2> QED BY <1>5, <1>6, <2>1, <2>2 DEF Say, TypeOK
<1>7. CASE Read
  <2>1. toClient # <<>> /\ toClient' = Tail(toClient) /\ view' = Learn(view, Head(toClient))
    BY <1>7 DEF Read
  <2>2. toClient' \in Seq(Answer) /\ Len(toClient') <= SocketSize /\ Head(toClient) \in Answer
    BY <1>1, <1>2, <1>3, <2>1, Shorter
  <2>3. view' \in Home
    BY <1>1, <2>1, <2>2, AnswerFacts DEF Learn, Home
  <2> QED BY <1>5, <1>7, <2>2, <2>3 DEF Read, TypeOK
<1>8. CASE accept_connection
  <2>1. /\ pc = "closed" /\ pc' = "select" /\ toClient' = <<>> /\ view' = Unknown /\ overtaken' = {}
        /\ authenticated' = FALSE /\ trusted' = FALSE
        /\ UNCHANGED <<engine, share, reply, toServer, state>>
    BY <1>8 DEF accept_connection
  <2>2. toClient' \in Seq(Answer) /\ Len(toClient') <= SocketSize /\ view' \in Home
    BY <1>3, <2>1, AnswerFacts
  <2>3. Asking' = {} /\ answer' = <<>>
    BY <1>4, <1>5, <2>1
  <2> QED BY <2>1, <2>2, <2>3 DEF TypeOK
<1>9. CASE RecvFeedback
  <2> DEFINE b == Head(rxFeedback)
             e == Response("event", [Unknown EXCEPT ![b.id] = b.value])
  <2>1. /\ pc = "select" /\ rxFeedback # <<>> /\ rxFeedback' = Tail(rxFeedback)
        /\ reply' = <<e>> /\ pc' = "reply"
    BY <1>9 DEF RecvFeedback
  <2>2. rxFeedback' \in Seq(Heard) /\ Len(rxFeedback') <= Capacity /\ b \in Heard
    BY <1>1, <1>2, <1>3, <2>1, Shorter
  <2>3. [Unknown EXCEPT ![b.id] = b.value] \in Home
    BY <2>2 DEF Heard, Home, Unknown
  <2>4. e \in Answer
    BY <2>3, AnswerFacts
  <2> HIDE DEF e
  <2>5. reply' \in Seq(Answer) /\ Len(reply') = 1
    BY <2>1, <2>4, OneType
  <2>6. Asking' = {} /\ answer' = <<>>
    BY <1>4, <1>5, <1>9, <2>1 DEF RecvFeedback
  <2> QED BY <1>9, <2>1, <2>2, <2>5, <2>6 DEF RecvFeedback, TypeOK
<1>10. CASE RecvLagged
  BY <1>1, <1>2, <1>4, <1>10, CloseTyped DEF RecvLagged
<1>11. ASSUME NEW kind \in {"login", "pong"}, NEW at \in {"reply", "refuse"}, NEW m,
              Take(m), Respond(kind, at), authenticated' \in BOOLEAN
       PROVE  TypeOK'
  <2>1. /\ pc = "select" /\ pc' = at /\ toServer # <<>> /\ toServer' = Tail(toServer)
        /\ reply' = <<Reply(kind)>>
    BY <1>11 DEF Take, Respond
  <2>2. toServer' \in Seq(Said) /\ Len(toServer') <= SocketSize
    BY <1>1, <1>2, <1>3, <2>1, Shorter
  <2>3. reply' \in Seq(Answer) /\ Len(reply') = 1
    <3>1. Reply(kind) \in Answer
      BY AnswerFacts
    <3> QED BY <2>1, <3>1, OneType
  <2>4. Asking' = {} /\ answer' = <<>>
    BY <1>4, <1>5, <1>11, <2>1 DEF Take
  <2> QED BY <1>11, <2>1, <2>2, <2>3, <2>4 DEF Take, Respond, TypeOK
<1>12. CASE TakeLogin \/ TakeWrongLogin \/ TakePing \/ \E m \in Queries: Refuse(m)
  BY <1>11, <1>12 DEF TakeLogin, TakeWrongLogin, TakePing, Refuse, TypeOK
<1>13. ASSUME NEW m \in Queries, TakeQuery(m) PROVE TypeOK'
  <2>1. /\ pc = "select" /\ pc' = m /\ toServer # <<>> /\ toServer' = Tail(toServer)
    BY <1>13 DEF TakeQuery, Take
  <2>2. toServer' \in Seq(Said) /\ Len(toServer') <= SocketSize
    BY <1>1, <1>2, <1>3, <2>1, Shorter
  <2>3. Asking' = {} /\ answer' = <<>>
    BY <1>4, <1>5, <1>13, <2>1 DEF TakeQuery, Take
  <2>4. pc' \notin {"closed", "select", "await", "reply", "refuse"} /\ pc' \in Queries
    BY <2>1 DEF Queries
  <2> QED BY <1>13, <2>1, <2>2, <2>3, <2>4 DEF TakeQuery, Take, TypeOK
<1>14. CASE TakeClose
  <2>1. pc = "select"
    BY <1>14 DEF TakeClose, Take
  <2>2. trusted' = trusted
    <3>1. trusted \in BOOLEAN
      BY DEF TypeOK
    <3>2. trusted' = (trusted /\ ("close" = "wrong login" => "login" \in ToSet(Tail(toServer))))
      BY <1>14 DEF TakeClose, Take
    <3> QED BY <3>1, <3>2
  <2> QED BY <1>1, <1>2, <1>4, <1>14, <2>1, <2>2, CloseTyped DEF TakeClose, Take
<1>15. CASE SendQuery
  <2> DEFINE m == Len(rxInput)
  <2>1. /\ pc \in Queries /\ Len(rxInput) < Capacity /\ rxInput' = Append(rxInput, pc)
        /\ answer = <<>> /\ answer' = <<>> /\ Asking = {}
    BY <1>4, <1>15 DEF SendQuery, Queries
  <2>2. rxInput' \in Seq(Queries) /\ Len(rxInput') <= Capacity
    BY <1>1, <1>3, <2>1, Roomy
  <2>3. /\ m \in Nat /\ DOMAIN rxInput = 1..m /\ DOMAIN rxInput' = 1..m + 1
        /\ rxInput'[m + 1] = pc /\ \A n \in 1..m: rxInput'[n] = rxInput[n]
    BY <1>1, <2>1, Appended
  <2>4. ASSUME NEW n \in Asking' PROVE n = m + 1 /\ pc = "get_home"
    <3>1. n \in 1..m + 1 /\ rxInput'[n] = "get_home"
      BY <2>3 DEF Asking
    <3>2. n \notin 1..m
      BY <2>1, <2>3, <3>1 DEF Asking
    <3>3. n = m + 1
      BY <2>3, <3>1, <3>2
    <3> QED BY <2>3, <3>1, <3>3
  <2>5. Reply("set_state") \in Answer
    BY AnswerFacts
  <2>6. CASE pc = "get_home"
    <3>1. pc' = "await" /\ reply' = reply /\ Len(reply) = 0
      BY <1>15, <2>6 DEF SendQuery, TypeOK
    <3> QED BY <1>15, <2>1, <2>2, <2>4, <3>1 DEF SendQuery, TypeOK, Queries
  <2>7. CASE pc # "get_home"
    <3>1. pc' = "reply" /\ reply' = <<Reply("set_state")>>
      BY <1>15, <2>7 DEF SendQuery
    <3>2. reply' \in Seq(Answer) /\ Len(reply') = 1
      BY <2>5, <3>1, OneType
    <3>3. Asking' = {}
      BY <2>4, <2>7
    <3> QED BY <1>15, <2>1, <2>2, <3>1, <3>2, <3>3 DEF SendQuery, TypeOK, Queries
  <2> QED BY <2>6, <2>7
<1>16. CASE GetAnswer
  <2>1. /\ pc = "await" /\ answer # <<>> /\ reply' = answer /\ answer' = <<>> /\ pc' = "reply"
    BY <1>16 DEF GetAnswer
  <2>2. Len(answer) = 1
    <3>1. Len(answer) \in Nat /\ Len(answer) # 0
      BY <1>1, <2>1, EmptyOrNot
    <3>2. Len(answer) <= 1
      BY DEF TypeOK
    <3> QED BY <3>1, <3>2
  <2>3. Asking' = {}
    BY <1>5, <1>16, <2>1 DEF GetAnswer, TypeOK
  <2> QED BY <1>1, <1>3, <1>16, <2>1, <2>2, <2>3 DEF GetAnswer, TypeOK
<1>17. CASE Write
  <2>1. /\ pc \in {"reply", "refuse"} /\ Len(toClient) < SocketSize /\ toClient' = toClient \o reply
    BY <1>17 DEF Write
  <2>2. Len(reply) = 1
    BY <2>1 DEF TypeOK
  <2>3. /\ toClient \o reply \in Seq(Answer) /\ Len(toClient \o reply) = Len(toClient) + Len(reply)
        /\ Len(toClient) \in Nat
    BY <1>1, ConcatProperties, Parts
  <2>4. toClient' \in Seq(Answer) /\ Len(toClient') <= SocketSize
    BY <1>3, <2>1, <2>2, <2>3
  <2>5. Asking = {} /\ answer = <<>>
    BY <1>4, <2>1
  <2>6. CASE pc = "reply"
    <3>1. pc' = "select" /\ reply' = <<>> /\ UNCHANGED <<share, toServer>>
      BY <1>17, <2>6 DEF Write
    <3>2. Asking' = {} /\ answer' = <<>>
      BY <1>5, <1>17, <2>5 DEF Write
    <3> QED BY <1>3, <1>17, <2>4, <3>1, <3>2 DEF Write, TypeOK
  <2>7. CASE pc # "reply"
    BY <1>17, <2>4, <2>5, <2>7, CloseTyped DEF Write
  <2> QED BY <2>6, <2>7
<1>18. CASE WriteError
  <2>1. pc # "await"
    BY <1>18 DEF WriteError
  <2> QED BY <1>1, <1>2, <1>4, <1>18, <2>1, CloseTyped DEF WriteError
<1>19. ASSUME NEW o \in Output, NEW v \in Values, Broadcast(o, v) PROVE TypeOK'
  <2> DEFINE b == [id |-> o, value |-> v]
  <2>1. b \in Heard
    BY DEF Heard
  <2>2. /\ Len(rxEngine) < Capacity /\ rxEngine' = Append(rxEngine, b)
        /\ rxFeedback' = CASE pc = "closed" -> <<>>
                           [] pc # "closed" /\ Len(rxFeedback) < Capacity -> Append(rxFeedback, b)
                           [] OTHER -> Append(Tail(rxFeedback), b)
        /\ lagged' = (lagged \/ Len(rxFeedback) = Capacity)
        /\ state' = [state EXCEPT ![o] = v]
    BY <1>19 DEF Broadcast
  <2> HIDE DEF b
  <2>3. rxEngine' \in Seq(Heard) /\ Len(rxEngine') <= Capacity
    BY <1>1, <1>3, <2>1, <2>2, Roomy
  <2>4. rxFeedback' \in Seq(Heard) /\ Len(rxFeedback') <= Capacity
    <3>1. CASE pc = "closed"
      BY <1>3, <2>2, <3>1
    <3>2. CASE pc # "closed" /\ Len(rxFeedback) < Capacity
      BY <1>1, <1>3, <2>1, <2>2, <3>2, Roomy
    <3>3. CASE pc # "closed" /\ ~(Len(rxFeedback) < Capacity)
      <4>1. rxFeedback # <<>>
        BY <1>3, <3>3
      <4>2. Tail(rxFeedback) \in Seq(Heard) /\ Len(Tail(rxFeedback)) < Capacity
        BY <1>1, <1>2, <1>3, <4>1, Shorter
      <4> QED BY <1>3, <2>1, <2>2, <3>3, <4>2, Roomy
    <3> QED BY <3>1, <3>2, <3>3
  <2>5. pc = "closed" => rxFeedback' = <<>> /\ lagged' = FALSE /\ toServer = <<>>
    BY <1>3, <2>2 DEF TypeOK
  <2>6. lagged' \in BOOLEAN /\ state' \in Home
    BY <1>1, <2>2 DEF TypeOK, Home
  <2> QED BY <1>5, <1>19, <2>3, <2>4, <2>5, <2>6 DEF Broadcast, TypeOK
<1>20. CASE EngineFeedback
  <2>1. /\ rxEngine # <<>> /\ rxEngine' = Tail(rxEngine)
        /\ copy' = [copy EXCEPT ![Head(rxEngine).id] = Head(rxEngine).value]
    BY <1>20 DEF EngineFeedback
  <2>2. rxEngine' \in Seq(Heard) /\ Len(rxEngine') <= Capacity /\ Head(rxEngine) \in Heard
    BY <1>1, <1>2, <1>3, <2>1, Shorter
  <2>3. copy' \in Home
    BY <1>1, <2>1, <2>2 DEF Home, Heard
  <2> QED BY <1>5, <1>20, <2>2, <2>3 DEF EngineFeedback, TypeOK
<1>21. CASE EngineInput
  <2> DEFINE m == Len(rxInput) - 1
  <2>1. /\ rxInput # <<>> /\ rxInput' = Tail(rxInput)
    BY <1>21 DEF EngineInput
  <2>2. rxInput' \in Seq(Queries) /\ Len(rxInput') <= Capacity
    BY <1>1, <1>2, <1>3, <2>1, Shorter
  <2>3. /\ m \in Nat /\ DOMAIN rxInput = 1..m + 1 /\ DOMAIN rxInput' = 1..m
        /\ Head(rxInput) = rxInput[1] /\ \A n \in 1..m: rxInput'[n] = rxInput[n + 1]
    BY <1>1, <2>1, Removed
  <2> HIDE DEF m
  <2>4. ASSUME NEW n \in Asking' PROVE n \in 1..m /\ n + 1 \in Asking
    BY <2>3 DEF Asking
  <2>5. CASE Head(rxInput) = "get_home"
    <3>1. 1 \in Asking
      BY <2>3, <2>5 DEF Asking
    <3>2. answer = <<>> /\ pc = "await" /\ \A n \in Asking: n = 1
      BY <3>1 DEF TypeOK
    <3>3. Asking' = {}
      <4>1. ASSUME NEW n \in Asking' PROVE FALSE
        BY <2>3, <2>4, <3>2
      <4> QED BY <4>1
    <3>4. answer' = <<Response("home", copy)>>
      BY <1>21, <2>5 DEF EngineInput
    <3>5. Response("home", copy) \in Answer
      BY <1>1, AnswerFacts
    <3>6. answer' \in Seq(Answer) /\ Len(answer') <= 1
      BY <3>4, <3>5, OneType
    <3>7. overtaken' \subseteq Output
      <4>1. Subjects(rxEngine) \subseteq Output
        <5>1. \A b \in Heard: b.id \in Output
          BY DEF Heard
        <5>2. \A n \in DOMAIN rxEngine: rxEngine[n] \in Heard
          BY <1>1, Parts
        <5>3. \A n \in DOMAIN rxEngine: rxEngine[n].id \in Output
          BY <5>1, <5>2
        <5> QED BY <5>3 DEF Subjects, ToSet
      <4>2. overtaken' = overtaken \cup (Subjects(rxEngine) \ Subjects(rxFeedback))
        BY <1>21, <2>5 DEF EngineInput
      <4> QED BY <4>1, <4>2 DEF TypeOK
    <3> QED BY <1>21, <2>2, <3>2, <3>3, <3>6, <3>7 DEF EngineInput, TypeOK
  <2>6. CASE Head(rxInput) # "get_home"
    <3>1. UNCHANGED <<answer, overtaken>>
      BY <1>21, <2>6 DEF EngineInput
    <3>2. ASSUME Asking' # {} PROVE Asking # {}
      BY <2>4, <3>2
    <3>3. \A n, k \in Asking': n = k
      <4>1. ASSUME NEW n \in Asking', NEW k \in Asking' PROVE n = k
        <5>1. n + 1 = k + 1 /\ n \in 1..m /\ k \in 1..m
          BY <2>4 DEF TypeOK
        <5> QED BY <2>3, <5>1
      <4> QED BY <4>1
    <3> QED BY <1>21, <2>2, <3>1, <3>2, <3>3 DEF EngineInput, TypeOK
  <2> QED BY <2>5, <2>6
<1>22. CASE UNCHANGED vars
  BY <1>5, <1>22 DEF vars, TypeOK
<1> QED
  BY <1>6, <1>7, <1>8, <1>9, <1>10, <1>12, <1>13, <1>14, <1>15, <1>16, <1>17, <1>18, <1>19, <1>20,
     <1>21, <1>22
  DEF Next

\* The channels and the socket keep their bounds, and the session serves one message
\* at a time, for channels of any size.
THEOREM TypeCorrect == Spec => []TypeOK
<1> QED BY InitTyped, NextTyped, PTL DEF Spec

-----------------------------------------------------------------------------
(***************************************************************************)
(* The login.                                                              *)
(***************************************************************************)
LEMMA SetOfAppended ==
  ASSUME NEW S, NEW q \in Seq(S), NEW e \in S
  PROVE  ToSet(Append(q, e)) = ToSet(q) \cup {e}
<1> DEFINE r == Append(q, e)
           m == Len(q)
<1>1. /\ m \in Nat /\ DOMAIN q = 1..m /\ DOMAIN r = 1..m + 1
      /\ r[m + 1] = e /\ \A n \in 1..m: r[n] = q[n]
  BY Appended
<1> HIDE DEF r, m
<1>2. ASSUME NEW x \in ToSet(r) PROVE x \in ToSet(q) \cup {e}
  <2>1. PICK n \in 1..m + 1: x = r[n]
    BY <1>1 DEF ToSet
  <2>2. CASE n = m + 1
    BY <1>1, <2>1, <2>2
  <2>3. CASE n # m + 1
    <3>1. n \in 1..m
      BY <1>1, <2>3
    <3> QED BY <1>1, <2>1, <3>1 DEF ToSet
  <2> QED BY <2>2, <2>3
<1>3. ASSUME NEW x \in ToSet(q) PROVE x \in ToSet(r)
  <2>1. PICK n \in 1..m: x = q[n]
    BY <1>1 DEF ToSet
  <2>2. n \in 1..m + 1 /\ r[n] = x
    BY <1>1, <2>1
  <2> QED BY <1>1, <2>2 DEF ToSet
<1>4. e \in ToSet(r)
  <2>1. m + 1 \in 1..m + 1
    BY <1>1
  <2> QED BY <1>1, <2>1 DEF ToSet
<1>5. ToSet(r) = ToSet(q) \cup {e}
  BY <1>2, <1>3, <1>4
<1> QED BY <1>5 DEF r

LEMMA SetOfRest ==
  ASSUME NEW S, NEW q \in Seq(S), q # <<>>
  PROVE  ToSet(Tail(q)) \subseteq ToSet(q) /\ Head(q) \in ToSet(q)
<1> DEFINE r == Tail(q)
           m == Len(q) - 1
<1>1. /\ m \in Nat /\ DOMAIN q = 1..m + 1 /\ DOMAIN r = 1..m
      /\ Head(q) = q[1] /\ \A n \in 1..m: r[n] = q[n + 1]
  BY Removed
<1> HIDE DEF r, m
<1>2. ASSUME NEW x \in ToSet(r) PROVE x \in ToSet(q)
  <2>1. PICK n \in 1..m: x = r[n]
    BY <1>1 DEF ToSet
  <2>2. n + 1 \in 1..m + 1 /\ q[n + 1] = x
    BY <1>1, <2>1
  <2> QED BY <1>1, <2>2 DEF ToSet
<1>3. 1 \in 1..m + 1
  BY <1>1
<1>4. ToSet(r) \subseteq ToSet(q) /\ Head(q) \in ToSet(q)
  BY <1>1, <1>2, <1>3 DEF ToSet
<1> QED BY <1>4 DEF r

LEMMA SetOfNone == ToSet(<<>>) = {}
BY DEF ToSet

LEMMA SetOfOne == ASSUME NEW e PROVE ToSet(<<e>>) = {e}
BY DEF ToSet

\* A sequence of one is appended.
LEMMA OneWritten ==
  ASSUME NEW S, NEW q \in Seq(S), NEW r \in Seq(S), Len(r) = 1
  PROVE  Head(r) \in S /\ r = <<Head(r)>> /\ q \o r = Append(q, Head(r))
<1>1. Head(r) = r[1] /\ r[1] \in S /\ <<r[1]>> \in Seq(S) /\ Len(<<r[1]>>) = 1
  OBVIOUS
<1>2. r = <<r[1]>>
  BY <1>1, SeqEqual
<1>3. /\ Append(q, r[1]) \in Seq(S) /\ Len(Append(q, r[1])) = Len(q) + 1 /\ Len(q) \in Nat
      /\ Append(q, r[1])[Len(q) + 1] = r[1] /\ \A n \in 1..Len(q): Append(q, r[1])[n] = q[n]
  BY <1>1, Appended
<1>4. /\ q \o r \in Seq(S) /\ Len(q \o r) = Len(q) + Len(r)
      /\ \A i \in 1..Len(q) + Len(r): (q \o r)[i] = IF i <= Len(q) THEN q[i] ELSE r[i - Len(q)]
  BY ConcatProperties
<1> DEFINE a == q \o r
           b == Append(q, r[1])
<1> HIDE DEF a, b
<1>5. /\ a \in Seq(S) /\ Len(a) = Len(q) + 1
      /\ \A i \in 1..Len(q) + 1: a[i] = IF i <= Len(q) THEN q[i] ELSE r[i - Len(q)]
  BY <1>4 DEF a
<1>6. /\ b \in Seq(S) /\ Len(b) = Len(q) + 1 /\ Len(q) \in Nat
      /\ b[Len(q) + 1] = r[1] /\ \A n \in 1..Len(q): b[n] = q[n]
  BY <1>3 DEF b
<1>7. ASSUME NEW i \in 1..Len(a) PROVE a[i] = b[i]
  <2>1. CASE i <= Len(q)
    <3>1. i \in 1..Len(q)
      BY <1>5, <1>6, <2>1
    <3> QED BY <1>5, <1>6, <2>1, <3>1
  <2>2. CASE ~(i <= Len(q))
    <3>1. i = Len(q) + 1 /\ i - Len(q) = 1
      BY <1>5, <1>6, <2>2
    <3>2. a[i] = r[i - Len(q)]
      BY <1>5, <2>2
    <3> QED BY <1>6, <3>1, <3>2
  <2> QED BY <2>1, <2>2
<1>8. a = b
  BY <1>5, <1>6, <1>7, SeqEqual
<1> QED BY <1>1, <1>2, <1>8 DEF a, b

LEMMA QuietFacts ==
  /\ \A m \in Answer: m.kind \in {"login", "pong"} => m.values = Unknown
  /\ \A kind \in {"login", "pong", "set_state"}:
       Reply(kind).kind = kind /\ Reply(kind).values = Unknown
BY DEF Answer, Reply, Response

\* The session answers something other than the home data.
LEMMA Reset == ASSUME TypeOK, pc \in {"closed", "select"} \cup Queries PROVE reply = <<>> /\ answer = <<>>
<1>1. pc \notin {"reply", "refuse"} /\ pc # "await"
  BY DEF Queries
<1>2. reply \in Seq(Answer) /\ Len(reply) = 0
  BY <1>1 DEF TypeOK
<1> QED BY <1>1, <1>2, EmptyOrNot DEF TypeOK

LEMMA NextGated == TypeOK /\ LoginSaid /\ Gated /\ [Next]_vars => LoginSaid' /\ Gated'
<1> SUFFICES ASSUME TypeOK, LoginSaid, Gated, [Next]_vars PROVE LoginSaid' /\ Gated'
  OBVIOUS
<1> USE DEF engine, share, session, socket, client, history
<1>1. /\ toServer \in Seq(Said) /\ toClient \in Seq(Answer) /\ reply \in Seq(Answer)
      /\ {authenticated, trusted} \subseteq BOOLEAN
  BY DEF TypeOK
<1>2. ToSet(<<>>) = {}
  BY SetOfNone
<1>3. ASSUME trusted' PROVE LoginSaid' /\ Gated'
  BY <1>3 DEF LoginSaid, Gated
<1>4. /\ authenticated => trusted
      /\ "login" \in ToSet(toServer) => trusted
      /\ pc \in {"await"} \cup Queries => trusted
  BY DEF LoginSaid, Gated
<1>5. ASSUME ~trusted
      PROVE  /\ \A m \in ToSet(reply): m.kind \in {"login", "pong"}
             /\ ~authenticated /\ "login" \notin ToSet(toServer)
             /\ pc \notin {"await"} \cup Queries
  BY <1>5 DEF LoginSaid, Gated
<1>6. ASSUME NEW m \in Said, Say(m) PROVE LoginSaid' /\ Gated'
  <2>1. toServer' = Append(toServer, m) /\ trusted' = (trusted \/ m = "login")
    BY <1>6 DEF Say
  <2>2. ToSet(toServer') = ToSet(toServer) \cup {m}
    BY <1>1, <2>1, SetOfAppended
  <2> QED BY <1>3, <1>4, <1>6, <2>1, <2>2 DEF Say, LoginSaid, Gated
<1>7. ASSUME UNCHANGED <<session, toServer, trusted>> PROVE LoginSaid' /\ Gated'
  BY <1>7 DEF LoginSaid, Gated
<1>8. CASE accept_connection
  <2>1. /\ pc = "closed" /\ pc' = "select"
        /\ authenticated' = FALSE /\ trusted' = FALSE /\ UNCHANGED <<reply, toServer>>
    BY <1>8 DEF accept_connection
  <2>2. reply' = <<>> /\ toServer' = <<>>
    BY <2>1, Reset DEF TypeOK
  <2> QED BY <1>2, <2>1, <2>2 DEF LoginSaid, Gated, Queries
<1>9. ASSUME authenticated, trusted' = trusted PROVE LoginSaid' /\ Gated'
  BY <1>3, <1>4, <1>9
<1>10. CASE RecvFeedback \/ RecvLagged \/ \E m \in Queries: TakeQuery(m)
  BY <1>4, <1>9, <1>10 DEF RecvFeedback, RecvLagged, TakeQuery, Take, Queries
<1>11. ASSUME Close, trusted' = trusted, authenticated' = authenticated
       PROVE  LoginSaid' /\ Gated'
  <2>1. pc' = "closed" /\ reply' = <<>> /\ toServer' = <<>>
    BY <1>11 DEF Close
  <2>2. CASE ~trusted
    BY <1>2, <1>5, <1>11, <2>1, <2>2 DEF LoginSaid, Gated, Queries
  <2> QED BY <1>3, <1>11, <2>2
<1>12. CASE TakeClose \/ WriteError
  <2>1. Close /\ trusted' = trusted /\ authenticated' = authenticated
    BY <1>1, <1>12 DEF TakeClose, Take, WriteError
  <2> QED BY <1>11, <2>1
<1>13. ASSUME NEW kind \in {"login", "pong"}, NEW at \in {"reply", "refuse"}, NEW m,
              Take(m), Respond(kind, at),
              m = "login" \/ authenticated' = FALSE \/ (m # "wrong login" /\ authenticated' = authenticated)
       PROVE  LoginSaid' /\ Gated'
  <2>1. /\ toServer # <<>> /\ Head(toServer) = m /\ toServer' = Tail(toServer)
        /\ reply' = <<Reply(kind)>> /\ pc' = at
        /\ trusted' = (trusted /\ (m = "wrong login" => "login" \in ToSet(toServer')))
    BY <1>13 DEF Take, Respond
  <2>2. ToSet(toServer') \subseteq ToSet(toServer) /\ m \in ToSet(toServer)
    BY <1>1, <2>1, SetOfRest
  <2>3. ToSet(reply') = {Reply(kind)} /\ Reply(kind).kind \in {"login", "pong"}
    BY <2>1, SetOfOne, QuietFacts
  <2>4. CASE ~trusted
    <3>1. m # "login" /\ "login" \notin ToSet(toServer')
      BY <1>5, <2>2, <2>4
    <3>2. ~authenticated'
      BY <1>1, <1>5, <1>13, <2>4, <3>1
    <3> QED BY <2>1, <2>3, <3>1, <3>2 DEF LoginSaid, Gated, Queries
  <2>5. CASE m = "wrong login" /\ "login" \notin ToSet(toServer')
    <3>1. ~authenticated'
      BY <1>13, <2>5
    <3> QED BY <2>1, <2>3, <2>5, <3>1 DEF LoginSaid, Gated, Queries
  <2> QED BY <1>3, <2>1, <2>4, <2>5
<1>14. CASE TakeLogin \/ TakeWrongLogin \/ TakePing \/ \E m \in Queries: Refuse(m)
  BY <1>13, <1>14 DEF TakeLogin, TakeWrongLogin, TakePing, Refuse, Queries
<1>15. CASE SendQuery \/ GetAnswer
  BY <1>3, <1>4, <1>15 DEF SendQuery, GetAnswer
<1>16. CASE Write
  <2>1. pc \in {"reply", "refuse"} /\ UNCHANGED <<authenticated, client>>
    BY <1>16 DEF Write
  <2>2. CASE pc = "reply"
    <3>1. pc' = "select" /\ reply' = <<>> /\ toServer' = toServer
      BY <1>16, <2>2 DEF Write
    <3>2. CASE ~trusted
      BY <1>2, <1>5, <2>1, <3>1, <3>2 DEF LoginSaid, Gated, Queries
    <3> QED BY <1>3, <2>1, <3>2
  <2>3. CASE pc # "reply"
    <3>1. Close
      BY <1>16, <2>3 DEF Write
    <3> QED BY <1>11, <2>1, <3>1
  <2> QED BY <2>2, <2>3
<1>17. CASE Read \/ (\E o \in Output, v \in Values: Broadcast(o, v))
  BY <1>7, <1>17 DEF Read, Broadcast
<1>18. CASE EngineFeedback \/ EngineInput \/ UNCHANGED vars
  BY <1>7, <1>18 DEF EngineFeedback, EngineInput, vars
<1> QED
  BY <1>6, <1>8, <1>10, <1>12, <1>14, <1>15, <1>16, <1>17, <1>18 DEF Next

LEMMA InitGated == Init => LoginSaid /\ Gated
BY SetOfNone DEF Init, LoginSaid, Gated, Queries

\* A client is told nothing of the house, and commands nothing, on a connection on
\* which it has not given its password, or has given a wrong one after it.
THEOREM GatedUntilLogin == Spec => []Gated
<1>1. Init => TypeOK /\ LoginSaid /\ Gated
  BY InitTyped, InitGated
<1>2. TypeOK /\ LoginSaid /\ Gated /\ [Next]_vars => (TypeOK /\ LoginSaid /\ Gated)'
  BY NextTyped, NextGated
<1> QED BY <1>1, <1>2, PTL DEF Spec

-----------------------------------------------------------------------------
(***************************************************************************)
(* What the client will know.  Speak and Tell say what an answer and a     *)
(* broadcast tell of an output; After and Heed what is known of it when    *)
(* they have all been heard, and Hear is one step of that.                 *)
(***************************************************************************)
Hear(v, w) == IF w = NoValue THEN v ELSE w

Speak(o) == [m \in Answer |-> m.values[o]]
Tell(o)  == [b \in Heard |-> IF b.id = o THEN b.value ELSE NoValue]

After(v, q, o) == Latest(v, Told(Speak(o), q))
Heed(v, b, o)  == Latest(v, Told(Tell(o), b))

LEMMA SpeakIs == ASSUME NEW o, NEW m \in Answer PROVE Speak(o)[m] = m.values[o]
BY DEF Speak

LEMMA AfterIs ==
  ASSUME NEW o, NEW q \in Seq(Answer), NEW v
  PROVE  Latest(v, AnswersIn(q, o)) = After(v, q, o)
<1>1. \A n \in DOMAIN q: q[n] \in Answer
  BY Parts
<1>2. \A n \in DOMAIN q: q[n].values[o] = Speak(o)[q[n]]
  BY <1>1, SpeakIs
<1>3. AnswersIn(q, o) = Told(Speak(o), q)
  BY <1>2 DEF AnswersIn, Told
<1> QED BY <1>3 DEF After

LEMMA HeedIs ==
  ASSUME NEW o, NEW b \in Seq(Heard), NEW v
  PROVE  Latest(v, ValuesIn(b, o)) = Heed(v, b, o)
<1>1. \A n \in DOMAIN b: b[n] \in Heard
  BY Parts
<1>2. ASSUME NEW n \in DOMAIN b
      PROVE  (IF b[n].id = o THEN b[n].value ELSE NoValue) = Tell(o)[b[n]]
  BY <1>1 DEF Tell
<1>3. ValuesIn(b, o) = Told(Tell(o), b)
  BY <1>2 DEF ValuesIn, Told
<1> QED BY <1>3 DEF Heed

LEMMA AfterNone == ASSUME NEW o, NEW v PROVE After(v, <<>>, o) = v
<1>1. \A n \in DOMAIN <<>>: Speak(o)[<<>>[n]] = NoValue
  OBVIOUS
<1> QED BY <1>1, ToldNothing DEF After

LEMMA HeedNone == ASSUME NEW o, NEW v PROVE Heed(v, <<>>, o) = v
<1>1. \A n \in DOMAIN <<>>: Tell(o)[<<>>[n]] = NoValue
  OBVIOUS
<1> QED BY <1>1, ToldNothing DEF Heed

LEMMA AfterRemoved ==
  ASSUME NEW o, NEW v, NEW q \in Seq(Answer), q # <<>>
  PROVE  After(v, q, o) = After(Hear(v, Head(q).values[o]), Tail(q), o)
<1>1. Head(q) \in Answer
  BY Removed
<1>2. Speak(o)[Head(q)] = Head(q).values[o]
  BY <1>1, SpeakIs
<1>3. Latest(v, Told(Speak(o), q)) =
        Latest(IF Speak(o)[Head(q)] = NoValue THEN v ELSE Speak(o)[Head(q)], Told(Speak(o), Tail(q)))
  BY ToldRemoved
<1> QED BY <1>2, <1>3 DEF After, Hear

LEMMA AfterAppended ==
  ASSUME NEW o, NEW v, NEW q \in Seq(Answer), NEW e \in Answer
  PROVE  After(v, Append(q, e), o) = Hear(After(v, q, o), e.values[o])
<1>1. Speak(o)[e] = e.values[o]
  BY SpeakIs
<1>2. Latest(v, Told(Speak(o), Append(q, e))) =
        IF Speak(o)[e] = NoValue THEN Latest(v, Told(Speak(o), q)) ELSE Speak(o)[e]
  BY ToldAppended
<1> QED BY <1>1, <1>2 DEF After, Hear

LEMMA AfterOne ==
  ASSUME NEW o, NEW v, NEW e \in Answer
  PROVE  After(v, <<e>>, o) = Hear(v, e.values[o])
<1>1. <<e>> \in Seq(Answer) /\ Head(<<e>>) = e /\ Tail(<<e>>) = <<>> /\ <<e>> # <<>>
  BY OneType
<1>2. After(v, <<e>>, o) = After(Hear(v, Head(<<e>>).values[o]), Tail(<<e>>), o)
  BY <1>1, AfterRemoved
<1> QED BY <1>1, <1>2, AfterNone

\* An answer that is not about the house tells nothing.
LEMMA AfterQuiet ==
  ASSUME NEW o \in Output, NEW v, NEW kind \in {"login", "pong", "set_state"}
  PROVE  After(v, <<Reply(kind)>>, o) = v
<1> DEFINE e == Reply(kind)
<1>1. e \in Answer /\ e.values = Unknown
  BY AnswerFacts, QuietFacts
<1>2. e.values[o] = NoValue
  BY <1>1 DEF Unknown
<1> HIDE DEF e
<1>3. After(v, <<e>>, o) = v
  BY <1>1, <1>2, AfterOne DEF Hear
<1> QED BY <1>3 DEF e

LEMMA HeedRemoved ==
  ASSUME NEW o, NEW v, NEW b \in Seq(Heard), b # <<>>
  PROVE  Heed(v, b, o) = Heed(Hear(v, Tell(o)[Head(b)]), Tail(b), o)
<1>1. Latest(v, Told(Tell(o), b)) =
        Latest(IF Tell(o)[Head(b)] = NoValue THEN v ELSE Tell(o)[Head(b)], Told(Tell(o), Tail(b)))
  BY ToldRemoved
<1> QED BY <1>1 DEF Heed, Hear

LEMMA HeedAppended ==
  ASSUME NEW o, NEW v, NEW b \in Seq(Heard), NEW e \in Heard
  PROVE  Heed(v, Append(b, e), o) = Hear(Heed(v, b, o), Tell(o)[e])
<1>1. Latest(v, Told(Tell(o), Append(b, e))) =
        IF Tell(o)[e] = NoValue THEN Latest(v, Told(Tell(o), b)) ELSE Tell(o)[e]
  BY ToldAppended
<1> QED BY <1>1 DEF Heed, Hear

\* Once an output is told of, it does not matter what was known of it.
LEMMA HeedForgets ==
  ASSUME NEW o, NEW b \in Seq(Heard), o \in Subjects(b), NEW v, NEW w
  PROVE  Heed(v, b, o) = Heed(w, b, o)
<1> DEFINE p == Told(Tell(o), b)
<1>1. PICK n \in DOMAIN b: b[n].id = o
  BY DEF Subjects, ToSet
<1>2. b[n] \in Heard
  BY Parts
<1>3. Tell(o)[b[n]] = b[n].value /\ b[n].value # NoValue
  BY <1>1, <1>2, ValueFacts DEF Tell, Heard
<1>4. n \in DOMAIN p /\ p[n] # NoValue
  BY <1>3 DEF Told
<1>5. News(p) # {}
  BY <1>4 DEF News
<1>6. Latest(v, p) = Latest(w, p)
  BY <1>5 DEF Latest
<1> QED BY <1>6 DEF Heed

LEMMA HeedNot ==
  ASSUME NEW o, NEW b \in Seq(Heard), o \notin Subjects(b), NEW v
  PROVE  Heed(v, b, o) = v
<1>1. ASSUME NEW n \in DOMAIN b PROVE Tell(o)[b[n]] = NoValue
  <2>1. b[n].id # o
    BY DEF Subjects, ToSet
  <2>2. b[n] \in Heard
    BY Parts
  <2> QED BY <2>1, <2>2 DEF Tell
<1>2. Latest(v, Told(Tell(o), b)) = v
  BY <1>1, ToldNothing
<1> QED BY <1>2 DEF Heed

\* What follows a share of the broadcasts follows the rest of it.
LEMMA RestFollows ==
  ASSUME NEW o, NEW b \in Seq(Heard), b # <<>>, NEW v, Heed(v, b, o) = v
  PROVE  Heed(v, Tail(b), o) = v
<1> DEFINE t == Tail(b)
           w == Hear(v, Tell(o)[Head(b)])
<1>1. t \in Seq(Heard) /\ Heed(w, t, o) = v
  <2>1. Tail(b) \in Seq(Heard)
    BY Removed
  <2> QED BY <2>1, HeedRemoved
<1> HIDE DEF t, w
<1>2. ASSUME o \in Subjects(t) PROVE Heed(v, t, o) = v
  BY <1>1, <1>2, HeedForgets
<1>3. ASSUME o \notin Subjects(t) PROVE Heed(v, t, o) = v
  BY <1>3, <1>1, HeedNot
<1>4. Heed(v, t, o) = v
  BY <1>2, <1>3
<1> QED BY <1>4 DEF t

LEMMA WillKnowIs ==
  ASSUME TypeOK, NEW o \in Output
  PROVE  WillKnow(o) = Heed(After(After(After(view[o], toClient, o), reply, o), answer, o), rxFeedback, o)
<1>1. /\ toClient \in Seq(Answer) /\ reply \in Seq(Answer) /\ answer \in Seq(Answer)
      /\ rxFeedback \in Seq(Heard)
  BY DEF TypeOK
<1>2. Latest(view[o], AnswersIn(toClient, o)) = After(view[o], toClient, o)
  BY <1>1, AfterIs
<1> DEFINE v == After(view[o], toClient, o)
<1>3. Latest(v, AnswersIn(reply, o)) = After(v, reply, o)
  BY <1>1, AfterIs
<1> DEFINE w == After(v, reply, o)
<1>4. Latest(w, AnswersIn(answer, o)) = After(w, answer, o)
  BY <1>1, AfterIs
<1> DEFINE u == After(w, answer, o)
<1>5. Latest(u, ValuesIn(rxFeedback, o)) = Heed(u, rxFeedback, o)
  BY <1>1, HeedIs
<1> QED BY <1>2, <1>3, <1>4, <1>5 DEF WillKnow

-----------------------------------------------------------------------------
(***************************************************************************)
(* Both shares of the broadcasts end with the last value.                  *)
(***************************************************************************)
SharesHeed ==
  \A o \in Output:
    /\ Heed(copy[o], rxEngine, o) = state[o]
    /\ Heed(state[o], rxFeedback, o) = state[o]

LEMMA SharesIs == TypeOK => (SharesFollow <=> SharesHeed)
<1> SUFFICES ASSUME TypeOK PROVE SharesFollow <=> SharesHeed
  OBVIOUS
<1>1. rxEngine \in Seq(Heard) /\ rxFeedback \in Seq(Heard)
  BY DEF TypeOK
<1>2. \A o \in Output:
        /\ Latest(copy[o], ValuesIn(rxEngine, o)) = Heed(copy[o], rxEngine, o)
        /\ Latest(state[o], ValuesIn(rxFeedback, o)) = Heed(state[o], rxFeedback, o)
  BY <1>1, HeedIs
<1> QED BY <1>2 DEF SharesFollow, SharesHeed

LEMMA NextShares == TypeOK /\ SharesHeed /\ [Next]_vars => SharesHeed'
<1> SUFFICES ASSUME TypeOK, SharesHeed, [Next]_vars PROVE SharesHeed'
  OBVIOUS
<1> USE DEF engine, share, session, socket, client, history
<1>1. rxEngine \in Seq(Heard) /\ rxFeedback \in Seq(Heard) /\ {copy, state} \subseteq Home
  BY DEF TypeOK
<1>2. \A o \in Output: Heed(copy[o], rxEngine, o) = state[o] /\ Heed(state[o], rxFeedback, o) = state[o]
  BY DEF SharesHeed
<1>3. ASSUME UNCHANGED <<rxEngine, copy, state>>, rxFeedback' = rxFeedback \/ rxFeedback' = <<>>
      PROVE  SharesHeed'
  <2>1. ASSUME NEW o \in Output PROVE Heed(state[o], rxFeedback', o) = state[o]
    BY <1>2, <1>3, HeedNone
  <2> QED BY <1>2, <1>3, <2>1 DEF SharesHeed
<1>4. CASE \/ \E m \in Said: Say(m)
           \/ Read \/ accept_connection \/ RecvLagged \/ TakeLogin \/ TakeWrongLogin \/ TakePing
           \/ \E m \in Queries: Refuse(m) \/ TakeQuery(m)
           \/ TakeClose \/ SendQuery \/ GetAnswer \/ Write \/ WriteError \/ EngineInput
           \/ UNCHANGED vars
  <2>1. UNCHANGED <<rxEngine, copy, state>>
    BY <1>4 DEF Say, Read, accept_connection, RecvLagged, TakeLogin, TakeWrongLogin, TakePing, Refuse,
      TakeQuery, TakeClose, Take, SendQuery, GetAnswer, Write, WriteError, EngineInput, vars
  <2>2. rxFeedback' = rxFeedback \/ rxFeedback' = <<>>
    BY <1>4 DEF Say, Read, accept_connection, RecvLagged, TakeLogin, TakeWrongLogin, TakePing, Refuse,
      TakeQuery, TakeClose, Take, Respond, Close, SendQuery, GetAnswer, Write, WriteError, EngineInput,
      vars
  <2> QED BY <1>3, <2>1, <2>2
<1>5. CASE RecvFeedback
  <2>1. rxFeedback # <<>> /\ rxFeedback' = Tail(rxFeedback) /\ UNCHANGED <<rxEngine, copy, state>>
    BY <1>5 DEF RecvFeedback
  <2>2. ASSUME NEW o \in Output PROVE Heed(state[o], Tail(rxFeedback), o) = state[o]
    BY <1>1, <1>2, <2>1, RestFollows
  <2> QED BY <1>2, <2>1, <2>2 DEF SharesHeed
<1>6. ASSUME NEW p \in Output, NEW v \in Values, Broadcast(p, v) PROVE SharesHeed'
  <2> DEFINE b == [id |-> p, value |-> v]
  <2>1. b \in Heard /\ \A o \in Output: Tell(o)[b] = IF o = p THEN v ELSE NoValue
    BY DEF Heard, Tell
  <2>2. /\ rxEngine' = Append(rxEngine, b) /\ copy' = copy
        /\ rxFeedback' = CASE pc = "closed" -> <<>>
                           [] pc # "closed" /\ Len(rxFeedback) < Capacity -> Append(rxFeedback, b)
                           [] OTHER -> Append(Tail(rxFeedback), b)
        /\ state' = [state EXCEPT ![p] = v]
    BY <1>6 DEF Broadcast
  <2> HIDE DEF b
  <2>3. ASSUME NEW o \in Output
        PROVE  /\ state'[o] = Hear(state[o], Tell(o)[b])
               /\ state'[o] = Hear(state'[o], Tell(o)[b])
               /\ Tell(o)[b] # NoValue => \A w: Hear(w, Tell(o)[b]) = state'[o]
               /\ Tell(o)[b] = NoValue => state'[o] = state[o]
    <3>1. state \in [Output -> Values \cup {NoValue}]
      BY <1>1 DEF Home
    <3>2. state'[o] = IF o = p THEN v ELSE state[o]
      BY <2>2, <3>1
    <3>3. v # NoValue
      BY ValueFacts
    <3>4. CASE o = p
      BY <2>1, <3>2, <3>3, <3>4 DEF Hear
    <3>5. CASE o # p
      BY <2>1, <3>2, <3>5 DEF Hear
    <3> QED BY <3>4, <3>5
  <2>4. ASSUME NEW o \in Output PROVE Heed(copy[o], rxEngine', o) = state'[o]
    <3>1. Heed(copy[o], Append(rxEngine, b), o) = Hear(Heed(copy[o], rxEngine, o), Tell(o)[b])
      BY <1>1, <2>1, HeedAppended
    <3> QED BY <1>2, <2>2, <2>3, <3>1
  <2>5. ASSUME NEW o \in Output, NEW q \in Seq(Heard), Heed(state[o], q, o) = state[o]
        PROVE  Heed(state'[o], Append(q, b), o) = state'[o]
    <3>1. Heed(state'[o], Append(q, b), o) = Hear(Heed(state'[o], q, o), Tell(o)[b])
      BY <2>1, HeedAppended
    <3>2. CASE Tell(o)[b] = NoValue
      <4>1. state'[o] = state[o]
        BY <2>3, <3>2
      <4>2. Heed(state'[o], q, o) = state'[o]
        BY <2>5, <4>1
      <4> QED BY <3>1, <3>2, <4>2 DEF Hear
    <3>3. CASE Tell(o)[b] # NoValue
      BY <2>3, <3>1, <3>3
    <3> QED BY <3>2, <3>3
  <2>6. ASSUME NEW o \in Output PROVE Heed(state'[o], rxFeedback', o) = state'[o]
    <3>1. CASE pc = "closed"
      BY <2>2, <3>1, HeedNone
    <3>2. CASE pc # "closed" /\ Len(rxFeedback) < Capacity
      BY <1>1, <1>2, <2>2, <2>5, <3>2
    <3>3. CASE pc # "closed" /\ ~(Len(rxFeedback) < Capacity)
      <4>1. rxFeedback # <<>>
        <5>1. Len(<<>>) < Capacity
          BY ValueFacts
        <5> QED BY <3>3, <5>1
      <4>2. Heed(state[o], Tail(rxFeedback), o) = state[o]
        BY <1>1, <1>2, <4>1, RestFollows
      <4>3. Tail(rxFeedback) \in Seq(Heard)
        BY <1>1, <4>1, Removed
      <4>4. rxFeedback' = Append(Tail(rxFeedback), b)
        BY <2>2, <3>3
      <4>5. Heed(state'[o], Append(Tail(rxFeedback), b), o) = state'[o]
        BY <2>5, <4>2, <4>3
      <4> QED BY <4>4, <4>5
    <3> QED BY <3>1, <3>2, <3>3
  <2> QED BY <2>2, <2>4, <2>6 DEF SharesHeed
<1>7. CASE EngineFeedback
  <2> DEFINE b == Head(rxEngine)
  <2>1. /\ rxEngine # <<>> /\ rxEngine' = Tail(rxEngine)
        /\ copy' = [copy EXCEPT ![b.id] = b.value]
        /\ UNCHANGED <<rxFeedback, state>>
    BY <1>7 DEF EngineFeedback
  <2>2. b \in Heard
    BY <1>1, <2>1, Removed
  <2>3. ASSUME NEW o \in Output PROVE copy'[o] = Hear(copy[o], Tell(o)[b])
    <3>1. Tell(o)[b] = IF b.id = o THEN b.value ELSE NoValue
      BY <2>2 DEF Tell
    <3>2. b.value # NoValue
      BY <2>2, ValueFacts DEF Heard
    <3>3. copy'[o] = IF b.id = o THEN b.value ELSE copy[o]
      BY <1>1, <2>1 DEF Home
    <3> HIDE DEF b
    <3> QED BY <3>1, <3>2, <3>3 DEF Hear
  <2>4. ASSUME NEW o \in Output PROVE Heed(copy'[o], rxEngine', o) = state[o]
    <3>1. Heed(copy[o], rxEngine, o) = Heed(Hear(copy[o], Tell(o)[b]), Tail(rxEngine), o)
      BY <1>1, <2>1, HeedRemoved
    <3> QED BY <1>2, <2>1, <2>3, <3>1
  <2> QED BY <1>2, <2>1, <2>4 DEF SharesHeed
<1> QED
  BY <1>4, <1>5, <1>6, <1>7 DEF Next

-----------------------------------------------------------------------------
(***************************************************************************)
(* What the client will know follows the outputs.                          *)
(***************************************************************************)
Will(o) == Heed(After(After(After(view[o], toClient, o), reply, o), answer, o), rxFeedback, o)

ViewHeeds ==
  pc # "closed" /\ ~lagged => \A o \in Output \ overtaken: Will(o) \in {NoValue, state[o]}

LEMMA ViewIs == TypeOK => (ViewFollows <=> ViewHeeds)
BY WillKnowIs DEF ViewFollows, ViewHeeds, Will

LEMMA NextViews ==
  ASSUME TypeOK, SharesHeed, ViewHeeds, [Next]_vars
  PROVE  ViewHeeds'
<1> USE DEF engine, share, session, socket, client, history
<1>1. /\ rxEngine \in Seq(Heard) /\ rxFeedback \in Seq(Heard) /\ toClient \in Seq(Answer)
      /\ reply \in Seq(Answer) /\ answer \in Seq(Answer) /\ {copy, view, state} \subseteq Home
  BY DEF TypeOK
<1>2. ASSUME pc # "closed", ~lagged, NEW o \in Output \ overtaken PROVE Will(o) \in {NoValue, state[o]}
  BY <1>2 DEF ViewHeeds
<1>3. ASSUME pc' # "closed" /\ ~lagged' => pc # "closed" /\ ~lagged,
             overtaken' = overtaken, state' = state,
             \A o \in Output: Will(o)' = Will(o)
      PROVE  ViewHeeds'
  BY <1>2, <1>3 DEF ViewHeeds
<1>4. ASSUME pc' = "closed" PROVE ViewHeeds'
  BY <1>4 DEF ViewHeeds
<1>5. ASSUME pc = "select" \/ pc \in Queries, NEW kind \in {"login", "pong", "set_state"},
             reply' = <<Reply(kind)>>,
             UNCHANGED <<answer, rxFeedback, lagged, toClient, view, overtaken, state>>
      PROVE  ViewHeeds'
  <2>1. reply = <<>> /\ pc # "closed"
    BY <1>5, Reset DEF Queries
  <2>2. ASSUME NEW o \in Output PROVE Will(o)' = Will(o)
    <3> DEFINE v == After(view[o], toClient, o)
    <3>1. After(v, reply, o) = v
      BY <2>1, AfterNone
    <3>2. After(v, reply', o) = v
      BY <1>5, AfterQuiet
    <3>3. Will(o)' = Heed(After(After(v, reply', o), answer, o), rxFeedback, o)
      BY <1>5 DEF Will, After, Heed, Told, Latest, News, Speak, Tell
    <3> QED BY <3>1, <3>2, <3>3 DEF Will
  <2> QED BY <1>3, <1>5, <2>1, <2>2
<1>6. ASSUME UNCHANGED <<reply, answer, rxFeedback, lagged, toClient, view, overtaken, state>>,
             pc # "closed" \/ pc' = pc
      PROVE  ViewHeeds'
  <2>1. ASSUME NEW o \in Output PROVE Will(o)' = Will(o)
    BY <1>6 DEF Will, After, Heed, Told, Latest, News, Speak, Tell
  <2> QED BY <1>3, <1>6, <2>1
<1>7. CASE \/ \E m \in Said: Say(m)
           \/ \E m \in Queries: TakeQuery(m)
           \/ EngineFeedback \/ UNCHANGED vars
  BY <1>6, <1>7 DEF Say, TakeQuery, Take, EngineFeedback, vars
<1>8. CASE RecvLagged \/ TakeClose \/ WriteError
  BY <1>4, <1>8 DEF RecvLagged, TakeClose, WriteError, Close
<1>9. CASE TakeLogin \/ TakeWrongLogin \/ TakePing \/ \E m \in Queries: Refuse(m)
  BY <1>5, <1>9 DEF TakeLogin, TakeWrongLogin, TakePing, Refuse, Take, Respond
<1>10. CASE Read
  <2>1. /\ toClient # <<>> /\ toClient' = Tail(toClient) /\ view' = Learn(view, Head(toClient))
        /\ UNCHANGED <<pc, reply, answer, rxFeedback, lagged, overtaken, state>>
    BY <1>10 DEF Read
  <2>2. ASSUME NEW o \in Output PROVE Will(o)' = Will(o)
    <3>1. view'[o] = Hear(view[o], Head(toClient).values[o])
      BY <2>1 DEF Learn, Hear
    <3>2. After(view[o], toClient, o) = After(view'[o], toClient', o)
      BY <1>1, <2>1, <3>1, AfterRemoved
    <3>3. Will(o)' = Heed(After(After(After(view'[o], toClient', o), reply, o), answer, o), rxFeedback, o)
      BY <2>1 DEF Will, After, Heed, Told, Latest, News, Speak, Tell
    <3> QED BY <3>2, <3>3 DEF Will
  <2> QED BY <1>3, <2>1, <2>2
<1>11. CASE accept_connection
  <2>1. /\ pc = "closed" /\ toClient' = <<>> /\ view' = Unknown
        /\ UNCHANGED <<reply, answer, rxFeedback>>
    BY <1>11 DEF accept_connection
  <2>2. reply = <<>> /\ answer = <<>> /\ rxFeedback = <<>>
    BY <2>1, Reset DEF TypeOK
  <2>3. ASSUME NEW o \in Output PROVE Will(o)' = NoValue
    <3>1. view'[o] = NoValue
      BY <2>1 DEF Unknown
    <3>2. Will(o)' = Heed(After(After(After(view'[o], toClient', o), reply, o), answer, o), rxFeedback, o)
      BY <2>1 DEF Will, After, Heed, Told, Latest, News, Speak, Tell
    <3>3. After(NoValue, <<>>, o) = NoValue /\ Heed(NoValue, <<>>, o) = NoValue
      BY AfterNone, HeedNone
    <3> QED BY <2>1, <2>2, <3>1, <3>2, <3>3
  <2> QED BY <2>3 DEF ViewHeeds
<1>12. CASE RecvFeedback
  <2> DEFINE b == Head(rxFeedback)
             h == [Unknown EXCEPT ![b.id] = b.value]
             e == Response("event", h)
  <2>1. /\ pc = "select" /\ ~lagged /\ rxFeedback # <<>> /\ rxFeedback' = Tail(rxFeedback)
        /\ reply' = <<e>>
        /\ UNCHANGED <<answer, lagged, toClient, view, overtaken, state>>
    BY <1>12 DEF RecvFeedback
  <2>2. b \in Heard
    BY <1>1, <2>1, Removed
  <2>3. h \in Home /\ \A o \in Output: h[o] = Tell(o)[b]
    BY <2>2 DEF Heard, Home, Unknown, Tell
  <2>4. e \in Answer /\ \A o \in Output: e.values[o] = Tell(o)[b]
    <3> HIDE DEF h
    <3> QED BY <2>3, AnswerFacts DEF Response
  <2> HIDE DEF e, h
  <2>5. reply = <<>> /\ answer = <<>>
    BY <2>1, Reset
  <2>6. ASSUME NEW o \in Output PROVE Will(o)' = Will(o)
    <3> DEFINE v == After(view[o], toClient, o)
    <3>1. Will(o)' = Heed(After(After(v, reply', o), answer, o), rxFeedback', o)
      BY <2>1 DEF Will, After, Heed, Told, Latest, News, Speak, Tell
    <3>2. Will(o) = Heed(After(After(v, reply, o), answer, o), rxFeedback, o)
      BY DEF Will
    <3> HIDE DEF v
    <3>3. After(v, reply', o) = Hear(v, Tell(o)[b])
      BY <2>1, <2>4, AfterOne
    <3>4. \A w: After(w, <<>>, o) = w
      BY AfterNone
    <3>5. Heed(v, rxFeedback, o) = Heed(Hear(v, Tell(o)[b]), Tail(rxFeedback), o)
      BY <1>1, <2>1, HeedRemoved
    <3> QED BY <2>1, <2>5, <3>1, <3>2, <3>3, <3>4, <3>5
  <2> QED BY <1>3, <2>1, <2>6
<1>13. CASE SendQuery
  <2>1. /\ pc \in Queries
        /\ UNCHANGED <<answer, rxFeedback, lagged, toClient, view, overtaken, state>>
    BY <1>13 DEF SendQuery
  <2>2. CASE pc = "get_home"
    BY <1>6, <1>13, <2>1, <2>2 DEF SendQuery
  <2>3. CASE pc # "get_home"
    <3>1. reply' = <<Reply("set_state")>>
      BY <1>13, <2>3 DEF SendQuery
    <3> QED BY <1>5, <2>1, <3>1
  <2> QED BY <2>2, <2>3
<1>14. CASE GetAnswer
  <2>1. /\ pc = "await" /\ reply' = answer /\ answer' = <<>>
        /\ UNCHANGED <<rxFeedback, lagged, toClient, view, overtaken, state>>
    BY <1>14 DEF GetAnswer
  <2>2. reply = <<>>
    BY <1>1, <2>1, EmptyOrNot DEF TypeOK
  <2>3. ASSUME NEW o \in Output PROVE Will(o)' = Will(o)
    <3> DEFINE v == After(view[o], toClient, o)
    <3>1. Will(o)' = Heed(After(After(v, reply', o), answer', o), rxFeedback, o)
      BY <2>1 DEF Will, After, Heed, Told, Latest, News, Speak, Tell
    <3>2. \A w: After(w, <<>>, o) = w
      BY AfterNone
    <3> QED BY <2>1, <2>2, <3>1, <3>2 DEF Will
  <2> QED BY <1>3, <2>1, <2>3
<1>15. CASE Write
  <2>1. /\ pc \in {"reply", "refuse"} /\ toClient' = toClient \o reply
        /\ UNCHANGED <<answer, view, overtaken, state>>
    BY <1>15 DEF Write
  <2>2. CASE pc = "reply"
    <3>1. /\ reply' = <<>> /\ UNCHANGED <<rxFeedback, lagged>>
      BY <1>15, <2>2 DEF Write
    <3>2. Len(reply) = 1
      BY <2>1 DEF TypeOK
    <3> DEFINE e == Head(reply)
    <3>3. e \in Answer /\ reply = <<e>> /\ toClient' = Append(toClient, e)
      BY <1>1, <2>1, <3>2, OneWritten
    <3> HIDE DEF e
    <3>4. ASSUME NEW o \in Output PROVE Will(o)' = Will(o)
      <4> DEFINE v == After(view[o], toClient, o)
                 w == After(view[o], toClient', o)
      <4>1. Will(o)' = Heed(After(After(w, reply', o), answer, o), rxFeedback, o)
        BY <2>1, <3>1 DEF Will, After, Heed, Told, Latest, News, Speak, Tell
      <4>2. w = Hear(v, e.values[o])
        BY <1>1, <3>3, AfterAppended
      <4>3. Will(o) = Heed(After(After(v, reply, o), answer, o), rxFeedback, o)
        BY DEF Will
      <4> HIDE DEF v, w
      <4>4. After(v, reply, o) = Hear(v, e.values[o])
        BY <3>3, AfterOne
      <4>5. After(w, reply', o) = w
        BY <3>1, AfterNone
      <4> QED BY <4>1, <4>2, <4>3, <4>4, <4>5
    <3> QED BY <1>3, <2>1, <2>2, <3>1, <3>4
  <2>3. CASE pc # "reply"
    BY <1>4, <1>15, <2>3 DEF Write, Close
  <2> QED BY <2>2, <2>3
<1>16. ASSUME NEW p \in Output, NEW x \in Values, Broadcast(p, x) PROVE ViewHeeds'
  <2> DEFINE b == [id |-> p, value |-> x]
  <2>1. b \in Heard /\ \A o \in Output: Tell(o)[b] = IF o = p THEN x ELSE NoValue
    BY DEF Heard, Tell
  <2>2. /\ rxFeedback' = CASE pc = "closed" -> <<>>
                           [] pc # "closed" /\ Len(rxFeedback) < Capacity -> Append(rxFeedback, b)
                           [] OTHER -> Append(Tail(rxFeedback), b)
        /\ lagged' = (lagged \/ Len(rxFeedback) = Capacity)
        /\ state' = [state EXCEPT ![p] = x] /\ overtaken' = overtaken \ {p}
        /\ UNCHANGED <<pc, reply, answer, toClient, view>>
    BY <1>16 DEF Broadcast
  <2> HIDE DEF b
  <2>3. SUFFICES ASSUME pc' # "closed", ~lagged', NEW o \in Output \ overtaken'
                 PROVE  Will(o)' \in {NoValue, state'[o]}
    BY DEF ViewHeeds
  <2>4. Len(rxFeedback) < Capacity
    <3>1. Len(rxFeedback) \in Nat /\ Capacity \in Nat
      BY <1>1, Parts, ValueFacts
    <3>2. Len(rxFeedback) <= Capacity /\ Len(rxFeedback) # Capacity
      BY <2>2, <2>3 DEF TypeOK
    <3> QED BY <3>1, <3>2
  <2>5. rxFeedback' = Append(rxFeedback, b)
    BY <2>2, <2>3, <2>4
  <2> DEFINE v == After(After(After(view[o], toClient, o), reply, o), answer, o)
  <2>6. Will(o)' = Heed(v, rxFeedback', o)
    BY <2>2 DEF Will, After, Heed, Told, Latest, News, Speak, Tell
  <2>7. Will(o) = Heed(v, rxFeedback, o)
    BY DEF Will
  <2> HIDE DEF v
  <2>8. Will(o)' = Hear(Will(o), Tell(o)[b])
    BY <1>1, <2>1, <2>5, <2>6, <2>7, HeedAppended
  <2>9. state'[o] = IF o = p THEN x ELSE state[o]
    BY <1>1, <2>2 DEF Home
  <2>10. CASE o = p
    BY <2>1, <2>8, <2>9, <2>10, ValueFacts DEF Hear
  <2>11. CASE o # p
    <3>1. Tell(o)[b] = NoValue /\ state'[o] = state[o]
      BY <2>1, <2>9, <2>11
    <3>2. Will(o)' = Will(o)
      BY <2>8, <3>1 DEF Hear
    <3>3. pc # "closed" /\ ~lagged /\ o \in Output \ overtaken
      BY <2>2, <2>3, <2>11
    <3>4. Will(o) \in {NoValue, state[o]}
      BY <1>2, <3>3
    <3> QED BY <3>1, <3>2, <3>4
  <2> QED BY <2>10, <2>11
<1>17. CASE EngineInput
  <2>1. /\ rxInput # <<>>
        /\ UNCHANGED <<rxEngine, copy, rxFeedback, lagged, pc, reply, toClient, view, state>>
    BY <1>17 DEF EngineInput
  <2>2. CASE Head(rxInput) # "get_home"
    <3>1. UNCHANGED <<answer, overtaken>>
      BY <1>17, <2>2 DEF EngineInput
    <3> QED BY <1>6, <2>1, <3>1
  <2>3. CASE Head(rxInput) = "get_home"
    <3>1. /\ answer' = <<Response("home", copy)>>
          /\ overtaken' = overtaken \cup (Subjects(rxEngine) \ Subjects(rxFeedback))
      BY <1>17, <2>3 DEF EngineInput
    <3>2. answer = <<>> /\ pc = "await"
      <4>1. 1 \in DOMAIN rxInput /\ rxInput[1] = "get_home"
        <5>1. rxInput \in Seq(Queries)
          BY DEF TypeOK
        <5>2. DOMAIN rxInput = 1..Len(rxInput) /\ Len(rxInput) \in Nat \ {0} /\ Head(rxInput) = rxInput[1]
          BY <2>1, <5>1, Removed
        <5> QED BY <2>3, <5>2
      <4>2. Asking # {}
        BY <4>1 DEF Asking
      <4> QED BY <4>2 DEF TypeOK
    <3>3. SUFFICES ASSUME ~lagged', NEW o \in Output \ overtaken'
                   PROVE  Will(o)' \in {NoValue, state'[o]}
      BY DEF ViewHeeds
    <3>4. /\ o \in Output /\ o \notin overtaken
          /\ o \in Subjects(rxFeedback) \/ o \notin Subjects(rxEngine)
      BY <3>1, <3>3
    <3>5. Will(o) \in {NoValue, state[o]}
      BY <1>2, <2>1, <3>2, <3>3, <3>4
    <3> DEFINE v == After(After(view[o], toClient, o), reply, o)
               e == Response("home", copy)
    <3>6. Will(o)' = Heed(After(v, answer', o), rxFeedback, o)
      BY <2>1 DEF Will, After, Heed, Told, Latest, News, Speak, Tell
    <3>7. Will(o) = Heed(v, rxFeedback, o)
      <4>1. Will(o) = Heed(After(v, answer, o), rxFeedback, o)
        BY DEF Will
      <4> HIDE DEF v
      <4> QED BY <3>2, <4>1, AfterNone
    <3>8. e \in Answer /\ e.values = copy
      BY <1>1, AnswerFacts DEF Response
    <3> HIDE DEF v, e
    <3>9. Will(o)' = Heed(Hear(v, copy[o]), rxFeedback, o)
      <4>1. answer' = <<e>>
        BY <3>1 DEF e
      <4>2. After(v, answer', o) = Hear(v, copy[o])
        BY <3>8, <4>1, AfterOne
      <4> QED BY <3>6, <4>2
    <3>10. Heed(copy[o], rxEngine, o) = state[o] /\ Heed(state[o], rxFeedback, o) = state[o]
      BY <3>4 DEF SharesHeed
    <3>11. Heed(copy[o], rxFeedback, o) = state[o]
      <4>1. CASE o \in Subjects(rxFeedback)
        <5>1. Heed(copy[o], rxFeedback, o) = Heed(state[o], rxFeedback, o)
          BY <1>1, <4>1, HeedForgets
        <5> QED BY <3>10, <5>1
      <4>2. CASE o \notin Subjects(rxEngine)
        <5>1. Heed(copy[o], rxEngine, o) = copy[o]
          BY <1>1, <4>2, HeedNot
        <5> QED BY <3>10, <5>1
      <4> QED BY <3>4, <4>1, <4>2
    <3>12. CASE copy[o] = NoValue
      BY <2>1, <3>5, <3>7, <3>9, <3>12 DEF Hear
    <3>13. CASE copy[o] # NoValue
      BY <2>1, <3>9, <3>11, <3>13 DEF Hear
    <3> QED BY <3>12, <3>13
  <2> QED BY <2>2, <2>3
<1> QED
  BY <1>7, <1>8, <1>9, <1>10, <1>11, <1>12, <1>13, <1>14, <1>15, <1>16, <1>17 DEF Next

LEMMA InitViews == Init => SharesHeed /\ ViewHeeds
<1> SUFFICES ASSUME Init PROVE SharesHeed /\ ViewHeeds
  OBVIOUS
<1>1. ASSUME NEW o \in Output
      PROVE  Heed(copy[o], rxEngine, o) = state[o] /\ Heed(state[o], rxFeedback, o) = state[o]
  BY HeedNone DEF Init
<1> QED BY <1>1 DEF Init, SharesHeed, ViewHeeds

\* The inductive invariant: typed, gated, both shares of the broadcasts ending with the
\* last value of every output, and the client's view following them.
THEOREM Invariance == Spec => []IInv
<1> DEFINE Heeds == TypeOK /\ LoginSaid /\ Gated /\ SharesHeed /\ ViewHeeds
<1>1. Init => Heeds
  BY InitTyped, InitGated, InitViews
<1>2. Heeds /\ [Next]_vars => Heeds'
  BY NextTyped, NextGated, NextShares, NextViews
<1>3. Heeds => IInv
  BY SharesIs, ViewIs DEF IInv
<1> HIDE DEF Heeds
<1> QED BY <1>1, <1>2, <1>3, PTL DEF Spec

\* What the client will know of an output is the last value broadcast for it, or
\* nothing yet: no value is missing, and none comes after a newer one, but where the
\* home data came from an engine that was behind the session.
THEOREM ViewFollowed == Spec => []ViewFollows
<1>1. IInv => ViewFollows
  BY DEF IInv
<1> QED BY <1>1, Invariance, PTL
=============================================================================
