--------------------------- MODULE MainServer_proofs ---------------------------
(***************************************************************************)
(* The main server keeps its types, shows the raw state of every input as  *)
(* long as no datagram is lost, and does not misjudge how long a button    *)
(* was held unless the network fails it, for any buttons, times and sizes. *)
(***************************************************************************)
EXTENDS MainServer, Updates_proofs

USE IdsAssumption, TimesAssumption, SizesAssumption

LEMMA CapFacts ==
  /\ Cap \in Nat /\ Jitter <= Cap /\ Threshold <= Cap
  /\ \A n \in Age: n \in Nat /\ Older(n) \in Age /\ n <= Older(n) /\ Older(n) <= n + 1
BY DEF Cap, Age, Older

-----------------------------------------------------------------------------
(***************************************************************************)
(* What is under way when a datagram is sent and when one is taken.        *)
(***************************************************************************)
LEMMA Sent ==
  ASSUME TypeOK, NEW d \in Datagram, net' = Append(net, d)
  PROVE  /\ net' \in Seq(Datagram) /\ Len(net') = Len(net) + 1
         /\ DOMAIN net' = 1..Len(net) + 1 /\ DOMAIN net = 1..Len(net)
         /\ net'[Len(net) + 1] = d
         /\ \A n \in 1..Len(net): net'[n] = net[n]
BY DEF TypeOK

LEMMA Taken ==
  ASSUME TypeOK, net # <<>>, net' = Tail(net)
  PROVE  /\ net' \in Seq(Datagram) /\ Len(net) \in Nat \ {0} /\ Len(net') = Len(net) - 1
         /\ DOMAIN net' = 1..Len(net) - 1 /\ DOMAIN net = 1..Len(net)
         /\ Head(net) = net[1] /\ net[1] \in Datagram
         /\ \A n \in 1..Len(net) - 1: net'[n] = net[n + 1]
BY DEF TypeOK

\* The datagrams of button b, after another one was sent.
LEMMA PlacesSent ==
  ASSUME TypeOK, NEW d \in Datagram, net' = Append(net, d), NEW b,
         NEW n \in DOMAIN net'
  PROVE  /\ Quiet(b)' => Quiet(b) /\ d.id # b
         /\ n # Len(net) + 1 => n \in DOMAIN net /\ net'[n] = net[n]
         /\ Oldest(b, n)' => IF n = Len(net) + 1 THEN Quiet(b) /\ d.id = b ELSE Oldest(b, n)
         /\ Newest(b, n)' => IF n = Len(net) + 1 THEN d.id = b ELSE d.id # b /\ Newest(b, n)
<1> USE Sent
<1> DEFINE m == Len(net)
<1>0. m \in Nat /\ n \in 1..m + 1
  BY DEF TypeOK
<1>1. ASSUME Quiet(b)' PROVE Quiet(b) /\ d.id # b
  <2>1. m + 1 \in DOMAIN net' /\ net'[m + 1] = d
    BY <1>0
  <2>2. ASSUME NEW j \in DOMAIN net PROVE net[j].id # b
    <3>1. j \in DOMAIN net' /\ net'[j] = net[j]
      BY <1>0
    <3> QED BY <1>1, <3>1 DEF Quiet
  <2> QED BY <1>1, <2>1, <2>2 DEF Quiet
<1>2. n # m + 1 => n \in DOMAIN net /\ net'[n] = net[n]
  BY <1>0
<1>3. Oldest(b, n)' => IF n = m + 1 THEN Quiet(b) /\ d.id = b ELSE Oldest(b, n)
  BY <1>0 DEF Oldest, Quiet
<1>4. Newest(b, n)' => IF n = m + 1 THEN d.id = b ELSE d.id # b /\ Newest(b, n)
  BY <1>0 DEF Newest
<1> QED BY <1>1, <1>2, <1>3, <1>4

LEMMA PairsSent ==
  ASSUME TypeOK, NEW d \in Datagram, net' = Append(net, d), NEW b,
         NEW n \in DOMAIN net', NEW k \in DOMAIN net', Pair(b, k, n)'
  PROVE  /\ k \in DOMAIN net /\ net'[k] = net[k]
         /\ IF n = Len(net) + 1 THEN d.id = b /\ Newest(b, k) ELSE Pair(b, k, n)
<1> USE Sent
<1> DEFINE m == Len(net)
<1>1. m \in Nat /\ n \in 1..m + 1
  BY DEF TypeOK
<1>2. k \in 1..m /\ k < n /\ k \in DOMAIN net /\ net'[k] = net[k]
  BY <1>1 DEF Pair
<1>3. CASE n = m + 1
  BY <1>1, <1>2, <1>3 DEF Pair, Newest
<1>4. CASE n # m + 1
  BY <1>1, <1>2, <1>4 DEF Pair
<1> QED BY <1>2, <1>3, <1>4

\* The datagrams of button b, after the first one of all was taken.
LEMMA PlacesTaken ==
  ASSUME TypeOK, net # <<>>, net' = Tail(net), NEW b
  PROVE  /\ 1 \in DOMAIN net
         /\ net[1].id = b => Oldest(b, 1)
         /\ Quiet(b)' => IF net[1].id = b THEN Newest(b, 1) ELSE Quiet(b)
         /\ \A n \in DOMAIN net':
              /\ n + 1 \in DOMAIN net /\ net'[n] = net[n + 1]
              /\ Oldest(b, n)' => IF net[1].id = b THEN Pair(b, 1, n + 1) ELSE Oldest(b, n + 1)
              /\ Newest(b, n)' => Newest(b, n + 1)
              /\ \A k \in DOMAIN net': Pair(b, k, n)' => Pair(b, k + 1, n + 1)
<1> USE Taken
<1> DEFINE m == Len(net)
<1>1. 1 \in DOMAIN net /\ (net[1].id = b => Oldest(b, 1))
  BY DEF Oldest
<1>2. ASSUME Quiet(b)' PROVE \A n \in 2..m: net[n].id # b
  <2> SUFFICES ASSUME NEW n \in 2..m PROVE net[n].id # b
    OBVIOUS
  <2>1. n - 1 \in DOMAIN net' /\ net'[n - 1] = net[n]
    OBVIOUS
  <2> QED BY <1>2, <2>1 DEF Quiet
<1>3. Quiet(b)' => IF net[1].id = b THEN Newest(b, 1) ELSE Quiet(b)
  BY <1>2 DEF Quiet, Newest
<1>4. ASSUME NEW n \in DOMAIN net'
      PROVE  /\ n + 1 \in DOMAIN net /\ net'[n] = net[n + 1]
             /\ Oldest(b, n)' => IF net[1].id = b THEN Pair(b, 1, n + 1) ELSE Oldest(b, n + 1)
             /\ Newest(b, n)' => Newest(b, n + 1)
             /\ \A k \in DOMAIN net': Pair(b, k, n)' => Pair(b, k + 1, n + 1)
  <2>1. n + 1 \in DOMAIN net /\ net'[n] = net[n + 1] /\ n \in 1..m - 1
    OBVIOUS
  <2>2. ASSUME NEW j \in 2..m PROVE j - 1 \in 1..m - 1 /\ net'[j - 1] = net[j]
    OBVIOUS
  <2>3. ASSUME Oldest(b, n)'
        PROVE  IF net[1].id = b THEN Pair(b, 1, n + 1) ELSE Oldest(b, n + 1)
    <3>1. ASSUME NEW j \in 2..n PROVE net[j].id # b
      <4>1. j - 1 \in 1..n - 1 /\ j \in 2..m
        BY <2>1
      <4> QED BY <2>1, <2>2, <2>3, <4>1 DEF Oldest
    <3> QED BY <2>1, <2>3, <3>1 DEF Oldest, Pair
  <2>4. ASSUME Newest(b, n)' PROVE Newest(b, n + 1)
    <3>1. ASSUME NEW j \in n + 2..m PROVE net[j].id # b
      <4>1. j - 1 \in n + 1..m - 1 /\ j \in 2..m
        BY <2>1
      <4> QED BY <2>1, <2>2, <2>4, <4>1 DEF Newest
    <3> QED BY <2>1, <2>4, <3>1 DEF Newest
  <2>5. ASSUME NEW k \in DOMAIN net', Pair(b, k, n)' PROVE Pair(b, k + 1, n + 1)
    <3>1. ASSUME NEW j \in k + 2..n PROVE net[j].id # b
      <4>1. j - 1 \in k + 1..n - 1 /\ j \in 2..m
        BY <2>1
      <4> QED BY <2>1, <2>2, <2>5, <4>1 DEF Pair
    <3> QED BY <2>1, <2>5, <3>1 DEF Pair
  <2> QED BY <2>1, <2>3, <2>4, <2>5
<1> QED BY <1>1, <1>3, <1>4

-----------------------------------------------------------------------------
(***************************************************************************)
(* Types.                                                                  *)
(***************************************************************************)
LEMMA TypeInit == Init => TypeOK
BY CapFacts DEF Init, TypeOK, Age

LEMMA OnTheirWay ==
  ASSUME TypeOK, net # <<>>
  PROVE  /\ net[1] \in Datagram /\ Head(net) = net[1] /\ Tail(net) \in Seq(Datagram)
         /\ Len(net) \in 1..NetSize /\ Len(Tail(net)) = Len(net) - 1
BY DEF TypeOK

\* What a datagram that overtakes another makes of the network.
LEMMA Swapped ==
  ASSUME TypeOK, Overtake
  PROVE  /\ net' \in Seq(Datagram) /\ Len(net') = Len(net)
         /\ DOMAIN net' = DOMAIN net /\ 1 \in DOMAIN net /\ 2 \in DOMAIN net
         /\ DOMAIN net \subseteq Nat \ {0}
         /\ net'[1] = net[2] /\ net'[2] = net[1]
         /\ \A n \in DOMAIN net \ {1, 2}: net'[n] = net[n]
<1>1. net \in Seq(Datagram) /\ Len(net) \in Nat /\ DOMAIN net = 1..Len(net) /\ Len(net) > 1
  BY DEF TypeOK, Overtake
<1>2. net' = [net EXCEPT ![1] = net[2], ![2] = net[1]]
  BY DEF Overtake
<1>3. net[1] \in Datagram /\ net[2] \in Datagram
  BY <1>1
<1> QED BY <1>1, <1>2, <1>3

LEMMA PushTypes == ASSUME TypeOK, NEW b \in Button, Push(b) PROVE TypeOK'
<1> DEFINE d == [id |-> b, on |-> ~pressed[b], age |-> 0, held |-> since[b]]
<1>1. d \in Datagram
  BY CapFacts DEF TypeOK, Datagram, Age
<1>2. net' \in Seq(Datagram) /\ Len(net') <= NetSize
  BY <1>1, Sent DEF TypeOK, Push
<1>3. pressed' \in [Button -> BOOLEAN] /\ since' \in [Button -> Age]
  BY CapFacts DEF TypeOK, Push, Age
<1> QED BY <1>2, <1>3 DEF TypeOK, Push, server

LEMMA FaultTypes == ASSUME TypeOK, Fault PROVE faults' \in 0..MaxFaults /\ faults' = faults + 1
BY DEF TypeOK, Fault

LEMMA ReceiveTypes ==
  ASSUME TypeOK, NEW b \in Button, NEW on \in BOOLEAN, Receive(b, on),
         last_change' \in [Long -> Age \cup {None}],
         \/ event' = event
         \/ \E v \in {BoolVal(o): o \in BOOLEAN} \cup {IntVal(1), IntVal(2)}: Emit(b, v)
  PROVE  TypeOK'
<1>1. net' \in Seq(Datagram) /\ Len(net') <= NetSize
  BY OnTheirWay DEF TypeOK, Receive
<1>2. raw' \in [Button -> BOOLEAN]
  BY DEF TypeOK, Receive
<1>3. event' \in Seq(Event) /\ Len(event') <= 1
  <2>1. CASE event' = event
    BY <2>1 DEF TypeOK
  <2>2. ASSUME NEW v \in {BoolVal(o): o \in BOOLEAN} \cup {IntVal(1), IntVal(2)}, Emit(b, v)
        PROVE  event' \in Seq(Event) /\ Len(event') <= 1
    <3>1. Head(net).held \in Age
      BY OnTheirWay DEF Receive, Datagram
    <3>2. [id |-> b, value |-> v, held |-> Head(net).held] \in Event
      BY <3>1 DEF Event
    <3> QED BY <2>2, <3>2 DEF Emit
  <2> QED BY <2>1, <2>2
<1> QED BY <1>1, <1>2, <1>3 DEF TypeOK, Receive, wall

LEMMA TickTypes == ASSUME TypeOK, Tick PROVE TypeOK'
<1>1. since' \in [Button -> Age]
  BY CapFacts DEF TypeOK, Tick
<1>2. net' \in Seq(Datagram) /\ Len(net') = Len(net)
  <2>1. ASSUME NEW n \in DOMAIN net PROVE [net[n] EXCEPT !.age = Older(@)] \in Datagram
    <3>1. net[n] \in Datagram
      BY DEF TypeOK
    <3> QED BY <3>1, CapFacts DEF Datagram
  <2>2. DOMAIN net = 1..Len(net) /\ Len(net) \in Nat
    BY DEF TypeOK
  <2> QED BY <2>1, <2>2 DEF Tick
<1>3. last_change' \in [Long -> Age \cup {None}]
  BY CapFacts DEF TypeOK, Tick
<1> QED BY <1>1, <1>2, <1>3 DEF TypeOK, Tick

LEMMA TypeNext == TypeOK /\ [Next]_vars => TypeOK'
<1> SUFFICES ASSUME TypeOK, [Next]_vars PROVE TypeOK'
  OBVIOUS
<1>1. ASSUME NEW b \in Button, Push(b) PROVE TypeOK'
  BY <1>1, PushTypes
<1>2. CASE Lose
  <2>1. net' \in Seq(Datagram) /\ Len(net') <= NetSize
    BY <1>2, OnTheirWay DEF Lose, Lost, TypeOK
  <2> QED BY <1>2, <2>1, FaultTypes DEF Lose, Lost, TypeOK, wall, server
<1>3. CASE Duplicate
  <2>1. net' \in Seq(Datagram) /\ Len(net') <= NetSize
    BY <1>3, OnTheirWay DEF Duplicate, TypeOK
  <2>2. faults' \in 0..MaxFaults
    BY <1>3, FaultTypes DEF Duplicate
  <2> QED BY <1>3, <2>1, <2>2 DEF Duplicate, TypeOK, wall, server
<1>13. CASE Overtake
  <2>1. net' \in Seq(Datagram) /\ Len(net') = Len(net)
    BY <1>13, Swapped DEF TypeOK
  <2>2. faults' \in 0..MaxFaults
    BY <1>13, FaultTypes DEF Overtake
  <2> QED BY <1>13, <2>1, <2>2 DEF Overtake, TypeOK, wall, server
<1>4. ASSUME NEW b \in Plain, NEW on \in BOOLEAN, RecvPlain(b, on) PROVE TypeOK'
  BY <1>4, ReceiveTypes DEF RecvPlain, Button, TypeOK
<1>5. ASSUME NEW b \in Long, RecvPress(b) PROVE TypeOK'
  <2>1. last_change' \in [Long -> Age \cup {None}]
    BY <1>5, CapFacts DEF RecvPress, TypeOK, Age
  <2> QED BY <1>5, <2>1, ReceiveTypes DEF RecvPress, Button
<1>6. ASSUME NEW b \in Long, RecvRelease(b) PROVE TypeOK'
  <2>1. last_change' \in [Long -> Age \cup {None}]
    BY <1>6 DEF RecvRelease, TypeOK
  <2>2. LongPress(b) \in {IntVal(1), IntVal(2)}
    BY DEF LongPress
  <2> QED BY <1>6, <2>1, <2>2, ReceiveTypes DEF RecvRelease, Button
<1>7. CASE Send
  <2>1. event[1] \in Event
    BY <1>7 DEF Send, TypeOK
  <2>2. InputEvent(event[1]) \in Message /\ rxInput \in Seq(Message)
    BY <2>1 DEF Message, TypeOK
  <2>3. rxInput' \in Seq(Message) /\ Len(rxInput') <= Capacity
    BY <1>7, <2>2 DEF Send, TypeOK
  <2> QED BY <1>7, <2>3 DEF Send, TypeOK, wall
<1>8. CASE Unreadable
  <2>1. rxInput' \in Seq(Message) /\ Len(rxInput') <= Capacity
    BY <1>8 DEF Unreadable
  <2> QED BY <1>8, <2>1 DEF Unreadable, TypeOK, wall
<1>9. CASE TakeInput
  <2>1. rxInput \in Seq(Message)
    BY DEF Message, TypeOK
  <2>2. rxInput' \in Seq(Message) /\ Len(rxInput') <= Capacity
    BY <1>9, <2>1 DEF TakeInput, TypeOK
  <2> QED BY <1>9, <2>2 DEF TakeInput, TypeOK, wall
<1>10. CASE Restart
  BY <1>10, FaultTypes DEF Restart, Renewed, TypeOK, wall
<1>11. CASE Tick
  BY <1>11, TickTypes
<1>12. CASE UNCHANGED vars
  BY <1>12 DEF vars, wall, server, TypeOK
<1> QED BY <1>1, <1>2, <1>3, <1>4, <1>5, <1>6, <1>7, <1>8, <1>9, <1>10, <1>11, <1>12,
          <1>13 DEF Next

\* The input channel keeps its bound, whatever the network does.
THEOREM TypeCorrect == Spec => []TypeOK
BY TypeInit, TypeNext, PTL DEF Spec

-----------------------------------------------------------------------------
(***************************************************************************)
(* The raw states.                                                         *)
(***************************************************************************)
LEMMA OnIsNews == ASSUME NEW on PROVE BoolVal(on) # NoValue
BY DEF BoolVal, NoValue

LEMMA NoFaultYet == ASSUME TypeOK, [Next]_vars, faults' = 0 PROVE faults = 0
<1>1. ~Fault
  BY DEF Fault, TypeOK
<1> QED
  BY <1>1 DEF Next, vars, Push, Lose, Duplicate, Overtake, RecvPlain, RecvPress, RecvRelease, Receive, Send,
              Unreadable, TakeInput, Restart, Tick

LEMMA RawSent ==
  ASSUME TypeOK, NEW c \in Button, Push(c), NEW b \in Button,
         BoolVal(pressed[b]) = Latest(BoolVal(raw[b]), StatesOf(b))
  PROVE  (BoolVal(pressed[b]) = Latest(BoolVal(raw[b]), StatesOf(b)))'
<1> DEFINE d == [id |-> c, on |-> ~pressed[c], age |-> 0, held |-> since[c]]
           m == Len(net)
           p == StatesOf(b)
           q == StatesOf(b)'
           v == BoolVal(raw[b])
<1>1. d \in Datagram
  BY CapFacts DEF TypeOK, Datagram, Age
<1>0. m \in Nat
  BY DEF TypeOK
<1>2. net' = Append(net, d)
  BY DEF Push
<1>3. DOMAIN p = 1..m /\ DOMAIN q = 1..m + 1
  BY <1>0, <1>1, <1>2, Sent DEF StatesOf
<1>4. \A n \in 1..m: q[n] = p[n]
  BY <1>0, <1>1, <1>2, Sent DEF StatesOf
<1>5. q[m + 1] = IF c = b THEN BoolVal(~pressed[c]) ELSE NoValue
  BY <1>0, <1>1, <1>2, Sent DEF StatesOf
<1>6. Latest(v, q) = IF q[m + 1] = NoValue THEN Latest(v, p) ELSE q[m + 1]
  <2> HIDE DEF v, p, q, m
  <2> QED BY <1>0, <1>3, <1>4, LatestAppended
<1>7. pressed'[b] = IF c = b THEN ~pressed[b] ELSE pressed[b]
  BY DEF Push, TypeOK
<1>8. raw' = raw
  BY DEF Push, server
<1> QED BY <1>5, <1>6, <1>7, <1>8, OnIsNews

LEMMA RawTaken ==
  ASSUME TypeOK, NEW c \in Button, NEW on \in BOOLEAN, Receive(c, on), NEW b \in Button,
         BoolVal(pressed[b]) = Latest(BoolVal(raw[b]), StatesOf(b))
  PROVE  (BoolVal(pressed[b]) = Latest(BoolVal(raw[b]), StatesOf(b)))'
<1> DEFINE m == Len(net) - 1
           p == StatesOf(b)'
           q == StatesOf(b)
           v == BoolVal(raw[b])
<1>1. net # <<>> /\ net' = Tail(net) /\ m \in Nat
  BY DEF Receive, TypeOK
<1>2. DOMAIN p = 1..m /\ DOMAIN q = 1..m + 1
  BY <1>1, Taken DEF StatesOf
<1>3. \A n \in 1..m: p[n] = q[n + 1]
  BY <1>1, Taken DEF StatesOf
<1>4. q[1] = IF c = b THEN BoolVal(on) ELSE NoValue
  BY <1>1, Taken DEF StatesOf, Receive
<1>5. Latest(v, q) = Latest(IF q[1] = NoValue THEN v ELSE q[1], p)
  <2> HIDE DEF v, p, q, m
  <2> QED BY <1>1, <1>2, <1>3, LatestTaken
<1>6. raw'[b] = IF c = b THEN on ELSE raw[b]
  BY DEF Receive, TypeOK
<1>7. BoolVal(raw'[b]) = IF q[1] = NoValue THEN v ELSE q[1]
  BY <1>4, <1>6, OnIsNews
<1>8. pressed' = pressed
  BY DEF Receive, wall
<1> QED BY <1>5, <1>7, <1>8

LEMMA RawNext == TypeOK /\ RawFollows /\ [Next]_vars => RawFollows'
<1> SUFFICES ASSUME TypeOK, RawFollows, [Next]_vars, faults' = 0, NEW b \in Button
             PROVE  (BoolVal(pressed[b]) = Latest(BoolVal(raw[b]), StatesOf(b)))'
  BY DEF RawFollows
<1>0. faults = 0 /\ BoolVal(pressed[b]) = Latest(BoolVal(raw[b]), StatesOf(b))
  BY NoFaultYet DEF RawFollows
<1>1. ASSUME NEW c \in Button, Push(c)
      PROVE  (BoolVal(pressed[b]) = Latest(BoolVal(raw[b]), StatesOf(b)))'
  BY <1>0, <1>1, RawSent
<1>2. ASSUME NEW c \in Button, NEW on \in BOOLEAN, Receive(c, on)
      PROVE  (BoolVal(pressed[b]) = Latest(BoolVal(raw[b]), StatesOf(b)))'
  BY <1>0, <1>2, RawTaken
<1>3. CASE Tick
  <2>1. StatesOf(b)' = StatesOf(b)
    <3>1. DOMAIN net' = DOMAIN net
      BY <1>3 DEF Tick
    <3>2. ASSUME NEW n \in DOMAIN net PROVE net'[n].id = net[n].id /\ net'[n].on = net[n].on
      <4>1. net[n] \in Datagram
        BY DEF TypeOK
      <4> QED BY <1>3, <4>1 DEF Tick, Datagram
    <3> QED BY <3>1, <3>2 DEF StatesOf
  <2> QED BY <1>0, <1>3, <2>1 DEF Tick
<1>4. CASE UNCHANGED <<pressed, net, raw>>
  BY <1>0, <1>4 DEF StatesOf
<1>5. ~Lose /\ ~Duplicate /\ ~Overtake /\ ~Restart
  BY <1>0 DEF Lose, Duplicate, Overtake, Restart, Fault
<1> QED
  BY <1>1, <1>2, <1>3, <1>4, <1>5
  DEF Next, vars, wall, server, RecvPlain, RecvPress, RecvRelease, Send, Unreadable, TakeInput, Button

LEMMA RawInit == Init => RawFollows
<1> SUFFICES ASSUME Init, NEW b \in Button
             PROVE  BoolVal(pressed[b]) = Latest(BoolVal(raw[b]), StatesOf(b))
  BY DEF RawFollows
<1>1. News(StatesOf(b)) = {}
  BY DEF Init, News, StatesOf
<1> QED BY <1>1, LatestNone DEF Init

\* As long as nothing is lost, the raw states broadcast, and what is still to be
\* broadcast of the datagrams under way, are those of the buttons.
THEOREM RawStatesFollow == Spec => []RawFollows
BY TypeInit, TypeNext, RawInit, RawNext, PTL DEF Spec

-----------------------------------------------------------------------------
(***************************************************************************)
(* How long a button was held: what is remembered fits what is under way.  *)
(***************************************************************************)
LEMMA ButtonFacts ==
  ASSUME TypeOK, NEW b \in Long
  PROVE  /\ b \in Button /\ since[b] \in Nat /\ since[b] <= Cap /\ pressed[b] \in BOOLEAN
         /\ last_change[b] = None \/ (last_change[b] \in Nat /\ last_change[b] <= Cap)
         /\ None # 0 /\ faults \in Nat
         /\ \A n \in DOMAIN net: /\ n \in Nat /\ net[n].on \in BOOLEAN
                                 /\ net[n].age \in Nat /\ net[n].age <= Cap
                                 /\ net[n].held \in Nat /\ net[n].held <= Cap
<1>1. b \in Button /\ None # 0 /\ faults \in Nat
  BY CapFacts DEF Button, TypeOK
<1>2. since[b] \in Age /\ pressed[b] \in BOOLEAN /\ last_change[b] \in Age \cup {None}
  BY <1>1 DEF TypeOK
<1>3. ASSUME NEW n \in DOMAIN net
      PROVE  n \in Nat /\ net[n].on \in BOOLEAN /\ net[n].age \in Age /\ net[n].held \in Age
  <2>1. n \in Nat /\ net[n] \in Datagram
    BY DEF TypeOK
  <2> QED BY <2>1 DEF Datagram
<1> QED BY <1>1, <1>2, <1>3, CapFacts DEF Age

\* A button is pushed.
LEMMA KnownSent ==
  ASSUME TypeOK, NEW c \in Button, Push(c), NEW b \in Long, Known(b)
  PROVE  Known(b)'
<1> DEFINE d == [id |-> c, on |-> ~pressed[c], age |-> 0, held |-> since[c]]
           m == Len(net)
<1>1. d \in Datagram
  BY CapFacts DEF TypeOK, Datagram, Age
<1>2. net' = Append(net, d) /\ last_change' = last_change /\ faults' = faults
  BY DEF Push, server
<1>3. /\ pressed'[b] = IF c = b THEN ~pressed[b] ELSE pressed[b]
      /\ since'[b] = IF c = b THEN 0 ELSE since[b]
  BY ButtonFacts DEF Push, TypeOK
<1>4. /\ net'[m + 1].on = ~pressed[c] /\ net'[m + 1].age = 0 /\ net'[m + 1].held = since[c]
  BY <1>1, <1>2, Sent
<1>5. d.id = c /\ m \in Nat
  BY DEF TypeOK
<1> HIDE DEF d
<1>6. Quiet(b)' => Quiet(b) /\ c # b
  <2>1. m + 1 \in DOMAIN net'
    BY <1>1, <1>2, <1>5, Sent
  <2> QED BY <1>1, <1>2, <1>5, <2>1, PlacesSent
<1>7. ASSUME NEW n \in DOMAIN net'
      PROVE  /\ n # m + 1 => n \in DOMAIN net /\ net'[n] = net[n]
             /\ Oldest(b, n)' => IF n = m + 1 THEN Quiet(b) /\ c = b ELSE Oldest(b, n)
             /\ Newest(b, n)' => IF n = m + 1 THEN c = b ELSE c # b /\ Newest(b, n)
             /\ \A k \in DOMAIN net':
                  Pair(b, k, n)' =>
                    /\ k \in DOMAIN net /\ net'[k] = net[k]
                    /\ IF n = m + 1 THEN c = b /\ Newest(b, k) ELSE Pair(b, k, n)
  <2>1. n # m + 1 => n \in DOMAIN net /\ net'[n] = net[n]
    BY <1>1, <1>2, PlacesSent
  <2>2. Oldest(b, n)' => IF n = m + 1 THEN Quiet(b) /\ d.id = b ELSE Oldest(b, n)
    BY <1>1, <1>2, PlacesSent
  <2>3. Newest(b, n)' => IF n = m + 1 THEN d.id = b ELSE d.id # b /\ Newest(b, n)
    BY <1>1, <1>2, PlacesSent
  <2>4. ASSUME NEW k \in DOMAIN net', Pair(b, k, n)'
        PROVE  /\ k \in DOMAIN net /\ net'[k] = net[k]
               /\ IF n = m + 1 THEN d.id = b /\ Newest(b, k) ELSE Pair(b, k, n)
    BY <1>1, <1>2, <2>4, PairsSent
  <2> QED BY <1>5, <2>1, <2>2, <2>3, <2>4
<1> HIDE DEF m
<1>8. ASSUME faults = 0 PROVE Alternate(b)'
  <2>1. Alternate(b)
    BY <1>8 DEF Known
  <2>2. ASSUME NEW n \in DOMAIN net', Oldest(b, n)' PROVE net'[n].on <=> last_change'[b] = None
    <3>1. CASE n = m + 1
      <4>1. c = b /\ (last_change[b] = None <=> ~pressed[b])
        BY <1>7, <2>1, <2>2, <3>1, ButtonFacts DEF Alternate
      <4> QED BY <1>2, <1>4, <3>1, <4>1, ButtonFacts
    <3>2. CASE n # m + 1
      BY <1>2, <1>7, <2>1, <2>2, <3>2 DEF Alternate
    <3> QED BY <3>1, <3>2
  <2>3. ASSUME NEW n \in DOMAIN net', Newest(b, n)' PROVE net'[n].on <=> pressed'[b]
    BY <1>3, <1>4, <1>7, <2>1, <2>3 DEF Alternate
  <2>4. ASSUME NEW n \in DOMAIN net', NEW k \in DOMAIN net', Pair(b, k, n)'
        PROVE  net'[n].on <=> ~net'[k].on
    <3>1. k \in DOMAIN net /\ net'[k] = net[k]
      BY <1>7, <2>4
    <3>2. CASE n = m + 1
      <4>1. c = b /\ (net[k].on <=> pressed[b])
        BY <1>7, <2>1, <2>4, <3>1, <3>2 DEF Alternate
      <4> QED BY <1>4, <3>1, <3>2, <4>1
    <3>3. CASE n # m + 1
      BY <1>7, <2>1, <2>4, <3>1, <3>3 DEF Alternate
    <3> QED BY <3>2, <3>3
  <2>5. Quiet(b)' => (pressed'[b] <=> last_change'[b] # None)
    BY <1>2, <1>3, <1>6, <2>1 DEF Alternate
  <2> QED BY <2>2, <2>3, <2>4, <2>5 DEF Alternate
<1>9. ASSUME faults = 0 PROVE Measured(b)'
  <2>1. Alternate(b) /\ Measured(b)
    BY <1>9 DEF Known
  <2>2. ASSUME NEW n \in DOMAIN net', Oldest(b, n)', ~net'[n].on
        PROVE  NotShort(last_change'[b], net'[n].held + net'[n].age)
    <3>1. CASE n = m + 1
      <4>1. c = b /\ Quiet(b) /\ pressed[b]
        BY <1>4, <1>7, <2>2, <3>1, ButtonFacts
      <4>2. net'[n].held + net'[n].age = since[b]
        BY <1>4, <3>1, <4>1, ButtonFacts
      <4> QED BY <1>2, <2>1, <4>1, <4>2 DEF Measured
    <3>2. CASE n # m + 1
      BY <1>2, <1>7, <2>1, <2>2, <3>2 DEF Measured
    <3> QED BY <3>1, <3>2
  <2>3. ASSUME NEW n \in DOMAIN net', Newest(b, n)', net'[n].on
        PROVE  since'[b] <= net'[n].age
    BY <1>3, <1>4, <1>7, <2>1, <2>3 DEF Measured
  <2>4. ASSUME NEW n \in DOMAIN net', NEW k \in DOMAIN net', Pair(b, k, n)', net'[k].on
        PROVE  net'[n].held + net'[n].age <= net'[k].age
    BY <1>4, <1>7, <2>1, <2>4, ButtonFacts DEF Measured
  <2>5. Quiet(b)' /\ pressed'[b] => NotShort(last_change'[b], since'[b])
    BY <1>2, <1>3, <1>6, <2>1 DEF Measured
  <2> QED BY <2>2, <2>3, <2>4, <2>5 DEF Measured
<1>10. ASSUME faults <= 1 PROVE NoOlder(b)'
  <2>1. NoOlder(b)
    BY <1>10 DEF Known
  <2>2. ASSUME NEW n \in DOMAIN net', Oldest(b, n)', ~net'[n].on
        PROVE  NotLong(last_change'[b], net'[n].held + net'[n].age, net'[n].held)
    <3>1. CASE n = m + 1
      <4>1. c = b /\ Quiet(b) /\ pressed[b]
        BY <1>4, <1>7, <2>2, <3>1, ButtonFacts
      <4>2. net'[n].held = since[b] /\ net'[n].held + net'[n].age = since[b]
        BY <1>4, <3>1, <4>1, ButtonFacts
      <4> QED BY <1>2, <2>1, <4>1, <4>2 DEF NoOlder
    <3>2. CASE n # m + 1
      BY <1>2, <1>7, <2>1, <2>2, <3>2 DEF NoOlder
    <3> QED BY <3>1, <3>2
  <2>3. Quiet(b)' /\ pressed'[b] => NotLong(last_change'[b], since'[b], since'[b])
    BY <1>2, <1>3, <1>6, <2>1 DEF NoOlder
  <2> QED BY <2>2, <2>3 DEF NoOlder
<1> QED BY <1>2, <1>8, <1>9, <1>10 DEF Known

\* run() has handled a datagram.
LEMMA KnownTaken ==
  ASSUME TypeOK, Prompt, NEW c \in Button, NEW on \in BOOLEAN, Receive(c, on),
         NEW b \in Long, Known(b),
         last_change'[b] = IF c # b THEN last_change[b] ELSE IF on THEN 0 ELSE None
  PROVE  Known(b)'
<1>1. net # <<>> /\ net' = Tail(net) /\ net[1].id = c /\ net[1].on = on
  BY Taken DEF Receive
<1>2. pressed' = pressed /\ since' = since /\ faults' = faults
  BY DEF Receive, wall
<1>3. /\ 1 \in DOMAIN net
      /\ c = b => Oldest(b, 1)
      /\ Quiet(b)' => IF c = b THEN Newest(b, 1) ELSE Quiet(b)
  BY <1>1, PlacesTaken
<1>4. ASSUME NEW n \in DOMAIN net'
      PROVE  /\ n + 1 \in DOMAIN net /\ net'[n] = net[n + 1]
             /\ Oldest(b, n)' => IF c = b THEN Pair(b, 1, n + 1) ELSE Oldest(b, n + 1)
             /\ Newest(b, n)' => Newest(b, n + 1)
             /\ \A k \in DOMAIN net': Pair(b, k, n)' => Pair(b, k + 1, n + 1)
  BY <1>1, PlacesTaken
<1>5. \A n \in DOMAIN net: net[n].age <= Jitter
  BY DEF Prompt
<1>6. ASSUME faults = 0 PROVE Alternate(b)'
  <2>1. Alternate(b)
    BY <1>6 DEF Known
  <2>2. ASSUME NEW n \in DOMAIN net', Oldest(b, n)' PROVE net'[n].on <=> last_change'[b] = None
    <3>1. n + 1 \in DOMAIN net /\ net'[n] = net[n + 1]
      BY <1>4
    <3>2. CASE c = b
      <4>1. (net[n + 1].on <=> ~on) /\ (last_change[b] = None <=> on)
        BY <1>1, <1>3, <1>4, <2>1, <2>2, <3>1, <3>2 DEF Alternate
      <4>2. last_change'[b] = None <=> ~on
        BY <3>2, ButtonFacts
      <4> QED BY <3>1, <4>1, <4>2
    <3>3. CASE c # b
      BY <1>4, <2>1, <2>2, <3>1, <3>3 DEF Alternate
    <3> QED BY <3>2, <3>3
  <2>3. ASSUME NEW n \in DOMAIN net', Newest(b, n)' PROVE net'[n].on <=> pressed'[b]
    BY <1>2, <1>4, <2>1, <2>3 DEF Alternate
  <2>4. ASSUME NEW n \in DOMAIN net', NEW k \in DOMAIN net', Pair(b, k, n)'
        PROVE  net'[n].on <=> ~net'[k].on
    BY <1>4, <2>1, <2>4 DEF Alternate
  <2>5. ASSUME Quiet(b)' PROVE pressed'[b] <=> last_change'[b] # None
    <3>1. CASE c = b
      <4>1. on <=> pressed[b]
        BY <1>1, <1>3, <2>1, <2>5, <3>1 DEF Alternate
      <4>2. last_change'[b] = None <=> ~on
        BY <3>1, ButtonFacts
      <4> QED BY <1>2, <4>1, <4>2
    <3>2. CASE c # b
      BY <1>2, <1>3, <2>1, <2>5, <3>2 DEF Alternate
    <3> QED BY <3>1, <3>2
  <2> QED BY <2>2, <2>3, <2>4, <2>5 DEF Alternate
<1>7. ASSUME faults = 0 PROVE Measured(b)'
  <2>1. Alternate(b) /\ Measured(b)
    BY <1>7 DEF Known
  <2>2. ASSUME NEW n \in DOMAIN net', Oldest(b, n)', ~net'[n].on
        PROVE  NotShort(last_change'[b], net'[n].held + net'[n].age)
    <3>1. CASE c = b
      <4>1. Pair(b, 1, n + 1) /\ n + 1 \in DOMAIN net /\ net'[n] = net[n + 1]
        BY <1>4, <2>2, <3>1
      <4>2. net[1].on
        BY <1>3, <2>1, <2>2, <4>1 DEF Alternate
      <4>3. net[n + 1].held + net[n + 1].age <= net[1].age
        BY <1>3, <2>1, <4>1, <4>2 DEF Measured
      <4> QED BY <1>1, <1>3, <1>5, <3>1, <4>1, <4>2, <4>3, ButtonFacts DEF NotShort
    <3>2. CASE c # b
      BY <1>4, <2>1, <2>2, <3>2 DEF Measured
    <3> QED BY <3>1, <3>2
  <2>3. ASSUME NEW n \in DOMAIN net', Newest(b, n)', net'[n].on
        PROVE  since'[b] <= net'[n].age
    BY <1>2, <1>4, <2>1, <2>3 DEF Measured
  <2>4. ASSUME NEW n \in DOMAIN net', NEW k \in DOMAIN net', Pair(b, k, n)', net'[k].on
        PROVE  net'[n].held + net'[n].age <= net'[k].age
    BY <1>4, <2>1, <2>4 DEF Measured
  <2>5. ASSUME Quiet(b)', pressed'[b] PROVE NotShort(last_change'[b], since'[b])
    <3>1. CASE c = b
      <4>1. net[1].on
        BY <1>2, <1>3, <2>1, <2>5, <3>1 DEF Alternate
      <4>2. since[b] <= net[1].age
        BY <1>3, <2>1, <2>5, <3>1, <4>1 DEF Measured
      <4> QED BY <1>1, <1>2, <1>3, <1>5, <3>1, <4>1, <4>2, ButtonFacts DEF NotShort
    <3>2. CASE c # b
      BY <1>2, <1>3, <2>1, <2>5, <3>2 DEF Measured
    <3> QED BY <3>1, <3>2
  <2> QED BY <2>2, <2>3, <2>4, <2>5 DEF Measured
<1>8. ASSUME faults <= 1 PROVE NoOlder(b)'
  <2>1. NoOlder(b)
    BY <1>8 DEF Known
  <2>2. ASSUME NEW n \in DOMAIN net', Oldest(b, n)', ~net'[n].on
        PROVE  NotLong(last_change'[b], net'[n].held + net'[n].age, net'[n].held)
    <3>1. n + 1 \in DOMAIN net /\ net'[n] = net[n + 1] /\ (c # b => Oldest(b, n + 1))
      BY <1>4, <2>2
    <3> QED BY <2>1, <2>2, <3>1, ButtonFacts DEF NoOlder, NotLong
  <2>3. ASSUME Quiet(b)', pressed'[b] PROVE NotLong(last_change'[b], since'[b], since'[b])
    BY <1>2, <1>3, <2>1, <2>3, ButtonFacts DEF NoOlder, NotLong
  <2> QED BY <2>2, <2>3 DEF NoOlder
<1> QED BY <1>2, <1>6, <1>7, <1>8 DEF Known

\* A datagram is lost or duplicated: the first fault.
LEMMA KnownLost ==
  ASSUME TypeOK, Lose, NEW b \in Long, Known(b)
  PROVE  Known(b)'
<1>1. net # <<>> /\ net' = Tail(net)
  BY DEF Lose, Lost
<1>2. pressed' = pressed /\ since' = since /\ faults' = faults + 1 /\ last_change' = last_change
  BY DEF Lose, Lost, Fault, wall, server
<1>3. /\ 1 \in DOMAIN net
      /\ net[1].id = b => Oldest(b, 1)
      /\ Quiet(b)' => IF net[1].id = b THEN Newest(b, 1) ELSE Quiet(b)
      /\ \A n \in DOMAIN net':
           /\ n + 1 \in DOMAIN net /\ net'[n] = net[n + 1]
           /\ Oldest(b, n)' => IF net[1].id = b THEN Pair(b, 1, n + 1) ELSE Oldest(b, n + 1)
  BY <1>1, PlacesTaken
<1>4. ASSUME faults = 0 PROVE NoOlder(b)'
  <2>1. Alternate(b) /\ NoOlder(b)
    BY <1>4 DEF Known
  <2> QED BY <1>1, <1>2, <1>3, <2>1, ButtonFacts DEF Alternate, NoOlder, NotLong
<1> QED BY <1>2, <1>4, ButtonFacts DEF Known

LEMMA KnownDuplicated ==
  ASSUME TypeOK, Duplicate, NEW b \in Long, Known(b)
  PROVE  Known(b)'
<1>1. pressed' = pressed /\ since' = since /\ faults' = faults + 1 /\ last_change' = last_change
  BY DEF Duplicate, Fault, wall, server
<1>2. /\ DOMAIN net' = 1..Len(net) + 1 /\ DOMAIN net = 1..Len(net) /\ Len(net) \in Nat \ {0}
      /\ net'[1] = net[1] /\ \A n \in 1..Len(net): net'[n + 1] = net[n]
  BY DEF Duplicate, TypeOK
<1>3. Quiet(b)' => Quiet(b)
  <2> SUFFICES ASSUME Quiet(b)', NEW n \in DOMAIN net PROVE net[n].id # b
    BY DEF Quiet
  <2>1. n + 1 \in DOMAIN net' /\ net'[n + 1] = net[n]
    BY <1>2
  <2> QED BY <2>1 DEF Quiet
<1>4. ASSUME NEW n \in DOMAIN net', Oldest(b, n)'
      PROVE  \E j \in DOMAIN net: net[j] = net'[n] /\ Oldest(b, j)
  <2>1. CASE n = 1
    BY <1>2, <1>4, <2>1 DEF Oldest
  <2>2. CASE n # 1
    <3>1. n - 1 \in DOMAIN net /\ net'[n] = net[n - 1]
      BY <1>2, <2>2
    <3>2. ASSUME NEW k \in 1..n - 2 PROVE net[k].id # b
      <4>1. k + 1 \in 1..n - 1 /\ net'[k + 1] = net[k]
        BY <1>2
      <4> QED BY <1>4, <4>1 DEF Oldest
    <3> QED BY <1>2, <1>4, <3>1, <3>2 DEF Oldest
  <2> QED BY <2>1, <2>2
<1>5. ASSUME faults = 0 PROVE NoOlder(b)'
  <2>1. NoOlder(b)
    BY <1>5 DEF Known
  <2>2. ASSUME NEW n \in DOMAIN net', Oldest(b, n)', ~net'[n].on
        PROVE  NotLong(last_change'[b], net'[n].held + net'[n].age, net'[n].held)
    BY <1>1, <1>4, <2>1, <2>2 DEF NoOlder
  <2> QED BY <1>1, <1>3, <2>1, <2>2 DEF NoOlder
<1> QED BY <1>1, <1>5, ButtonFacts DEF Known

\* One datagram overtakes another: where it is of the same button, what comes first
\* now was told by the one before it.
LEMMA KnownOvertaken ==
  ASSUME TypeOK, Overtake, NEW b \in Long, Known(b)
  PROVE  Known(b)'
<1>1. pressed' = pressed /\ since' = since /\ faults' = faults + 1 /\ last_change' = last_change
  BY DEF Overtake, Fault, wall, server
<1>2. /\ DOMAIN net' = DOMAIN net /\ 1 \in DOMAIN net /\ 2 \in DOMAIN net
      /\ DOMAIN net \subseteq Nat \ {0}
      /\ net'[1] = net[2] /\ net'[2] = net[1]
      /\ \A n \in DOMAIN net \ {1, 2}: net'[n] = net[n]
  BY Swapped
<1>3. Quiet(b)' => Quiet(b)
  <2> SUFFICES ASSUME Quiet(b)', NEW n \in DOMAIN net PROVE net[n].id # b
    BY DEF Quiet
  <2>1. \E k \in DOMAIN net': net'[k] = net[n]
    BY <1>2
  <2> QED BY <2>1 DEF Quiet
<1>4. ASSUME faults = 0, NEW n \in DOMAIN net', Oldest(b, n)', ~net'[n].on
      PROVE  NotLong(last_change[b], net'[n].held + net'[n].age, net'[n].held)
  <2>1. Alternate(b) /\ NoOlder(b) /\ net'[n].id = b /\ \A k \in 1..n - 1: net'[k].id # b
    BY <1>4 DEF Known, Oldest
  <2>2. CASE n = 1 /\ net[1].id = b
    <3>1. Oldest(b, 1) /\ Pair(b, 1, 2)
      BY <2>1, <2>2, <1>2 DEF Oldest, Pair
    <3>2. net[1].on
      BY <1>2, <1>4, <2>1, <2>2, <3>1, ButtonFacts DEF Alternate
    <3> QED BY <1>2, <2>1, <3>1, <3>2 DEF Alternate, NotLong
  <2>3. CASE n = 1 /\ net[1].id # b
    <3>1. Oldest(b, 2)
      BY <1>2, <2>1, <2>3 DEF Oldest
    <3> QED BY <1>2, <1>4, <2>1, <2>3, <3>1 DEF NoOlder
  <2>4. CASE n = 2
    <3>1. Oldest(b, 1)
      BY <1>2, <2>1, <2>4 DEF Oldest
    <3> QED BY <1>2, <1>4, <2>1, <2>4, <3>1 DEF NoOlder
  <2>5. CASE n \notin {1, 2}
    <3>1. net'[n] = net[n] /\ n > 2 /\ n \in Nat
      BY <1>2, <2>5
    <3>2. ASSUME NEW k \in 1..n - 1 PROVE net[k].id # b
      <4>1. 1 \in 1..n - 1 /\ 2 \in 1..n - 1
        BY <3>1
      <4>2. CASE k \in {1, 2}
        BY <1>2, <2>1, <4>1, <4>2
      <4>3. CASE k \notin {1, 2}
        <5>1. k \in DOMAIN net
          BY <1>2, <3>1 DEF TypeOK
        <5> QED BY <1>2, <2>1, <4>3, <5>1
      <4> QED BY <4>2, <4>3
    <3>3. Oldest(b, n)
      BY <2>1, <3>1, <3>2 DEF Oldest
    <3> QED BY <1>2, <1>4, <2>1, <3>1, <3>3 DEF NoOlder
  <2> QED BY <2>2, <2>3, <2>4, <2>5
<1>5. ASSUME faults = 0 PROVE NoOlder(b)'
  <2>1. NoOlder(b)
    BY <1>5 DEF Known
  <2> QED BY <1>1, <1>3, <1>4, <1>5, <2>1 DEF NoOlder
<1> QED BY <1>1, <1>5, ButtonFacts DEF Known

\* Time passes: what is remembered grows no slower than what it is compared with.
LEMMA KnownTicked ==
  ASSUME TypeOK, Tick, running, Prompt, NEW b \in Long, Known(b)
  PROVE  Prompt' /\ Known(b)'
<1>1. /\ pressed' = pressed /\ faults' = faults /\ since'[b] = Older(since[b])
      /\ last_change'[b] = IF last_change[b] = None THEN None ELSE Older(last_change[b])
      /\ DOMAIN net' = DOMAIN net /\ Len(net') = Len(net)
  BY ButtonFacts DEF Tick, TypeOK
<1>2. ASSUME NEW n \in DOMAIN net
      PROVE  /\ net'[n].id = net[n].id /\ net'[n].on = net[n].on /\ net'[n].held = net[n].held
             /\ net[n].age < Jitter /\ net'[n].age = net[n].age + 1
  <2>1. net[n] \in Datagram /\ net'[n] = [net[n] EXCEPT !.age = Older(net[n].age)]
    BY DEF TypeOK, Tick
  <2>2. net[n].age < Jitter
    BY DEF Tick, Timely
  <2> QED BY <2>1, <2>2, CapFacts DEF Datagram, Older, Age
<1>3. Prompt'
  BY <1>1, <1>2, ButtonFacts DEF Prompt
<1>4. ASSUME NEW n \in DOMAIN net
      PROVE  /\ Oldest(b, n)' => Oldest(b, n)
             /\ Newest(b, n)' => Newest(b, n)
             /\ \A k \in DOMAIN net: Pair(b, k, n)' => Pair(b, k, n)
  <2>1. DOMAIN net = 1..Len(net) /\ Len(net) \in Nat
    BY DEF TypeOK
  <2>2. Oldest(b, n)' => Oldest(b, n)
    BY <1>1, <1>2, <2>1 DEF Oldest
  <2>3. Newest(b, n)' => Newest(b, n)
    BY <1>1, <1>2, <2>1 DEF Newest
  <2>4. ASSUME NEW k \in DOMAIN net PROVE Pair(b, k, n)' => Pair(b, k, n)
    <3>1. \A j \in k + 1..n - 1: j \in DOMAIN net
      BY <2>1
    <3> QED BY <1>1, <1>2, <2>1, <3>1 DEF Pair
  <2> QED BY <2>2, <2>3, <2>4
<1>5. Quiet(b)' => Quiet(b)
  BY <1>1, <1>2 DEF Quiet
<1>6. last_change[b] # None => last_change'[b] # None
  BY <1>1, ButtonFacts, CapFacts DEF Age
<1>7. ASSUME faults = 0 PROVE Alternate(b)'
  <2>1. Alternate(b)
    BY <1>7 DEF Known
  <2> QED BY <1>1, <1>2, <1>4, <1>5, <1>6, <2>1 DEF Alternate
<1>8. ASSUME faults = 0 PROVE Measured(b)'
  <2>1. Alternate(b) /\ Measured(b)
    BY <1>8 DEF Known
  <2>2. ASSUME NEW last, last = last_change[b], last # None,
               NEW age \in Nat, NEW older \in Nat, older <= age + 1, NotShort(last, age)
        PROVE  NotShort(last_change'[b], older)
    BY <1>1, <2>2, ButtonFacts DEF NotShort, Older, Cap
  <2>3. ASSUME NEW n \in DOMAIN net', Oldest(b, n)', ~net'[n].on
        PROVE  NotShort(last_change'[b], net'[n].held + net'[n].age)
    <3>1. last_change[b] # None /\ NotShort(last_change[b], net[n].held + net[n].age)
      BY <1>1, <1>2, <1>4, <2>1, <2>3 DEF Alternate, Measured
    <3> QED BY <1>1, <1>2, <2>2, <3>1, ButtonFacts
  <2>4. ASSUME NEW n \in DOMAIN net', Newest(b, n)', net'[n].on PROVE since'[b] <= net'[n].age
    BY <1>1, <1>2, <1>4, <2>1, <2>4, ButtonFacts DEF Measured, Older
  <2>5. ASSUME NEW n \in DOMAIN net', NEW k \in DOMAIN net', Pair(b, k, n)', net'[k].on
        PROVE  net'[n].held + net'[n].age <= net'[k].age
    <3>1. net[n].held + net[n].age <= net[k].age
      BY <1>1, <1>2, <1>4, <2>1, <2>5 DEF Measured
    <3> QED BY <1>1, <1>2, <3>1, ButtonFacts
  <2>6. ASSUME Quiet(b)', pressed'[b] PROVE NotShort(last_change'[b], since'[b])
    <3>1. last_change[b] # None /\ NotShort(last_change[b], since[b])
      BY <1>1, <1>5, <2>1, <2>6 DEF Alternate, Measured
    <3>2. since'[b] \in Nat /\ since'[b] <= since[b] + 1
      BY <1>1, ButtonFacts DEF Older
    <3> QED BY <2>2, <3>1, <3>2, ButtonFacts
  <2> QED BY <2>3, <2>4, <2>5, <2>6 DEF Measured
<1>9. ASSUME faults <= 1 PROVE NoOlder(b)'
  <2>1. NoOlder(b)
    BY <1>9 DEF Known
  <2>2. ASSUME NEW n \in DOMAIN net', Oldest(b, n)', ~net'[n].on
        PROVE  NotLong(last_change'[b], net'[n].held + net'[n].age, net'[n].held)
    <3>1. NotLong(last_change[b], net[n].held + net[n].age, net[n].held)
      BY <1>1, <1>2, <1>4, <2>1, <2>2 DEF NoOlder
    <3> QED BY <1>1, <1>2, <3>1, ButtonFacts DEF NotLong, Older
  <2>3. ASSUME Quiet(b)', pressed'[b] PROVE NotLong(last_change'[b], since'[b], since'[b])
    <3>1. NotLong(last_change[b], since[b], since[b])
      BY <1>1, <1>5, <2>1, <2>3 DEF NoOlder
    <3> QED BY <1>1, <3>1, ButtonFacts, CapFacts DEF NotLong, Older
  <2> QED BY <2>2, <2>3 DEF NoOlder
<1> QED BY <1>1, <1>3, <1>7, <1>8, <1>9 DEF Known

-----------------------------------------------------------------------------
(***************************************************************************)
(* No press is misjudged.                                                  *)
(***************************************************************************)
Fair(e) ==
  /\ e.action.action = SetValue(IntVal(1)) => e.held < Threshold + Jitter \/ faults >= 1
  /\ e.action.action = SetValue(IntVal(2)) => e.held >= Threshold - Jitter \/ faults >= 2

\* A step that brings no new event and takes no fault back leaves all of them fair.
LEMMA ClassifiedKept ==
  ASSUME Classified, Judged' \subseteq Judged, faults \in Nat, faults' \in Nat, faults' >= faults
  PROVE  Classified'
<1> SUFFICES ASSUME NEW e \in Judged' PROVE Fair(e)'
  BY DEF Classified, Fair
<1>1. Fair(e)
  BY DEF Classified, Fair
<1> QED BY <1>1 DEF Fair

LEMMA ClassifiedSame ==
  ASSUME TypeOK, Classified, UNCHANGED <<event, rxInput>>, faults' \in Nat, faults' >= faults
  PROVE  Classified'
BY ClassifiedKept DEF Judged, TypeOK

\* What Known says of a release that is handled.
LEMMA ReleaseFair ==
  ASSUME IInv, NEW b \in Long, RecvRelease(b),
         NEW e, e = InputEvent([id |-> b, value |-> LongPress(b), held |-> Head(net).held])
  PROVE  Fair(e)
<1>1. running /\ Head(net) = net[1] /\ net[1].id = b /\ ~net[1].on /\ net # <<>>
  BY OnTheirWay DEF RecvRelease, Receive, IInv
<1>2. 1 \in DOMAIN net /\ Oldest(b, 1)
  BY <1>1, OnTheirWay DEF IInv, TypeOK, Oldest
<1>3. Known(b) /\ net[1].age <= Jitter
  BY <1>1, <1>2 DEF IInv, Prompt
<1>4. e.held = net[1].held /\ e.action.action = SetValue(LongPress(b))
  BY <1>1 DEF InputEvent
<1>5. ASSUME LongPress(b) = IntVal(1), faults = 0 PROVE net[1].held < Threshold + Jitter
  <2>1. Alternate(b) /\ Measured(b)
    BY <1>3, <1>5 DEF Known
  <2>2. last_change[b] # None /\ NotShort(last_change[b], net[1].held + net[1].age)
    BY <1>1, <1>2, <2>1 DEF Alternate, Measured
  <2>3. last_change[b] < Threshold
    BY <1>5, <2>2 DEF LongPress, IntVal
  <2> QED BY <1>2, <2>2, <2>3, ButtonFacts DEF NotShort, IInv
<1>6. ASSUME LongPress(b) = IntVal(2), faults <= 1 PROVE net[1].held >= Threshold - Jitter
  <2>1. NoOlder(b)
    BY <1>3, <1>6 DEF Known
  <2>2. last_change[b] # None /\ ~(last_change[b] < Threshold)
    BY <1>6 DEF LongPress, IntVal
  <2>3. NotLong(last_change[b], net[1].held + net[1].age, net[1].held)
    BY <1>1, <1>2, <2>1 DEF NoOlder
  <2> QED BY <1>2, <1>3, <2>2, <2>3, ButtonFacts DEF NotLong, IInv
<1>7. faults \in Nat
  BY DEF IInv, TypeOK
<1> QED BY <1>4, <1>5, <1>6, <1>7 DEF Fair, SetValue

LEMMA ClassifiedReleased ==
  ASSUME IInv, NEW b \in Long, RecvRelease(b)
  PROVE  Classified'
<1>1. rxInput' = rxInput /\ faults' = faults
  BY DEF RecvRelease, Receive
<1>2. event' = <<[id |-> b, value |-> LongPress(b), held |-> Head(net).held]>>
  BY DEF RecvRelease, Emit
<1>3. ASSUME NEW e \in Judged'
      PROVE  e \in Judged \/ e = InputEvent([id |-> b, value |-> LongPress(b), held |-> Head(net).held])
  BY <1>1, <1>2 DEF Judged, ToSet
<1>4. ASSUME NEW e \in Judged' PROVE Fair(e)'
  BY <1>1, <1>3, ReleaseFair DEF Fair, IInv, Classified
<1> QED BY <1>4 DEF Classified, Fair

LEMMA ClassifiedPlain ==
  ASSUME IInv, NEW b \in Plain, NEW on \in BOOLEAN, RecvPlain(b, on)
  PROVE  Classified'
<1>1. rxInput' = rxInput /\ faults' = faults /\ faults \in Nat
  BY DEF RecvPlain, Receive, IInv, TypeOK
<1>2. event' = <<[id |-> b, value |-> BoolVal(on), held |-> Head(net).held]>>
  BY DEF RecvPlain, Emit
<1>3. InputEvent([id |-> b, value |-> BoolVal(on), held |-> Head(net).held]).action.id \notin Long
  BY DEF InputEvent
<1>4. Judged' \subseteq Judged
  BY <1>1, <1>2, <1>3 DEF Judged, ToSet
<1> QED BY <1>1, <1>4, ClassifiedKept DEF IInv

LEMMA ClassifiedSent ==
  ASSUME IInv, Send
  PROVE  Classified'
<1>1. event # <<>> /\ event' = <<>> /\ faults' = faults /\ faults \in Nat
  BY DEF Send, IInv, TypeOK
<1>2. 1 \in DOMAIN event /\ rxInput' = Append(rxInput, InputEvent(event[1]))
  BY <1>1 DEF Send, IInv, TypeOK
<1>3. ToSet(rxInput') \subseteq ToSet(rxInput) \cup {InputEvent(event[1])}
  <2>1. rxInput \in Seq(Message)
    BY DEF IInv, TypeOK
  <2> QED BY <1>2, <2>1 DEF ToSet
<1>4. Judged' \subseteq Judged
  BY <1>1, <1>2, <1>3 DEF Judged, ToSet
<1> QED BY <1>1, <1>4, ClassifiedKept DEF IInv

LEMMA ClassifiedDropped ==
  ASSUME IInv, event' = <<>> \/ event' = event, rxInput' = <<>> \/ (rxInput # <<>> /\ rxInput' = Tail(rxInput)),
         faults' \in Nat, faults' >= faults
  PROVE  Classified'
<1>1. ToSet(rxInput') \subseteq ToSet(rxInput)
  <2>1. rxInput \in Seq(Message)
    BY DEF IInv, TypeOK
  <2> QED BY <2>1 DEF ToSet
<1>2. ToSet(event') \subseteq ToSet(event)
  BY DEF ToSet
<1>3. Judged' \subseteq Judged
  BY <1>1, <1>2 DEF Judged
<1> QED BY <1>3, ClassifiedKept DEF IInv, TypeOK

LEMMA IInvInit == Init => IInv
<1> SUFFICES ASSUME Init PROVE IInv
  OBVIOUS
<1>1. TypeOK
  BY TypeInit
<1>2. Classified
  BY DEF Init, Classified, Judged, ToSet
<1>3. Prompt
  BY DEF Init, Prompt
<1>4. ASSUME NEW b \in Long PROVE Known(b)
  <2>1. ~pressed[b] /\ last_change[b] = None /\ DOMAIN net = {}
    BY DEF Init, Button
  <2> QED BY <2>1 DEF Known, Alternate, Measured, NoOlder
<1> QED BY <1>1, <1>2, <1>3, <1>4 DEF IInv

\* The part of IInv about what is under way, for the steps that change it.
LEMMA KnownNext ==
  ASSUME IInv, [Next]_vars, running'
  PROVE  Prompt' /\ \A b \in Long: Known(b)'
<1> SUFFICES ASSUME NEW b PROVE Prompt' /\ (b \in Long => Known(b)')
  OBVIOUS
<1>0. TypeOK /\ (running => Prompt /\ (b \in Long => Known(b)))
  BY DEF IInv
<1>1. ASSUME NEW c \in Button, Push(c) PROVE Prompt' /\ (b \in Long => Known(b)')
  <2> DEFINE d == [id |-> c, on |-> ~pressed[c], age |-> 0, held |-> since[c]]
  <2>1. d \in Datagram /\ d.age <= Jitter
    BY <1>0, <1>1, CapFacts DEF TypeOK, Datagram, Age
  <2>2. running /\ net' = Append(net, d)
    BY <1>1 DEF Push, server
  <2>3. Prompt'
    <3> HIDE DEF d
    <3> QED BY <1>0, <2>1, <2>2, Sent DEF Prompt
  <2> QED BY <1>0, <1>1, <2>2, <2>3, KnownSent
<1>2. ASSUME NEW c \in Button, NEW on \in BOOLEAN, Receive(c, on),
             b \in Long => last_change'[b] = IF c # b THEN last_change[b] ELSE IF on THEN 0 ELSE None
      PROVE  Prompt' /\ (b \in Long => Known(b)')
  <2>1. running /\ net # <<>> /\ net' = Tail(net)
    BY <1>2 DEF Receive
  <2>2. Prompt'
    BY <1>0, <2>1, Taken DEF Prompt
  <2> QED BY <1>0, <1>2, <2>1, <2>2, KnownTaken
<1>3. CASE Lose
  <2>1. running /\ net # <<>> /\ net' = Tail(net)
    BY <1>3 DEF Lose, Lost, server
  <2>2. Prompt'
    BY <1>0, <2>1, Taken DEF Prompt
  <2> QED BY <1>0, <1>3, <2>1, <2>2, KnownLost
<1>4. CASE Duplicate
  <2>1. running
    BY <1>4 DEF Duplicate, server
  <2>2. /\ DOMAIN net' = 1..Len(net) + 1 /\ DOMAIN net = 1..Len(net) /\ Len(net) \in Nat \ {0}
        /\ net'[1] = net[1] /\ \A n \in 1..Len(net): net'[n + 1] = net[n]
    BY <1>0, <1>4 DEF Duplicate, TypeOK
  <2>3. ASSUME NEW n \in DOMAIN net' PROVE \E j \in DOMAIN net: net'[n] = net[j]
    <3>1. n = 1 \/ (n - 1 \in DOMAIN net /\ net'[n] = net[n - 1])
      BY <2>2
    <3> QED BY <2>2, <3>1
  <2>4. Prompt'
    BY <1>0, <2>1, <2>3 DEF Prompt
  <2> QED BY <1>0, <1>4, <2>1, <2>4, KnownDuplicated
<1>12. CASE Overtake
  <2>1. running
    BY <1>12 DEF Overtake, server
  <2>2. \A n \in DOMAIN net': \E j \in DOMAIN net: net'[n] = net[j]
    BY <1>0, <1>12, Swapped
  <2>3. Prompt'
    BY <1>0, <2>1, <2>2 DEF Prompt
  <2> QED BY <1>0, <1>12, <2>1, <2>3, KnownOvertaken
<1>5. CASE Restart
  <2>1. faults' # 0 /\ DOMAIN net' = {} /\ (b \in Long => last_change'[b] = None)
    BY <1>0, <1>5 DEF Restart, Renewed, Fault, TypeOK
  <2> QED BY <2>1 DEF Prompt, Known, NoOlder, NotLong
<1>6. CASE Tick
  <2>1. running
    BY <1>6 DEF Tick
  <2>2. Prompt'
    <3>1. ASSUME NEW n \in DOMAIN net PROVE net'[n].age <= Jitter
      <4>1. net[n] \in Datagram /\ net'[n] = [net[n] EXCEPT !.age = Older(net[n].age)]
        BY <1>0, <1>6 DEF TypeOK, Tick
      <4>2. net[n].age < Jitter
        BY <1>6, <2>1 DEF Tick, Timely
      <4> QED BY <4>1, <4>2, CapFacts DEF Datagram, Older, Age
    <3> QED BY <1>6, <3>1 DEF Prompt, Tick
  <2> QED BY <1>0, <1>6, <2>1, <2>2, KnownTicked
<1>7. CASE UNCHANGED <<pressed, since, net, last_change, faults>> /\ running
  <2>1. Prompt'
    BY <1>0, <1>7 DEF Prompt
  <2>2. b \in Long => Known(b)'
    BY <1>0, <1>7
    DEF Known, Alternate, Measured, NoOlder, Quiet, Oldest, Newest, Pair
  <2> QED BY <2>1, <2>2
<1>8. ASSUME NEW c \in Plain, NEW on \in BOOLEAN, RecvPlain(c, on) PROVE Prompt' /\ (b \in Long => Known(b)')
  <2>1. c \in Button /\ (b \in Long => c # b) /\ last_change' = last_change /\ Receive(c, on)
    BY <1>8 DEF RecvPlain, Button
  <2> QED BY <1>2, <2>1
<1>9. ASSUME NEW c \in Long, RecvPress(c) PROVE Prompt' /\ (b \in Long => Known(b)')
  <2>1. /\ c \in Button /\ Receive(c, TRUE)
        /\ b \in Long => last_change'[b] = IF c # b THEN last_change[b] ELSE 0
    BY <1>0, <1>9 DEF RecvPress, Button, TypeOK
  <2> QED BY <1>2, <2>1
<1>10. ASSUME NEW c \in Long, RecvRelease(c) PROVE Prompt' /\ (b \in Long => Known(b)')
  <2>1. /\ c \in Button /\ Receive(c, FALSE)
        /\ b \in Long => last_change'[b] = IF c # b THEN last_change[b] ELSE None
    BY <1>0, <1>10 DEF RecvRelease, Button, TypeOK
  <2> QED BY <1>2, <2>1
<1>11. CASE Send \/ Unreadable \/ TakeInput \/ UNCHANGED vars
  BY <1>7, <1>11 DEF Send, Unreadable, TakeInput, vars, wall, server
<1> QED BY <1>1, <1>3, <1>4, <1>12, <1>5, <1>6, <1>8, <1>9, <1>10, <1>11 DEF Next

LEMMA ClassifiedNext ==
  ASSUME IInv, [Next]_vars
  PROVE  Classified'
<1>0. TypeOK /\ Classified /\ faults \in Nat
  BY DEF IInv, TypeOK
<1>1. ASSUME NEW c \in Button, Push(c) PROVE Classified'
  BY <1>0, <1>1, ClassifiedSame DEF Push, server
<1>2. CASE Lose \/ Duplicate \/ Overtake
  BY <1>0, <1>2, ClassifiedSame DEF Lose, Lost, Duplicate, Overtake, Fault, server
<1>3. ASSUME NEW c \in Plain, NEW on \in BOOLEAN, RecvPlain(c, on) PROVE Classified'
  BY <1>3, ClassifiedPlain
<1>4. ASSUME NEW c \in Long, RecvPress(c) PROVE Classified'
  BY <1>0, <1>4, ClassifiedSame DEF RecvPress, Receive
<1>5. ASSUME NEW c \in Long, RecvRelease(c) PROVE Classified'
  BY <1>5, ClassifiedReleased
<1>6. CASE Send
  BY <1>6, ClassifiedSent
<1>7. CASE Unreadable \/ TakeInput
  BY <1>0, <1>7, ClassifiedDropped DEF Unreadable, TakeInput
<1>8. CASE Restart
  BY <1>0, <1>8, ClassifiedDropped DEF Restart, Renewed, Fault
<1>9. CASE Tick \/ UNCHANGED vars
  BY <1>0, <1>9, ClassifiedSame DEF Tick, vars, server
<1> QED BY <1>1, <1>2, <1>3, <1>4, <1>5, <1>6, <1>7, <1>8, <1>9 DEF Next

LEMMA IInvNext == IInv /\ [Next]_vars => IInv'
BY TypeNext, KnownNext, ClassifiedNext DEF IInv

\* What is under way tells how a button was pressed, in every state.
THEOREM Invariance == Spec => []IInv
<1> QED BY IInvInit, IInvNext, PTL DEF Spec

\* A press is called long or short as it was, up to Jitter: one lost, repeated,
\* overtaken or forgotten datagram may make a long press short, and only two a short one long.
THEOREM PressesClassified == Spec => []Classified
<1>1. IInv => Classified
  BY DEF IInv
<1> QED BY <1>1, Invariance, PTL
=============================================================================
