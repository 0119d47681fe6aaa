------------------------------ MODULE MainServer ------------------------------
(***************************************************************************)
(* The main server (core/src/main_server.rs): the PLCs send a datagram for *)
(* each press and each release of a button, and the server turns them into *)
(* input events.  A long button yields one event per release, whose value  *)
(* says how long it was held by the server's own clock: what passed        *)
(* between the handling of the two datagrams.                              *)
(* Time is kept as ages that are not counted beyond Cap.                   *)
(***************************************************************************)
EXTENDS Updates, SequencesExt

CONSTANTS
  Plain,        \* ids of the WIDigitalBP inputs
  Long,         \* ids of the WIDigitalLong inputs
  None,         \* no instant
  Threshold,    \* 400 ms, in ticks
  Jitter,       \* the longest a datagram waits before it is handled
  NetSize,      \* bound of the datagrams on their way
  Capacity,     \* CHANNEL_CAPACITY, of the input channel
  MaxFaults     \* bound of the faults of the network and of the server

Button == Plain \cup Long
Cap == Threshold + Jitter

ASSUME IdsAssumption == Plain \cap Long = {}
ASSUME TimesAssumption == Threshold \in Nat /\ Jitter \in Nat /\ None \notin 0..Cap
ASSUME SizesAssumption == {NetSize, Capacity} \subseteq Nat \ {0} /\ MaxFaults \in Nat

VARIABLES
  pressed, since,   \* the buttons, and how long they have been so
  net,              \* datagrams: [id, on, age], and how long the button was held
  last_change,      \* age of the press a long button is remembered for
  event,            \* the event run() is sending, if any
  rxInput,          \* the input channel
  raw,              \* the last raw state broadcast for each input
  running,          \* run() has not returned
  faults            \* history: what the network and the server have lost

wall   == <<pressed, since>>
server == <<last_change, event, rxInput, raw, running>>
vars == <<wall, net, server, faults>>

Older(n) == IF n < Cap THEN n + 1 ELSE n

Init ==
  /\ pressed = [b \in Button |-> FALSE]
  /\ since = [b \in Button |-> Cap]
  /\ net = <<>>
  /\ last_change = [b \in Long |-> None]
  /\ event = <<>> /\ rxInput = <<>>
  /\ raw = [b \in Button |-> FALSE]
  /\ running = TRUE /\ faults = 0

(***************************************************************************)
(* The buttons and the network.                                            *)
(***************************************************************************)
Push(b) ==
  /\ Len(net) < NetSize
  /\ pressed' = [pressed EXCEPT ![b] = ~@]
  /\ since' = [since EXCEPT ![b] = 0]
  /\ net' = Append(net, [id |-> b, on |-> ~pressed[b], age |-> 0, held |-> since[b]])
  /\ UNCHANGED <<server, faults>>

Fault == faults < MaxFaults /\ faults' = faults + 1

Lost ==
  /\ net # <<>>
  /\ net' = Tail(net)
  /\ UNCHANGED <<wall, server>>

Lose == Fault /\ Lost

Duplicate ==
  /\ Fault /\ net # <<>> /\ Len(net) < NetSize
  /\ net' = <<Head(net)>> \o net
  /\ UNCHANGED <<wall, server>>

\* One overtakes the one before it.
Overtake ==
  /\ Fault /\ Len(net) > 1
  /\ net' = [net EXCEPT ![1] = net[2], ![2] = net[1]]
  /\ UNCHANGED <<wall, server>>

(***************************************************************************)
(* run().                                                                  *)
(***************************************************************************)
\* The value of a release; without a press it counts as short.
LongPress(b) ==
  IF last_change[b] = None \/ last_change[b] < Threshold THEN IntVal(1) ELSE IntVal(2)

\* Mutant: the press of a long button is not broadcast.
ReceiveQuietly(b, on) ==
  /\ running /\ event = <<>> /\ net # <<>>
  /\ Head(net).id = b /\ Head(net).on = on
  /\ net' = Tail(net)
  /\ raw' = IF b \in Long /\ on THEN raw ELSE [raw EXCEPT ![b] = on]
  /\ UNCHANGED <<wall, rxInput, running, faults>>

\* async_udp_read, and the broadcast of the raw state.
Receive(b, on) ==
  /\ running /\ event = <<>> /\ net # <<>>
  /\ Head(net).id = b /\ Head(net).on = on
  /\ net' = Tail(net)
  /\ raw' = [raw EXCEPT ![b] = on]
  /\ UNCHANGED <<wall, rxInput, running, faults>>

Emit(b, v) == event' = <<[id |-> b, value |-> v, held |-> Head(net).held]>>

RecvPlain(b, on) ==
  /\ Receive(b, on)
  /\ Emit(b, BoolVal(on))
  /\ UNCHANGED last_change

\* Mutant: only the first press is remembered.
RecvPressOnce(b) ==
  /\ Receive(b, TRUE)
  /\ last_change' = IF last_change[b] = None THEN [last_change EXCEPT ![b] = 0] ELSE last_change
  /\ UNCHANGED event

RecvPress(b) ==
  /\ Receive(b, TRUE)
  /\ last_change' = [last_change EXCEPT ![b] = 0]
  /\ UNCHANGED event

\* Mutant: a press is not forgotten when its release is handled.
RecvReleaseOnly(b) ==
  /\ Receive(b, FALSE)
  /\ Emit(b, LongPress(b))
  /\ UNCHANGED last_change

RecvRelease(b) ==
  /\ Receive(b, FALSE)
  /\ Emit(b, LongPress(b))
  /\ last_change' = [last_change EXCEPT ![b] = None]

InputEvent(e) ==
  [kind |-> "Action", action |-> [id |-> e.id, action |-> SetValue(e.value)], held |-> e.held]

\* Mutant: it does not wait for room.
SendAtOnce ==
  /\ running /\ event # <<>>
  /\ rxInput' = Append(rxInput, InputEvent(event[1])) /\ event' = <<>>
  /\ UNCHANGED <<wall, net, last_change, raw, running, faults>>

Send ==
  /\ running /\ event # <<>> /\ Len(rxInput) < Capacity
  /\ rxInput' = Append(rxInput, InputEvent(event[1])) /\ event' = <<>>
  /\ UNCHANGED <<wall, net, last_change, raw, running, faults>>

\* A datagram that cannot be read ends run(), and with it the server.
Unreadable ==
  /\ running /\ event = <<>>
  /\ running' = FALSE /\ rxInput' = <<>>
  /\ UNCHANGED <<wall, net, last_change, event, raw, faults>>

\* The rules engine.
TakeInput ==
  /\ rxInput # <<>> /\ rxInput' = Tail(rxInput)
  /\ UNCHANGED <<wall, net, last_change, event, raw, running, faults>>

\* A new server: whatever was sent to the old one, and what it knew, is gone.
Renewed ==
  /\ net' = <<>> /\ last_change' = [b \in Long |-> None]
  /\ event' = <<>> /\ rxInput' = <<>>
  /\ raw' = [b \in Button |-> FALSE] /\ running' = TRUE
  /\ UNCHANGED wall

Restart == Fault /\ Renewed

(***************************************************************************)
(* Time.  A running server is taken to handle each datagram within Jitter  *)
(* of its being sent, a moment when the input channel is full included.    *)
(***************************************************************************)
Timely == running => \A n \in DOMAIN net: net[n].age < Jitter

Tick ==
  /\ Timely
  /\ since' = [b \in Button |-> Older(since[b])]
  /\ net' = [n \in DOMAIN net |-> [net[n] EXCEPT !.age = Older(@)]]
  /\ last_change' = [b \in Long |-> IF last_change[b] = None THEN None ELSE Older(last_change[b])]
  /\ UNCHANGED <<pressed, event, rxInput, raw, running, faults>>

Next ==
  \/ \E b \in Button: Push(b)
  \/ Lose
  \/ Duplicate
  \/ Overtake
  \/ \E b \in Plain, on \in BOOLEAN: RecvPlain(b, on)
  \/ \E b \in Long: RecvPress(b)
  \/ \E b \in Long: RecvRelease(b)
  \/ Send
  \/ Unreadable
  \/ TakeInput
  \/ Restart
  \/ Tick

Spec == Init /\ [][Next]_vars

-----------------------------------------------------------------------------
Age      == 0..Cap
Datagram == [id: Button, on: BOOLEAN, age: Age, held: Age]
Event    == [id: Button, value: {BoolVal(on): on \in BOOLEAN} \cup {IntVal(1), IntVal(2)}, held: Age]
Message  == {InputEvent(e): e \in Event}

\* The input channel keeps its bound, and run() sends one event at a time.
TypeOK ==
  /\ pressed \in [Button -> BOOLEAN] /\ since \in [Button -> Age]
  /\ net \in Seq(Datagram) /\ Len(net) <= NetSize
  /\ last_change \in [Long -> Age \cup {None}]
  /\ event \in Seq(Event) /\ Len(event) <= 1
  /\ rxInput \in Seq(Message) /\ Len(rxInput) <= Capacity
  /\ raw \in [Button -> BOOLEAN] /\ running \in BOOLEAN
  /\ faults \in 0..MaxFaults

Judged ==
  {n \in {InputEvent(e): e \in ToSet(event)} \cup ToSet(rxInput): n.action.id \in Long}

\* The event of a long button says how long it was held, up to the difference of
\* two delays.  One fault may make a long press short, and never a short one long:
\* that takes a lost release and then a lost press (the instant of a press is
\* overwritten by the next one and removed by the release).
Classified ==
  \A e \in Judged:
    /\ e.action.action = SetValue(IntVal(1)) => e.held < Threshold + Jitter \/ faults >= 1
    /\ e.action.action = SetValue(IntVal(2)) => e.held >= Threshold - Jitter \/ faults >= 2

\* The states broadcast for the inputs, long buttons too, are those of the
\* buttons, up to the datagrams that are on their way, unless one was lost.
StatesOf(b) == [n \in DOMAIN net |-> IF net[n].id = b THEN BoolVal(net[n].on) ELSE NoValue]

RawFollows ==
  faults = 0 =>
    \A b \in Button: BoolVal(pressed[b]) = Latest(BoolVal(raw[b]), StatesOf(b))

(***************************************************************************)
(* Why a press is not misjudged: what is under way of a long button b.     *)
(***************************************************************************)
Quiet(b) == \A n \in DOMAIN net: net[n].id # b
Oldest(b, n) == net[n].id = b /\ \A k \in 1..n - 1: net[k].id # b
Newest(b, n) == net[n].id = b /\ \A k \in n + 1..Len(net): net[k].id # b
Pair(b, k, n) ==
  k < n /\ net[k].id = b /\ net[n].id = b /\ \A j \in k + 1..n - 1: net[j].id # b

\* Nothing waits for longer than Jitter.
Prompt == \A n \in DOMAIN net: net[n].age <= Jitter

\* As long as there was no fault, presses and releases come in turn, and there is
\* an instant to compare with exactly when a release comes next.
Alternate(b) ==
  /\ \A n \in DOMAIN net:
       /\ Oldest(b, n) => (net[n].on <=> last_change[b] = None)
       /\ Newest(b, n) => (net[n].on <=> pressed[b])
       /\ \A k \in DOMAIN net: Pair(b, k, n) => (net[n].on <=> ~net[k].on)
  /\ Quiet(b) => (pressed[b] <=> last_change[b] # None)

\* Then a press is handled at most Jitter after it was made.
NotShort(last, age) == last >= Threshold \/ age <= last + Jitter

Measured(b) ==
  /\ \A n \in DOMAIN net:
       /\ Oldest(b, n) /\ ~net[n].on => NotShort(last_change[b], net[n].held + net[n].age)
       /\ Newest(b, n) /\ net[n].on => since[b] <= net[n].age
       /\ \A k \in DOMAIN net:
            Pair(b, k, n) /\ net[k].on => net[n].held + net[n].age <= net[k].age
  /\ Quiet(b) /\ pressed[b] => NotShort(last_change[b], since[b])

\* Up to the first fault, and after it, a release is compared with no press older
\* than its own.
NotLong(last, age, held) == last = None \/ last <= age \/ held >= Threshold - Jitter

NoOlder(b) ==
  /\ \A n \in DOMAIN net:
       Oldest(b, n) /\ ~net[n].on =>
         NotLong(last_change[b], net[n].held + net[n].age, net[n].held)
  /\ Quiet(b) /\ pressed[b] => NotLong(last_change[b], since[b], since[b])

Known(b) ==
  /\ faults = 0 => Alternate(b) /\ Measured(b)
  /\ faults <= 1 => NoOlder(b)

\* What makes Classified inductive: while the server runs, no datagram is late, and
\* what it remembers of each button fits what is under way.
IInv ==
  /\ TypeOK
  /\ Classified
  /\ running => Prompt /\ \A b \in Long: Known(b)
=============================================================================
