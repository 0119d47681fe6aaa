--------------------------------- MODULE House ---------------------------------
(***************************************************************************)
(* The server of server/src/main.rs with the parts that a command passes   *)
(* through: the main server, the rules engine, the dispatcher and the      *)
(* controller of one PLC, each as its own module describes it, joined by   *)
(* the channels they share.  Buttons are wired to relays by two rules each:*)
(* the relay goes on when the button is pressed, off when it is released.  *)
(* Time plays no part here: there are no long buttons and no shutters.     *)
(***************************************************************************)
EXTENDS IOValue, SequencesExt

CONSTANTS
  Plain, Digital,   \* ids of the buttons and of the relays
  Wire,             \* the relay each button is wired to
  None,             \* no id
  NetSize,          \* bound of the datagrams on their way
  InputCapacity, Capacity, RxCapacity   \* CHANNEL_CAPACITY of the channels

ASSUME WireAssumption == Wire \in [Plain -> Digital]

VARIABLES
  pressed, net, event, raw, running,                           \* main server
  rxInput,                                                     \* both
  inValue, outValue, rxOutput, lagged, enginePc, rules, acts,  \* rules engine
  cmds,                                                        \* dispatcher
  relay, value, feedback, rx, pc, job, todo                    \* controller

WiredRules ==
  FlattenSeq([n \in DOMAIN SetToSeq(Plain) |->
    LET b == SetToSeq(Plain)[n] IN
      [k \in 1..2 |->
        [conditions |-> <<[kind |-> "Standard", input |-> b, operator |-> "Equal",
                           value |-> BoolVal(k = 1)]>>,
         actions    |-> <<[id |-> Wire[b], action |-> SetValue(BoolVal(k = 1))]>>]]])

MS == INSTANCE MainServer WITH
        Long <- {}, Threshold <- 0, Jitter <- 0, MaxFaults <- 0, faults <- 0,
        Capacity <- InputCapacity,
        since <- [b \in Plain |-> 0], last_change <- [b \in {} |-> 0]

RE == INSTANCE RulesEngine WITH
        Input <- Plain, Output <- Digital, Client <- {}, Command <- {}, Broadcast <- {},
        Rules <- WiredRules, NoOutput <- FALSE, pc <- enginePc,
        plan <- <<>>, known <- {}, done <- <<>>,
        published <- [d \in Digital |-> NoValue]

WMC == INSTANCE WagoModbusController WITH
        Shutter <- {}, OtherId <- {}, RunTime <- [s \in {} |-> 0],
        Values <- {BoolVal(b): b \in BOOLEAN},
        up <- [s \in {} |-> FALSE], down <- [s \in {} |-> FALSE],
        task <- [s \in {} |-> 0], batch <- {}

outside    == <<pressed, net>>
mainServer == <<event, raw, running>>
engine     == <<inValue, outValue, rxOutput, lagged, enginePc, rules, acts>>
controller == <<relay, value, feedback, rx, pc, job, todo>>
vars == <<outside, mainServer, rxInput, engine, cmds, controller>>

\* The PLC's relays may be on when the server is started.
Init == MS!Init /\ RE!Init /\ WMC!Init

(***************************************************************************)
(* The buttons and the network.                                            *)
(***************************************************************************)
Outside ==
  /\ (\E b \in Plain: MS!Push(b)) \/ MS!Lost
  /\ UNCHANGED <<engine, cmds, controller>>

(***************************************************************************)
(* The server.  A raw state and a controller's report go to the engine by  *)
(* the broadcast channel, events by the input channel, commands by the     *)
(* dispatcher.                                                             *)
(***************************************************************************)
ReadButton ==
  /\ \E b \in Plain, on \in BOOLEAN:
       MS!RecvPlain(b, on) /\ RE!Publish([id |-> b, value |-> BoolVal(on)])
  /\ UNCHANGED controller

SendEvent == MS!Send /\ UNCHANGED <<engine, cmds, controller>>

HandleInput == RE!HandleInput /\ UNCHANGED <<outside, mainServer, controller>>

Feedback == RE!Feedback /\ UNCHANGED <<outside, mainServer, controller>>

\* handle_rx: it takes a command out of one channel when the controller's has
\* room; here in one step, as nobody else takes from the first.
Dispatch ==
  /\ RE!Dispatch /\ WMC!Send(Head(cmds))
  /\ UNCHANGED <<outside, mainServer>>

\* Mutant: the value is reported before it is kept.
ReportedBefore(o) == RE!Publish([id |-> o, value |-> feedback[o]])

\* update_state: it keeps the value and broadcasts it.
Reported(o) == RE!Publish([id |-> o, value |-> feedback'[o]])

Report ==
  /\ \/ \E d \in Digital: WMC!StartDigital(d) /\ Reported(d)
     \/ WMC!WriteCoil /\ Reported(job.id)
  /\ UNCHANGED <<outside, mainServer>>

Quietly(A) == A /\ UNCHANGED <<outside, mainServer, rxInput, engine, cmds>>

Connect   == running /\ Quietly(WMC!Restart)
EnterLoop == Quietly(WMC!EnterLoop)
Recv      == Quietly(WMC!Recv)
KeepAlive == Quietly(WMC!BeginKeepAlive \/ WMC!EndKeepAlive)

(***************************************************************************)
(* One branch of main's select! returns (a lagged engine, a controller's   *)
(* error, the end of the main server), or the process dies: all are gone.  *)
(***************************************************************************)
End ==
  /\ running /\ running' = FALSE
  /\ event' = <<>> /\ raw' = [b \in Plain |-> FALSE]
  /\ enginePc' = "stopped" /\ RE!Fresh
  /\ IF pc = "stopped" THEN UNCHANGED controller ELSE WMC!Crash
  /\ UNCHANGED outside

Start == ~running /\ MS!Renewed /\ RE!Restart /\ UNCHANGED controller

Next ==
  \/ Outside
  \/ ReadButton
  \/ SendEvent
  \/ HandleInput
  \/ Feedback
  \/ Dispatch
  \/ Report
  \/ Connect
  \/ EnterLoop
  \/ Recv
  \/ KeepAlive
  \/ End
  \/ Start

Spec == Init /\ [][Next]_vars

\* The fairness of the parts: nothing forces a button, a fault or an end, but that
\* of a server whose engine has lagged.
FairSpec ==
  /\ Spec
  /\ WF_vars(ReadButton) /\ WF_vars(SendEvent)
  /\ WF_vars(HandleInput) /\ WF_vars(Feedback) /\ WF_vars(Dispatch)
  /\ WF_vars(Connect) /\ WF_vars(Report \/ EnterLoop \/ Quietly(WMC!EndKeepAlive))
  /\ SF_vars(Recv) /\ WF_vars(lagged /\ End)

-----------------------------------------------------------------------------
Carried(s) == [n \in DOMAIN s |-> Payload(s[n].action[2])]

Events == [n \in DOMAIN rxInput |-> rxInput[n].action]

\* What the engine has still to send for the event it is serving.
Unsent ==
  acts \o FlattenSeq([n \in DOMAIN rules |->
            IF RE!should_exec(rules[n], inValue) THEN rules[n].actions ELSE <<>>])

\* All that is under way from a button to its relay, the oldest first.
WayOf(b) ==
  LET on(s, i) == Carried(SelectSeq(s, LAMBDA c: c.id = i))
      read == SelectSeq(event, LAMBDA e: e.id = b)
  IN  (IF job.id = Wire[b] THEN <<job.why = "on">> ELSE <<>>)
        \o on(rx \o cmds \o Unsent, Wire[b]) \o on(Events, b)
        \o [n \in DOMAIN read |-> Payload(read[n].value)]

AirOf(b) ==
  LET own == SelectSeq(net, LAMBDA d: d.id = b) IN [n \in DOMAIN own |-> own[n].on]

LineOf(b) == INSTANCE Line WITH
               pressed <- pressed[b], air <- AirOf(b), way <- WayOf(b),
               light <- relay[Wire[b]], ready <- outValue[Wire[b]] # NoValue

\* From the button to the relay, through three channels and four tasks, no
\* command is lost, repeated or overtaken by another one, unless the server has
\* not yet heard of the relay, or ends.
ImplementsLine ==
  /\ \A b \in Plain: LineOf(b)!LineInit
  /\ [][\A b \in Plain: [LineOf(b)!LineNext]_(LineOf(b)!lvars)]_vars

\* The tasks of a server that goes on never wait for each other in a circle:
\* when no more datagrams come, all channels are emptied, and the engine's copy
\* of each output is what the PLC drives.
ComesToRest ==
  <>[]running /\ <>[][Len(net') <= Len(net)]_vars =>
    <>[]/\ \A b \in Plain: AirOf(b) = <<>> /\ WayOf(b) = <<>>
        /\ rxOutput = <<>>
        /\ \A d \in Digital: outValue[d] = BoolVal(relay[d])

\* The main server, which reads no datagram while it waits for room in the input
\* channel, does not wait for ever (the whole chain to the PLC has to move on).
InputTaken == Len(rxInput) = InputCapacity ~> (Len(rxInput) < InputCapacity \/ ~running)
=============================================================================
