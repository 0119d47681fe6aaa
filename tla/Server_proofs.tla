------------------------------ MODULE Server_proofs ------------------------------
(***************************************************************************)
(* What is lost when values are written as text, what every configuration  *)
(* can count on, and where the commands of a running server end.           *)
(***************************************************************************)
EXTENDS Server, Updates_proofs

-----------------------------------------------------------------------------
(***************************************************************************)
(* What is lost, and what is not, when values and actions are written as   *)
(* text and read again (IOText).                                           *)
(***************************************************************************)
\* A value that is read from a text is one the server can hold, and never that of
\* a moving shutter.
LEMMA ValueRead ==
  ASSUME NEW t \in Text
  PROVE  ValueOf(t) \in Held /\ Settled(ValueOf(t))
<1>1. CASE t \in Numeral
  BY <1>1, WordsAssumption, IntsAssumption
     DEF ValueOf, Held, Settled, IntVal, ShutterVal, Word
<1>2. CASE t \notin Numeral
  BY <1>2 DEF ValueOf, Held, Settled, BoolVal, StringVal, ShutterVal, ShutterState
<1> QED BY <1>1, <1>2

\* What the server writes of a value (to a client, or in a rule's condition) stands
\* for that value when it is read: of all it can hold, only the direction of a
\* moving shutter is lost.
THEOREM PrintsBack ==
  ASSUME NEW v \in Held, Settled(v)
  PROVE  TextOf(v) \in Text /\ ValueOf(TextOf(v)) = v
<1>1. ASSUME NEW b \in BOOLEAN, v = BoolVal(b)
      PROVE  TextOf(v) \in Text /\ ValueOf(TextOf(v)) = v
  BY <1>1, WordsAssumption DEF ValueOf, TextOf, Variant, Payload, BoolVal, Word
<1>2. ASSUME NEW i \in i32, v = IntVal(i)
      PROVE  TextOf(v) \in Text /\ ValueOf(TextOf(v)) = v
  <2>1. TextOf(v) = to_string[i]
    BY <1>2 DEF TextOf, Variant, Payload, IntVal
  <2>2. to_string[i] \in Numeral /\ IntOf[to_string[i]] = i
    BY <1>2, IntsAssumption
  <2>3. ValueOf(to_string[i]) = IntVal(IntOf[to_string[i]])
    BY <2>2, WordsAssumption DEF ValueOf, Word
  <2> QED BY <1>2, <2>1, <2>2, <2>3, WordsAssumption
<1>3. ASSUME NEW s \in ShutterState, v = ShutterVal(s)
      PROVE  TextOf(v) \in Text /\ ValueOf(TextOf(v)) = v
  <2>1. s \in {"Up", "Down"}
    BY <1>3 DEF Settled, ShutterVal, ShutterState
  <2> QED BY <1>3, <2>1, WordsAssumption
          DEF ValueOf, TextOf, Variant, Payload, ShutterVal, Word
<1>4. ASSUME NEW t \in Text \ (Numeral \cup {"true", "false", "up", "down"}), v = StringVal(t)
      PROVE  TextOf(v) \in Text /\ ValueOf(TextOf(v)) = v
  BY <1>4 DEF ValueOf, TextOf, Variant, Payload, StringVal
<1> QED BY <1>1, <1>2, <1>3, <1>4 DEF Held

\* A moving shutter is written as one that is up, whichever way it moves: a client
\* that is told, or a rule that is written from what a client is told, cannot know.
THEOREM MovingIsLost ==
  ASSUME NEW v \in Held, ~Settled(v)
  PROVE  TextOf(v) = "up" /\ ValueOf(TextOf(v)) = ShutterVal("Up")
<1>1. v \in {ShutterVal("MovingUp"), ShutterVal("MovingDown")}
  BY DEF Settled
<1>2. TextOf(v) = "up"
  BY <1>1 DEF TextOf, Variant, Payload, ShutterVal
<1> QED BY <1>2, WordsAssumption DEF ValueOf, Word

\* An action that is read from a text, written and read again is the same action:
\* a "toggle" or a "stop" is never taken for a string, nor the other way round.
THEOREM ActionPrintsBack ==
  ASSUME NEW t \in Text
  PROVE  TextOfAction(ActionOf(t)) \in Text /\ ActionOf(TextOfAction(ActionOf(t))) = ActionOf(t)
<1>1. CASE t \in {"toggle", "stop"}
  BY <1>1, WordsAssumption DEF ActionOf, TextOfAction, Toggle, Stop, Word
<1>2. CASE t \notin {"toggle", "stop"}
  <2> DEFINE v == ValueOf(t)
  <2>1. v \in Held /\ Settled(v)
    BY ValueRead
  <2>2. TextOf(v) \in Text /\ ValueOf(TextOf(v)) = v
    BY <2>1, PrintsBack
  <2>3. ActionOf(t) = SetValue(v) /\ TextOfAction(ActionOf(t)) = TextOf(v)
    BY <1>2 DEF ActionOf, TextOfAction, SetValue, Toggle, Stop
  <2>4. TextOf(v) \notin {"toggle", "stop"}
    <3>1. CASE t \in Numeral
      BY <3>1, WordsAssumption, IntsAssumption
         DEF ValueOf, TextOf, Variant, Payload, IntVal, Word
    <3>2. CASE t \notin Numeral
      BY <1>2, <3>2 DEF ValueOf, TextOf, Variant, Payload, BoolVal, ShutterVal, StringVal
    <3> QED BY <3>1, <3>2
  <2> HIDE DEF v
  <2>5. ActionOf(TextOf(v)) = SetValue(ValueOf(TextOf(v)))
    BY <2>4 DEF ActionOf
  <2> QED BY <2>2, <2>3, <2>5
<1> QED BY <1>1, <1>2

-----------------------------------------------------------------------------
(***************************************************************************)
(* What every configuration can count on, whatever the order in which the  *)
(* hash maps give their entries (ContextMaps).                             *)
(***************************************************************************)
\* The context map holds a definition whose id is its own.
LEMMA OwnDefinition ==
  ASSUME NEW defs, NEW n \in DOMAIN defs, Unique(defs, n), DOMAIN defs \subseteq Nat
  PROVE  defs[n].id \in DOMAIN ContextMap(defs) /\ ContextMap(defs)[defs[n].id] = defs[n]
<1> DEFINE i == defs[n].id
           P(k) == defs[k].id = i /\ \A m \in DOMAIN defs: defs[m].id = i => m <= k
<1>1. P(n) /\ \A k \in DOMAIN defs: P(k) => k = n
  BY DEF Unique
<1>2. (CHOOSE k \in DOMAIN defs: P(k)) = n
  BY <1>1
<1> QED BY <1>2 DEF ContextMap

\* An output that the server can drive and whose id no other output has is sent its
\* commands through its own PLC's controller, and that controller has its
\* definition: the command ends at the coil that is configured for it.
THEOREM Destination ==
  ASSUME NEW defs, DOMAIN defs \subseteq Nat, NEW n \in DOMAIN defs, Unique(defs, n),
         OutputController(defs[n]) # None,
         NEW ranks \in Orders(make_output_controller_map(defs))
  PROVE  LET map   == make_output_controller_map(defs)
             c     == OutputController(defs[n])
             given == filter(ContextMap(defs), map[c])
         IN  /\ defs[n].id \in DOMAIN reverse_map(map, ranks)
             /\ reverse_map(map, ranks)[defs[n].id] = c
             /\ defs[n].id \in DOMAIN given /\ given[defs[n].id] = defs[n]
<1> DEFINE map   == make_output_controller_map(defs)
           c     == OutputController(defs[n])
           i     == defs[n].id
<1>1. c \in DOMAIN map /\ i \in map[c]
  BY DEF make_output_controller_map, append_map, IdsOf
<1>2. ASSUME NEW e \in DOMAIN map, i \in map[e]
      PROVE  e = c
  <2>1. PICK m \in DOMAIN defs: OutputController(defs[m]) = e /\ defs[m].id = i
    BY <1>2 DEF make_output_controller_map, append_map, IdsOf
  <2> QED BY <2>1 DEF Unique
<1>3. i \in DOMAIN filter(ContextMap(defs), map[c]) /\ filter(ContextMap(defs), map[c])[i] = defs[n]
  BY <1>1, OwnDefinition DEF filter
<1>4. ranks[c] \in Nat
  BY <1>1 DEF Orders
<1> HIDE DEF map, c, i
<1>5. i \in DOMAIN reverse_map(map, ranks)
  BY <1>1 DEF reverse_map
<1>6. reverse_map(map, ranks)[i] = c
  <2> DEFINE P(k) == i \in map[k] /\ \A e \in DOMAIN map: i \in map[e] => ranks[e] <= ranks[k]
  <2>1. P(c)
    BY <1>1, <1>2, <1>4
  <2>2. \A k \in DOMAIN map: P(k) => k = c
    BY <1>2
  <2>3. (CHOOSE k \in DOMAIN map: P(k)) = c
    BY <1>1, <2>1, <2>2
  <2> QED BY <1>5, <2>3 DEF reverse_map
<1> QED BY <1>3, <1>5, <1>6 DEF map, c, i

\* Of inputs with distinct ids, the time controller is given input times only: its
\* unwrap_date never panics.
THEOREM OnlyTimes ==
  ASSUME NEW defs, DOMAIN defs \subseteq Nat, \A n \in DOMAIN defs: Unique(defs, n),
         <<"Time">> \in DOMAIN make_input_controller_map(defs),
         NEW i \in make_input_controller_map(defs)[<<"Time">>]
  PROVE  ContextMap(defs)[i].kind = "InputTime"
<1>1. PICK n \in DOMAIN defs: InputController(defs[n]) = <<"Time">> /\ defs[n].id = i
  BY DEF make_input_controller_map, append_map, IdsOf
<1>2. ContextMap(defs)[i] = defs[n]
  BY <1>1, OwnDefinition
<1>3. defs[n].kind = "InputTime"
  BY <1>1, NoneAssumption DEF InputController
<1> QED BY <1>2, <1>3

\* A plain or long button whose number no other such button has, on any PLC, is
\* taken for itself when its datagram comes.
THEOREM OwnButton ==
  ASSUME NEW defs, DOMAIN defs \subseteq Nat, NEW n \in DOMAIN defs,
         defs[n].kind \in {"WIDigitalBP", "WIDigitalLong"},
         \A m \in DOMAIN defs:
           defs[m].kind \in {"WIDigitalBP", "WIDigitalLong"} /\ defs[m].var = defs[n].var => m = n
  PROVE  /\ defs[n].var \in DOMAIN make_input_var_map(defs)
         /\ make_input_var_map(defs)[defs[n].var] = defs[n]
<1> DEFINE Read == {k \in DOMAIN defs: defs[k].kind \in {"WIDigitalBP", "WIDigitalLong"}}
           v == defs[n].var
           P(k) == defs[k].var = v /\ \A m \in Read: defs[m].var = v => m <= k
<1>1. n \in Read /\ P(n) /\ \A k \in Read: P(k) => k = n
  OBVIOUS
<1>2. (CHOOSE k \in Read: P(k)) = n
  BY <1>1
<1>3. v \in {defs[k].var: k \in Read}
  BY <1>1
<1> QED BY <1>2, <1>3 DEF make_input_var_map

\* A client that reads the home data finds, for each definition of the
\* configuration, the value the engine has for it, up to the direction of a moving
\* shutter.
THEOREM HomeReadsBack ==
  ASSUME NEW defs, NEW values, NEW n \in DOMAIN defs,
         values[defs[n].id] \in Held, Settled(values[defs[n].id])
  PROVE  /\ make_room_ios(defs, values)[n].io = defs[n]
         /\ ValueOf(make_room_ios(defs, values)[n].data.state) = values[defs[n].id]
<1> DEFINE v == values[defs[n].id]
<1>1. StateOf(v).state = TextOf(v)
  <2>1. v # NoValue
    BY DEF Held, NoValue, BoolVal, IntVal, ShutterVal, StringVal
  <2> QED BY <2>1 DEF StateOf
<1>2. ValueOf(TextOf(v)) = v
  BY PrintsBack
<1> QED BY <1>1, <1>2 DEF make_room_ios

-----------------------------------------------------------------------------
(***************************************************************************)
(* Where the commands of a running server end, for every configuration.    *)
(***************************************************************************)
DInv == config \in Configs /\ order \in Orders(Outputs)

\* The definitions of a configuration are numbered.
LEMMA Numbered ==
  ASSUME config \in Configs, NEW defs \in {config.inputs, config.outputs}
  PROVE  Len(defs) \in Nat /\ DOMAIN defs = 1..Len(defs) /\ DOMAIN defs \subseteq Nat
<1>1. Len(defs) \in Nat /\ DOMAIN defs = 1..Len(defs)
  BY ConfigsAssumption
<1> QED BY <1>1

LEMMA DInvNext == DInv /\ [Next]_vars => DInv'
<1> SUFFICES ASSUME DInv, [Next]_vars PROVE DInv'
  OBVIOUS
<1>1. CASE Start
  BY <1>1 DEF Start, DInv
<1>2. CASE UNCHANGED <<config, order>>
  BY <1>2 DEF DInv, Outputs
<1>3. ~Start => UNCHANGED <<config, order>>
  BY DEF Next, vars, process, BranchEnds, Leave, End, Panic, NoInputs, AskPlc, HearPlc,
         HearNothing, BeatPlc, HearGarbled, PlcFails, BeginOutput, NumberOverflows, AddressFails,
         HearCoil, HearNoCoil, MoveForEver, Outside, TurnOfTime, PassTime
<1> QED BY <1>1, <1>2, <1>3

LEMMA DInvDestined == DInv => Destined
<1> SUFFICES ASSUME DInv, NEW n \in DOMAIN config.outputs,
             config.outputs[n].kind \in WagoOutput,
             config.outputs[n].host \in DOMAIN IpOf, config.outputs[n].port \in DOMAIN PortOf,
             Unique(config.outputs, n)
             PROVE  LET o     == config.outputs[n]
                        own   == <<"Wago", IpOf[o.host], PortOf[o.port]>>
                        route == reverse_map(Outputs, order)
                        given == filter(ContextMap(config.outputs), Outputs[own])
                    IN  /\ o.id \in DOMAIN route /\ route[o.id] = own
                        /\ o.id \in DOMAIN given /\ given[o.id] = o
  BY DEF Destined
<1> DEFINE o   == config.outputs[n]
           own == <<"Wago", IpOf[o.host], PortOf[o.port]>>
<1>1. OutputController(o) = own /\ own # None
  BY NoneAssumption DEF OutputController
<1>2. DOMAIN config.outputs \subseteq Nat
  BY Numbered DEF DInv
<1>3. order \in Orders(make_output_controller_map(config.outputs))
  BY DEF DInv, Outputs
<1> QED BY <1>1, <1>2, <1>3, Destination DEF Outputs

\* In whatever order the hash map of each start gives the controllers, a command to
\* an output that has an id of its own ends at the coil configured for it.
THEOREM DestinedHolds == Spec => []Destined
<1>1. Init => DInv
  BY DEF Init, DInv
<1> QED BY <1>1, DInvNext, DInvDestined, PTL DEF Spec

-----------------------------------------------------------------------------
(***************************************************************************)
(* The states of the process, and why it may end in a panic.               *)
(***************************************************************************)
Beats == {"off", "ask", "asked", "answered", "empty", "garbled", "lost", "beating"}

\* The dates the time controller has been given.
Dates == {TimeInputs[i].date: i \in {j \in DOMAIN TimeInputs: TimeInputs[j].kind = "InputTime"}}

\* While the time controller sleeps, it has read its dates, and has chosen the first.
Sleeping ==
  timer = "sleep" =>
    /\ <<"Time">> \in DOMAIN Inputs
    /\ \A d \in Dates: Exists(d, read)
    /\ wake = WakeAt(Dates, read)

LEMMA WakeType ==
  ASSUME NEW dates, NEW now \in 0..MaxClock
  PROVE  /\ WakeAt(dates, now) \in 0..MaxClock + 1
         /\ \A t \in Pending(dates, now): WakeAt(dates, now) <= t
<1>1. MaxClock \in Nat /\ Pending(dates, now) \subseteq 0..MaxClock
  BY CalendarAssumption DEF Pending
<1>2. CASE Pending(dates, now) = {}
  BY <1>1, <1>2 DEF WakeAt
<1>3. CASE Pending(dates, now) # {}
  <2> DEFINE P == Pending(dates, now)
  <2>1. P \subseteq Nat /\ P # {} /\ P \subseteq 0..MaxClock
    BY <1>1, <1>3
  <2>2. WakeAt(dates, now) = CHOOSE t \in P: \A u \in P: t <= u
    BY <1>3 DEF WakeAt
  <2> HIDE DEF P
  <2>3. \E t \in P: \A u \in P: t <= u
    BY <2>1, Least
  <2>4. WakeAt(dates, now) \in P /\ \A u \in P: WakeAt(dates, now) <= u
    BY <2>2, <2>3
  <2> DEFINE w == WakeAt(dates, now)
  <2> HIDE DEF w
  <2>5. w \in 0..MaxClock + 1
    <3>1. w \in 0..MaxClock
      BY <2>1, <2>4 DEF w
    <3> QED BY <1>1, <3>1
  <2> QED BY <2>4, <2>5 DEF P, w
<1> QED BY <1>2, <1>3

\* The maps are those of the configuration.
LEMMA SameMaps ==
  ASSUME config' = config
  PROVE  Inputs' = Inputs /\ Outputs' = Outputs /\ Dates' = Dates /\ TimeInputs' = TimeInputs
BY DEF Inputs, Outputs, TimeInputs, Dates

\* TypeOK in three parts: what the variables can be, the controllers of the outputs,
\* and what is left when none of the branches runs.
Typed ==
  /\ phase \in {"ended", "running", "stopping", "panicked"}
  /\ config \in Configs /\ args \in Args /\ order \in Orders(Outputs)
  /\ beat \in [Ip -> Beats] /\ knows \in [Ip -> BOOLEAN]
  /\ timer \in {"off", "sleep", "panicked"}
  /\ clock \in 0..MaxClock /\ {read, wake} \subseteq 0..MaxClock + 1

Driven ==
  /\ drive \in [DOMAIN drive -> {"ready", "asked", "coil", "empty"}]
  /\ DOMAIN unread = DOMAIN drive /\ DOMAIN drive \subseteq DOMAIN Outputs
  /\ \A c \in DOMAIN drive: unread[c] \subseteq Outputs[c]
  /\ Writing => DOMAIN drive = DOMAIN Outputs

Quiet ==
  phase \in {"ended", "stopping"} =>
    timer = "off" /\ (\A p \in Ip: beat[p] = "off") /\ drive = Nobody

LEMMA TypeParts == TypeOK <=> Typed /\ Driven /\ Quiet
BY DEF TypeOK, Typed, Driven, Quiet, Beats

LEMMA InitTyped == Init => TypeOK /\ Sleeping /\ PanicsExplained
<1> SUFFICES ASSUME Init PROVE TypeOK /\ Sleeping /\ PanicsExplained
  OBVIOUS
<1>1. Typed
  BY CalendarAssumption DEF Init, HeartbeatInit, TimeInit, Typed, Beats
<1>2. Driven
  BY DEF Init, Driven, Nobody, Writing, Running
<1>3. Quiet /\ Sleeping /\ PanicsExplained
  BY DEF Init, HeartbeatInit, TimeInit, Quiet, Sleeping, PanicsExplained
<1> QED BY <1>1, <1>2, <1>3, TypeParts

LEMMA NextPlain == Typed /\ Sleeping /\ [Next]_vars => Typed' /\ Sleeping'
<1> SUFFICES ASSUME Typed, Sleeping, [Next]_vars PROVE Typed' /\ Sleeping'
  OBVIOUS
<1> USE DEF vars, process, devices, heartbeatVars, timeVars
<1>1. /\ config \in Configs /\ args \in Args /\ order \in Orders(Outputs)
      /\ beat \in [Ip -> Beats] /\ knows \in [Ip -> BOOLEAN]
      /\ timer \in {"off", "sleep", "panicked"} /\ clock \in 0..MaxClock
      /\ read \in 0..MaxClock + 1 /\ wake \in 0..MaxClock + 1 /\ MaxClock \in Nat
  BY CalendarAssumption DEF Typed, Beats
<1>2. ASSUME UNCHANGED <<config, args, order>>, phase' \in {"ended", "running", "stopping", "panicked"},
             beat' \in [Ip -> Beats], knows' \in [Ip -> BOOLEAN], UNCHANGED <<timer, read, wake>>,
             clock' \in 0..MaxClock
      PROVE  Typed' /\ Sleeping'
  <2>1. Inputs' = Inputs /\ Outputs' = Outputs /\ Dates' = Dates
    BY <1>2, SameMaps
  <2>2. order' \in Orders(Outputs')
    BY <1>1, <1>2, <2>1
  <2>3. Typed'
    BY <1>1, <1>2, <2>2 DEF Typed, Beats
  <2> QED BY <1>2, <2>1, <2>3 DEF Sleeping
<1>3. ASSUME Leave, knows' = knows PROVE Typed' /\ Sleeping'
  <2>1. /\ phase' = "stopping" /\ timer' = "off" /\ read' = 0 /\ wake' = 0
        /\ UNCHANGED <<config, args, order, clock>>
        /\ beat' = [p \in Ip |-> IF p \in {} THEN "ask" ELSE "off"]
    BY <1>3 DEF Leave, HeartbeatsFrom, TimeOff
  <2>2. beat' \in [Ip -> Beats]
    BY <2>1 DEF Beats
  <2>3. order' \in Orders(Outputs')
    BY <1>1, <2>1, SameMaps
  <2> QED BY <1>1, <1>3, <2>1, <2>2, <2>3 DEF Typed, Beats, Sleeping
<1>4. CASE Start
  <2>1. /\ config' \in Configs /\ args' \in Args /\ order' \in Orders(Outputs')
        /\ phase' \in {"running", "panicked", "ended"}
        /\ timer' = "off" /\ read' = 0 /\ wake' = 0 /\ UNCHANGED <<clock, knows>>
    BY <1>4 DEF Start, Outcome, TimeOff
  <2>2. beat' \in [Ip -> Beats]
    BY <1>4 DEF Start, HeartbeatsFrom, Beats
  <2> QED BY <1>1, <2>1, <2>2 DEF Typed, Beats, Sleeping
<1>5. CASE BranchEnds \/ \E p \in Ip: HearGarbled(p) \/ PlcFails(p)
  BY <1>3, <1>5 DEF BranchEnds, HearGarbled, PlcFails, Fail
<1>6. CASE End
  BY <1>1, <1>2, <1>6 DEF End
<1>7. CASE NoInputs \/ \E p \in Ip: HearNothing(p)
  BY <1>1, <1>2, <1>7 DEF NoInputs, HearNothing, Panic
<1>15. CASE \E c \in DOMAIN drive: NumberOverflows(c) \/ HearNoCoil(c) \/ MoveForEver(c)
  BY <1>1, <1>2, <1>15 DEF NumberOverflows, HearNoCoil, MoveForEver, Panic
<1>16. CASE \E c \in DOMAIN drive: BeginOutput(c) \/ HearCoil(c)
  <2>1. UNCHANGED <<process, heartbeatVars, timeVars>>
    BY <1>16 DEF BeginOutput, HearCoil
  <2>2. phase' \in {"ended", "running", "stopping", "panicked"}
    BY <2>1 DEF Typed
  <2> QED BY <1>1, <1>2, <2>1, <2>2
<1>17. CASE \E c \in DOMAIN drive: AddressFails(c)
  BY <1>3, <1>17 DEF AddressFails
<1>8. ASSUME NEW p \in Ip, NEW from, NEW to \in Beats, Step(p, from, to), UNCHANGED <<process, timeVars>>
      PROVE  Typed' /\ Sleeping'
  <2>1. beat' \in [Ip -> Beats] /\ knows' = knows
    BY <1>1, <1>8 DEF Step
  <2>2. phase' \in {"ended", "running", "stopping", "panicked"}
    BY <1>8 DEF Typed
  <2> QED BY <1>1, <1>2, <1>8, <2>1, <2>2
<1>9. CASE \E p \in Ip: AskPlc(p) \/ HearPlc(p)
  BY <1>8, <1>9 DEF AskPlc, Ask, HearPlc, RecvInfo, Beats
<1>10. ASSUME NEW p \in Ip, NEW heard \in BOOLEAN, BeatPlc(p, heard) PROVE Typed' /\ Sleeping'
  <2>1. knows' \in [Ip -> BOOLEAN] /\ beat' = beat /\ UNCHANGED <<process, timeVars>>
    BY <1>1, <1>10 DEF BeatPlc, Beat
  <2>2. phase' \in {"ended", "running", "stopping", "panicked"}
    BY <2>1 DEF Typed
  <2> QED BY <1>1, <1>2, <2>1, <2>2
<1>11. CASE Outside
  <2>1. UNCHANGED <<process, timeVars>>
    BY <1>11 DEF Outside
  <2>2. phase' \in {"ended", "running", "stopping", "panicked"}
    BY <2>1 DEF Typed
  <2>3. CASE UNCHANGED heartbeatVars
    BY <1>1, <1>2, <2>1, <2>2, <2>3
  <2> SUFFICES ASSUME NEW p \in Ip, Answer(p) \/ LoseInfo(p) \/ Forget(p)
               PROVE  Typed' /\ Sleeping'
    BY <1>11, <2>3 DEF Outside
  <2>4. CASE Answer(p) \/ LoseInfo(p)
    <3>1. \E from, to \in Beats: Step(p, from, to)
      BY <2>4 DEF Answer, LoseInfo, Beats
    <3> QED BY <1>8, <2>1, <3>1
  <2>5. CASE Forget(p)
    <3>1. knows' \in [Ip -> BOOLEAN] /\ beat' = beat
      BY <1>1, <2>5 DEF Forget
    <3> QED BY <1>1, <1>2, <2>1, <2>2, <3>1
  <2> QED BY <2>4, <2>5
<1>12. CASE TurnOfTime
  <2> DEFINE kinds == {TimeInputs[i].kind: i \in DOMAIN TimeInputs}
  <2>1. /\ <<"Time">> \in DOMAIN Inputs /\ Turn(kinds, Dates)
        /\ phase' \in {"panicked", phase} /\ UNCHANGED <<config, args, order, beat, knows>>
    BY <1>12 DEF TurnOfTime, Times, Dates
  <2>2. clock' = clock
    BY <2>1 DEF Turn
  <2>3. order' \in Orders(Outputs')
    BY <1>1, <2>1, SameMaps
  <2>4. phase' \in {"ended", "running", "stopping", "panicked"}
    BY <2>1 DEF Typed
  <2>5. CASE kinds \subseteq {"InputTime"} /\ \A d \in Dates: Exists(d, clock)
    <3>1. timer' = "sleep" /\ read' = clock /\ wake' = WakeAt(Dates, clock)
      BY <2>1, <2>5 DEF Turn
    <3>2. wake' \in 0..MaxClock + 1 /\ read' \in 0..MaxClock + 1
      BY <1>1, <3>1, WakeType
    <3>3. Typed'
      BY <1>1, <2>1, <2>2, <2>3, <2>4, <3>1, <3>2 DEF Typed, Beats
    <3>4. Inputs' = Inputs /\ Dates' = Dates
      BY <2>1, SameMaps
    <3> QED BY <2>1, <2>5, <3>1, <3>3, <3>4 DEF Sleeping
  <2>6. CASE ~(kinds \subseteq {"InputTime"} /\ \A d \in Dates: Exists(d, clock))
    <3>1. timer' = "panicked" /\ UNCHANGED <<read, wake>>
      BY <2>1, <2>6 DEF Turn
    <3> QED BY <1>1, <2>1, <2>2, <2>3, <2>4, <3>1 DEF Typed, Beats, Sleeping
  <2> QED BY <2>5, <2>6
<1>13. CASE PassTime
  <2>1. clock' \in 0..MaxClock /\ UNCHANGED <<timer, read, wake, process, heartbeatVars>>
    BY <1>1, <1>13 DEF PassTime, Pass
  <2>2. phase' \in {"ended", "running", "stopping", "panicked"}
    BY <2>1 DEF Typed
  <2> QED BY <1>1, <1>2, <2>1, <2>2
<1>14. CASE UNCHANGED vars
  <2>1. phase' \in {"ended", "running", "stopping", "panicked"}
    BY <1>14 DEF Typed
  <2> QED BY <1>1, <1>2, <1>14, <2>1
<1> QED
  BY <1>4, <1>5, <1>6, <1>7, <1>9, <1>10, <1>11, <1>12, <1>13, <1>14,
     <1>15, <1>16, <1>17 DEF Next

\* Only the controllers themselves go through their outputs.
LEMMA NextDriven == Typed /\ Driven /\ [Next]_vars => Driven'
<1> SUFFICES ASSUME Typed, Driven, [Next]_vars PROVE Driven'
  OBVIOUS
<1> USE DEF vars, process, devices, drivingVars
<1>1. ASSUME DriveFrom(Nobody), ~Writing' PROVE Driven'
  BY <1>1 DEF DriveFrom, Nobody, Driven
<1>2. ASSUME UNCHANGED <<config, args, drivingVars>>, phase' = "running" => phase = "running"
      PROVE  Driven'
  BY <1>2, SameMaps DEF Driven, Writing, Running
<1>3. ASSUME NEW c \in DOMAIN drive, NEW to \in {"ready", "asked", "coil", "empty"},
             drive' = [drive EXCEPT ![c] = to], UNCHANGED process,
             unread' = unread \/ \E i: unread' = [unread EXCEPT ![c] = @ \ {i}]
      PROVE  Driven'
  <2>1. Outputs' = Outputs
    BY <1>3, SameMaps
  <2>2. DOMAIN drive' = DOMAIN drive /\ DOMAIN unread' = DOMAIN unread
        /\ \A e \in DOMAIN drive: unread'[e] \subseteq unread[e]
    BY <1>3 DEF Driven
  <2>3. drive' \in [DOMAIN drive -> {"ready", "asked", "coil", "empty"}]
    BY <1>3 DEF Driven
  <2> QED BY <1>3, <2>1, <2>2, <2>3 DEF Driven, Writing, Running
<1>4. CASE Start
  <2>1. CASE phase' = "running" /\ ~args'.no_output
    <3>1. DriveFrom(Outputs')
      BY <1>4, <2>1 DEF Start
    <3> QED BY <2>1, <3>1 DEF DriveFrom, Driven
  <2>2. CASE ~(phase' = "running" /\ ~args'.no_output)
    <3>1. DriveFrom(Nobody)
      BY <1>4, <2>2 DEF Start
    <3> QED BY <1>1, <2>2, <3>1 DEF Writing, Running
  <2> QED BY <2>1, <2>2
<1>5. CASE Leave
  BY <1>1, <1>5 DEF Leave, Writing, Running
<1>6. CASE BranchEnds \/ (\E p \in Ip: HearGarbled(p) \/ PlcFails(p))
           \/ (\E c \in DOMAIN drive: AddressFails(c))
  BY <1>5, <1>6 DEF BranchEnds, HearGarbled, PlcFails, AddressFails
<1>7. CASE NoInputs \/ (\E p \in Ip: HearNothing(p))
           \/ (\E c \in DOMAIN drive: NumberOverflows(c) \/ HearNoCoil(c) \/ MoveForEver(c))
  BY <1>2, <1>7 DEF NoInputs, HearNothing, NumberOverflows, HearNoCoil, MoveForEver, Panic
<1>8. CASE End \/ TurnOfTime \/ PassTime \/ UNCHANGED vars
           \/ \E p \in Ip: AskPlc(p) \/ HearPlc(p) \/ \E heard \in BOOLEAN: BeatPlc(p, heard)
  BY <1>2, <1>8 DEF End, TurnOfTime, Reading, Running, PassTime, AskPlc, HearPlc, BeatPlc
<1>9. ASSUME NEW c \in DOMAIN drive, BeginOutput(c) \/ HearCoil(c) PROVE Driven'
  <2>1. UNCHANGED process
    BY <1>9 DEF BeginOutput, HearCoil
  <2>2. /\ \E to \in {"ready", "asked", "coil", "empty"}: drive' = [drive EXCEPT ![c] = to]
        /\ unread' = unread \/ \E i: unread' = [unread EXCEPT ![c] = @ \ {i}]
    BY <1>9 DEF BeginOutput, HearCoil, TakeCoil, AskCoil, StopCoils, PassOver, Drive, Take
  <2> QED BY <1>3, <2>1, <2>2
<1>10. CASE Outside
  <2>1. UNCHANGED process
    BY <1>10 DEF Outside
  <2>2. CASE UNCHANGED drivingVars
    BY <1>2, <2>1, <2>2
  <2>3. ASSUME NEW c \in DOMAIN drive, AnswerCoil(c) PROVE Driven'
    BY <1>3, <2>1, <2>3 DEF AnswerCoil, Drive
  <2> QED BY <1>10, <2>2, <2>3 DEF Outside
<1> QED BY <1>4, <1>6, <1>7, <1>8, <1>9, <1>10 DEF Next

\* What select! drops is gone.
LEMMA NextQuiet == Typed /\ Quiet /\ [Next]_vars => Quiet'
<1> SUFFICES ASSUME Typed, Quiet, [Next]_vars PROVE Quiet'
  OBVIOUS
<1> USE DEF vars, process, devices, drivingVars, timeVars, heartbeatVars
<1>1. ASSUME HeartbeatsFrom({}), DriveFrom(Nobody), TimeOff PROVE Quiet'
  BY <1>1 DEF HeartbeatsFrom, DriveFrom, Nobody, TimeOff, Quiet
<1>2. CASE Leave
  BY <1>1, <1>2 DEF Leave
<1>3. CASE Start
  <2>1. CASE phase' = "ended"
    BY <1>1, <1>3, <2>1 DEF Start
  <2>2. CASE phase' # "ended"
    BY <1>3, <2>2 DEF Start, Outcome, Quiet
  <2> QED BY <2>1, <2>2
<1>4. CASE BranchEnds \/ (\E p \in Ip: HearGarbled(p) \/ PlcFails(p))
           \/ (\E c \in DOMAIN drive: AddressFails(c))
  BY <1>2, <1>4 DEF BranchEnds, HearGarbled, PlcFails, AddressFails
<1>5. ASSUME phase' \notin {"ended", "stopping"} PROVE Quiet'
  BY <1>5 DEF Quiet
<1>6. CASE NoInputs \/ (\E p \in Ip: HearNothing(p))
           \/ (\E c \in DOMAIN drive: NumberOverflows(c) \/ HearNoCoil(c) \/ MoveForEver(c))
  BY <1>5, <1>6 DEF NoInputs, HearNothing, NumberOverflows, HearNoCoil, MoveForEver, Panic
<1>7. CASE (\E p \in Ip: AskPlc(p) \/ HearPlc(p) \/ \E heard \in BOOLEAN: BeatPlc(p, heard))
           \/ (\E c \in DOMAIN drive: BeginOutput(c) \/ HearCoil(c)) \/ TurnOfTime
  BY <1>5, <1>7 DEF AskPlc, HearPlc, BeatPlc, BeginOutput, HearCoil, TurnOfTime, Reading, Writing, Running
<1>8. CASE End
  BY <1>8 DEF End, Quiet
<1>9. CASE PassTime \/ UNCHANGED vars
  BY <1>9 DEF PassTime, Pass, Quiet
<1>10. CASE Outside
  <2>1. CASE Running
    BY <1>5, <1>10, <2>1 DEF Outside, Running
  <2>2. CASE ~Running
    <3>1. UNCHANGED <<phase, timer, beat, drive>>
      BY <1>10, <2>2 DEF Outside, Forget
    <3> QED BY <3>1 DEF Quiet
  <2> QED BY <2>1, <2>2
<1> QED BY <1>3, <1>4, <1>6, <1>7, <1>8, <1>9, <1>10 DEF Next

LEMMA NextTyped == TypeOK /\ Sleeping /\ [Next]_vars => TypeOK' /\ Sleeping'
<1> SUFFICES ASSUME TypeOK, Sleeping, [Next]_vars PROVE TypeOK' /\ Sleeping'
  OBVIOUS
<1>1. Typed /\ Driven /\ Quiet
  BY TypeParts
<1>2. Typed' /\ Driven' /\ Quiet' /\ Sleeping'
  BY <1>1, NextPlain, NextDriven, NextQuiet
<1>3. TypeOK'
  BY <1>2 DEF TypeOK, Typed, Driven, Quiet, Beats
<1> QED BY <1>2, <1>3

\* The process, its controllers and its clock are always in one of their states, whatever
\* the configuration.
THEOREM TypeCorrect == Spec => []TypeOK
<1>1. Init => TypeOK /\ Sleeping
  BY InitTyped
<1>2. TypeOK /\ Sleeping /\ [Next]_vars => (TypeOK /\ Sleeping)'
  BY NextTyped
<1> QED BY <1>1, <1>2, PTL DEF Spec

-----------------------------------------------------------------------------
\* A configuration with no input the server has a controller for.
LEMMA NoController ==
  ASSUME DOMAIN Inputs = {}, NEW n \in DOMAIN config.inputs
  PROVE  /\ config.inputs[n].kind # "InputTime"
         /\ config.inputs[n].kind \in WagoInput => config.inputs[n].host \notin DOMAIN IpOf
<1> DEFINE defs == config.inputs
           i == defs[n]
<1>1. InputController(i) = None
  BY DEF Inputs, make_input_controller_map, append_map, IdsOf
<1>2. CASE i.kind \in WagoInput /\ i.host \in DOMAIN IpOf
  <2>1. InputController(i) = <<"Wago", IpOf[i.host]>>
    BY <1>2 DEF InputController, WagoInput
  <2> QED BY <1>1, <1>2, <2>1, NoneAssumption
<1>3. CASE i.kind = "InputTime"
  <2>1. InputController(i) = <<"Time">>
    BY <1>3 DEF InputController, WagoInput
  <2> QED BY <1>1, <2>1, NoneAssumption
<1> QED BY <1>2, <1>3

\* What the time controller is given, when no id is used twice.
LEMMA GivenTimes ==
  ASSUME DOMAIN config.inputs \subseteq Nat, <<"Time">> \in DOMAIN Inputs,
         \A n \in DOMAIN config.inputs: Unique(config.inputs, n),
         NEW i \in DOMAIN TimeInputs
  PROVE  \E n \in DOMAIN config.inputs:
           config.inputs[n].kind = "InputTime" /\ TimeInputs[i] = config.inputs[n]
<1> DEFINE defs == config.inputs
<1>1. i \in Inputs[<<"Time">>] /\ TimeInputs[i] = ContextMap(defs)[i]
  BY DEF TimeInputs, filter
<1>2. PICK n \in DOMAIN defs: InputController(defs[n]) = <<"Time">> /\ defs[n].id = i
  BY <1>1 DEF Inputs, make_input_controller_map, append_map, IdsOf
<1>3. ContextMap(defs)[i] = defs[n]
  BY <1>2, OwnDefinition
<1>4. defs[n].kind = "InputTime"
  BY <1>2, NoneAssumption DEF InputController
<1> QED BY <1>1, <1>3, <1>4

\* A controller is given definitions of the configuration: the last one of each id.
LEMMA GivenOutput ==
  ASSUME config \in Configs, NEW c \in DOMAIN Outputs, NEW i \in Outputs[c]
  PROVE  \E n \in DOMAIN config.outputs: Given(c)[i] = config.outputs[n]
<1> DEFINE defs == config.outputs
           P == {m \in DOMAIN defs: defs[m].id = i}
           B == {Len(defs) - m: m \in P}
<1>1. DOMAIN defs = 1..Len(defs) /\ Len(defs) \in Nat
  BY Numbered
<1>2. P # {}
  BY DEF Outputs, make_output_controller_map, append_map, IdsOf
<1>3. B \subseteq Nat /\ B # {}
  <2>1. ASSUME NEW m \in P PROVE Len(defs) - m \in Nat
    BY <1>1
  <2>2. PICK m \in P: TRUE
    BY <1>2
  <2>3. Len(defs) - m \in B
    BY <2>2
  <2> QED BY <2>1, <2>3
<1>4. PICK b \in B: \A e \in B: b <= e
  BY <1>3, Least
<1>5. PICK n \in P: b = Len(defs) - n
  BY <1>4
<1>6. ASSUME NEW m \in P PROVE m <= n
  <2>1. b <= Len(defs) - m
    BY <1>4
  <2> QED BY <1>1, <1>5, <2>1
<1>7. \E m \in DOMAIN defs: defs[m].id = i /\ \A k \in DOMAIN defs: defs[k].id = i => k <= m
  BY <1>6
<1>8. i \in {defs[m].id: m \in DOMAIN defs}
  BY <1>7
<1>9. i \in DOMAIN ContextMap(defs) /\ \E m \in DOMAIN defs: ContextMap(defs)[i] = defs[m]
  BY <1>7, <1>8 DEF ContextMap
<1> QED BY <1>9 DEF Given, filter

LEMMA NextExplained == TypeOK /\ PanicsExplained /\ [Next]_vars => PanicsExplained'
<1> SUFFICES ASSUME TypeOK, PanicsExplained, [Next]_vars, phase' = "panicked" PROVE PanicsExplained'
  BY DEF PanicsExplained
<1> USE DEF vars, process, devices, heartbeatVars, timeVars
<1>1. clock \in Nat /\ config \in Configs /\ LastInstant \in Nat
  BY WidthAssumption DEF TypeOK
<1> DEFINE Because(t) ==
             \/ \A n \in DOMAIN config.inputs:
                  LET i == config.inputs[n] IN
                  i.kind # "InputTime" /\ (i.kind \in WagoInput => i.host \notin DOMAIN IpOf)
             \/ \E n \in DOMAIN config.inputs, u \in 0..t:
                  config.inputs[n].kind = "InputTime" /\ ~Exists(config.inputs[n].date, u)
             \/ \E n \in DOMAIN config.inputs: ~Unique(config.inputs, n)
<1>2. ASSUME UNCHANGED <<config, args>>, ~args.no_input,
             Because(clock') \/ \E p \in Ip: beat'[p] = "empty"
      PROVE  PanicsExplained'
  BY <1>2 DEF PanicsExplained, Exists, MonthAt, MonthOf
<1>13. ASSUME UNCHANGED <<config, args>>, ~args.no_output,
              \/ \E c \in DOMAIN drive': drive'[c] = "empty"
              \/ args.checked /\ \E n \in DOMAIN config.outputs: Overflows(config.outputs[n])
              \/ \E n \in DOMAIN config.outputs: PastTheLast(config.outputs[n], clock')
       PROVE  PanicsExplained'
  BY <1>13 DEF PanicsExplained, PastTheLast, Overflows
<1>3. ASSUME phase = "panicked", UNCHANGED <<config, args, beat, drive>>, clock' \in Nat, clock <= clock'
      PROVE  PanicsExplained'
  <2>1. 0..clock \subseteq 0..clock'
    BY <1>1, <1>3
  <2>2. CASE config.files = "malformed rules"
    BY <1>3, <2>2 DEF PanicsExplained
  <2>3. CASE ~args.no_input /\ (Because(clock) \/ \E p \in Ip: beat[p] = "empty")
    <3>1. Because(clock) => Because(clock')
      BY <2>1
    <3> QED BY <1>2, <1>3, <2>3, <3>1
  <2>4. ASSUME NEW n \in DOMAIN config.outputs, PastTheLast(config.outputs[n], clock)
        PROVE  PastTheLast(config.outputs[n], clock')
    <3>1. config.outputs[n].kind = "WOShutter" => config.outputs[n].time \in Nat
      BY <1>1, ConfigsAssumption
    <3> QED BY <1>1, <1>3, <2>4, <3>1 DEF PastTheLast
  <2>5. CASE /\ ~args.no_output
             /\ \/ \E c \in DOMAIN drive: drive[c] = "empty"
                \/ args.checked /\ \E n \in DOMAIN config.outputs: Overflows(config.outputs[n])
                \/ \E n \in DOMAIN config.outputs: PastTheLast(config.outputs[n], clock)
    BY <1>3, <1>13, <2>4, <2>5
  <2> QED BY <1>3, <2>2, <2>3, <2>5 DEF PanicsExplained
<1>4. CASE Start
  BY <1>4 DEF Start, Outcome, PanicsExplained
<1>5. CASE BranchEnds \/ End \/ (\E p \in Ip: HearGarbled(p) \/ PlcFails(p))
           \/ (\E c \in DOMAIN drive: AddressFails(c))
  BY <1>5 DEF BranchEnds, End, HearGarbled, PlcFails, AddressFails, Leave
<1>6. CASE NoInputs
  <2>1. DOMAIN Inputs = {} /\ ~args.no_input /\ UNCHANGED <<config, args>>
    BY <1>6 DEF NoInputs, Reading, Panic
  <2>2. Because(clock')
    BY <2>1, NoController
  <2> QED BY <1>2, <2>1, <2>2
<1>7. CASE \E p \in Ip: HearNothing(p)
  BY <1>2, <1>7 DEF HearNothing, Reading, Panic
<1>8. CASE (\E p \in Ip: AskPlc(p) \/ HearPlc(p) \/ \E heard \in BOOLEAN: BeatPlc(p, heard))
           \/ (\E c \in DOMAIN drive: BeginOutput(c) \/ HearCoil(c))
  BY <1>8 DEF AskPlc, HearPlc, BeatPlc, BeginOutput, HearCoil, Reading, Writing, Running
<1>14. ASSUME NEW c \in DOMAIN drive, NumberOverflows(c) PROVE PanicsExplained'
  <2>1. PICK i \in unread[c]: args.checked /\ Overflows(Given(c)[i])
    BY <1>14 DEF NumberOverflows, Panics
  <2>2. c \in DOMAIN Outputs /\ i \in Outputs[c]
    BY <2>1 DEF TypeOK
  <2>3. PICK n \in DOMAIN config.outputs: Given(c)[i] = config.outputs[n]
    BY <1>1, <2>2, GivenOutput
  <2>4. Overflows(config.outputs[n])
    BY <2>1, <2>3
  <2>5. UNCHANGED <<config, args>> /\ ~args.no_output
    BY <1>14 DEF NumberOverflows, Writing, Panic
  <2> QED BY <1>13, <2>1, <2>4, <2>5
<1>15. ASSUME NEW c \in DOMAIN drive, HearNoCoil(c) PROVE PanicsExplained'
  BY <1>13, <1>15 DEF HearNoCoil, Writing, Panic, drivingVars
<1>16. ASSUME NEW c \in DOMAIN drive, MoveForEver(c) PROVE PanicsExplained'
  <2>1. PICK i \in DOMAIN Given(c): PastTheLast(Given(c)[i], clock)
    BY <1>16 DEF MoveForEver
  <2>2. c \in DOMAIN Outputs /\ i \in Outputs[c]
    BY <2>1 DEF TypeOK, Given, filter
  <2>3. PICK n \in DOMAIN config.outputs: Given(c)[i] = config.outputs[n]
    BY <1>1, <2>2, GivenOutput
  <2>4. UNCHANGED <<config, args, clock>> /\ ~args.no_output
    BY <1>16 DEF MoveForEver, Writing, Panic
  <2>5. PastTheLast(config.outputs[n], clock')
    BY <2>1, <2>3, <2>4
  <2> QED BY <1>13, <2>4, <2>5
<1>9. CASE Outside
  <2>1. UNCHANGED <<process, timeVars>>
    BY <1>9 DEF Outside
  <2>2. beat' = beat /\ drive' = drive
    BY <1>9, <2>1 DEF Outside, Running, Forget, drivingVars
  <2> QED BY <1>1, <1>3, <2>1, <2>2
<1>10. CASE TurnOfTime
  <2> DEFINE kinds == {TimeInputs[i].kind: i \in DOMAIN TimeInputs}
  <2>1. /\ <<"Time">> \in DOMAIN Inputs /\ Turn(kinds, Dates) /\ phase = "running" /\ ~args.no_input
        /\ UNCHANGED <<config, args, beat>> /\ timer' = "panicked"
    BY <1>10 DEF TurnOfTime, Times, Dates, Reading, Running
  <2>2. ~(kinds \subseteq {"InputTime"} /\ \A d \in Dates: Exists(d, clock)) /\ clock' = clock
    BY <2>1 DEF Turn
  <2>3. DOMAIN config.inputs \subseteq Nat
    BY <1>1, Numbered
  <2>4. CASE \A n \in DOMAIN config.inputs: Unique(config.inputs, n)
    <3>1. kinds \subseteq {"InputTime"}
      BY <2>1, <2>3, <2>4, GivenTimes
    <3>2. PICK i \in DOMAIN TimeInputs: ~Exists(TimeInputs[i].date, clock)
      BY <2>2, <3>1 DEF Dates
    <3>3. PICK n \in DOMAIN config.inputs:
            config.inputs[n].kind = "InputTime" /\ TimeInputs[i] = config.inputs[n]
      BY <2>1, <2>3, <2>4, GivenTimes
    <3>4. clock \in 0..clock' /\ ~Exists(config.inputs[n].date, clock)
      BY <1>1, <2>2, <3>2, <3>3
    <3>5. Because(clock')
      BY <3>3, <3>4
    <3> QED BY <1>2, <2>1, <3>5
  <2>5. CASE ~\A n \in DOMAIN config.inputs: Unique(config.inputs, n)
    BY <1>2, <2>1, <2>5
  <2> QED BY <2>4, <2>5
<1>11. CASE PassTime
  BY <1>1, <1>3, <1>11 DEF PassTime, Pass, drivingVars
<1>12. CASE UNCHANGED vars
  BY <1>1, <1>3, <1>12 DEF drivingVars
<1> QED
  BY <1>4, <1>5, <1>6, <1>7, <1>8, <1>9, <1>10, <1>11, <1>12, <1>14, <1>15, <1>16 DEF Next

\* Whatever its files hold, the server's own code panics in a task of main only over a
\* malformed rules file, no input it has a controller for, an empty answer to a
\* controller of inputs or of outputs, a date that is not one instant, an input id
\* that is used twice, an output's number that overflows, or a run without an end.
THEOREM PanicsAreExplained == Spec => []PanicsExplained
<1>1. Init => PanicsExplained
  BY InitTyped
<1> QED BY <1>1, NextExplained, TypeCorrect, PTL DEF Spec

-----------------------------------------------------------------------------
LEMMA SleepingOver == TypeOK /\ Sleeping => SleptOver
<1> SUFFICES ASSUME TypeOK, Sleeping, NEW n \in DOMAIN config.inputs, NEW t \in 0..MaxClock,
                    config.inputs[n].kind = "InputTime", Unique(config.inputs, n),
                    Slept(config.inputs[n].date, t)
             PROVE  config.inputs[n].date.month = 0 /\ MonthOf(t) # MonthOf(read)
  BY DEF SleptOver
<1> DEFINE i == config.inputs[n]
           d == i.date
<1>1. /\ timer = "sleep" /\ read < t /\ t < wake /\ t <= clock /\ Exists(d, t) /\ At(d, t) = t
  BY DEF Slept
<1>2. /\ <<"Time">> \in DOMAIN Inputs
      /\ \A e \in Dates: Exists(e, read)
      /\ wake = WakeAt(Dates, read)
  BY <1>1 DEF Sleeping
<1>3. DOMAIN config.inputs \subseteq Nat
  BY Numbered DEF TypeOK
<1>4. InputController(i) = <<"Time">>
  BY DEF InputController, WagoInput
<1>5. i.id \in Inputs[<<"Time">>]
  BY <1>4, NoneAssumption DEF Inputs, make_input_controller_map, append_map, IdsOf
<1>6. i.id \in DOMAIN ContextMap(config.inputs) /\ ContextMap(config.inputs)[i.id] = i
  BY <1>3, OwnDefinition
<1>7. i.id \in DOMAIN TimeInputs /\ TimeInputs[i.id] = i
  BY <1>5, <1>6 DEF TimeInputs, filter
<1>8. d \in Dates
  BY <1>7 DEF Dates
<1>9. ASSUME At(d, read) = t PROVE FALSE
  <2>1. read \in Nat /\ read <= MaxClock /\ t \in Nat /\ MaxClock \in Nat
    BY <1>1, CalendarAssumption DEF TypeOK
  <2>2. t \in Pending(Dates, read)
    BY <1>1, <1>8, <1>9, <2>1 DEF Pending
  <2>3. wake <= t
    BY <1>2, <2>1, <2>2, WakeType
  <2>4. wake \in Nat
    BY DEF TypeOK
  <2> QED BY <1>1, <2>1, <2>3, <2>4
<1>10. d.month = 0
  <2>1. CASE d.month # 0
    BY <1>1, <1>9, <2>1 DEF At, MonthAt
  <2> QED BY <2>1
<1>11. MonthOf(t) # MonthOf(read)
  BY <1>1, <1>9, <1>10 DEF At, MonthAt
<1> QED BY <1>10, <1>11

\* No time passes unnoticed while the time controller sleeps, but one whose open month
\* was taken to be that of the last reading, whatever the dates and the calendar.
THEOREM NothingSleptOver == Spec => []SleptOver
<1>1. Init => TypeOK /\ Sleeping
  BY InitTyped
<1>2. TypeOK /\ Sleeping /\ [Next]_vars => (TypeOK /\ Sleeping)'
  BY NextTyped
<1> QED BY <1>1, <1>2, SleepingOver, PTL DEF Spec
==================================================================================
