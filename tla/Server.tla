--------------------------------- MODULE Server ---------------------------------
(***************************************************************************)
(* The server process (server/src/main.rs): the files it reads, the maps   *)
(* it makes of them, the input controllers it runs, its shutdown, its      *)
(* panics, and its next start.  (How commands and values travel between    *)
(* the tasks is the subject of House, the farewell that of MqttClient.)    *)
(***************************************************************************)
EXTENDS ContextMaps, Heartbeat, Driving, TimeController

CONSTANTS
  Configs,   \* what the files may hold: [files, inputs, outputs]
  Args       \* how it is started, and built (overflow checks): [no_input, no_output, checked]

ASSUME ConfigsAssumption ==
  \A c \in Configs:
    /\ \A defs \in {c.inputs, c.outputs}: Len(defs) \in Nat /\ DOMAIN defs = 1..Len(defs)
    /\ \A n \in DOMAIN c.outputs:
         LET o == c.outputs[n] IN
         /\ o.kind = "WODigital" => o.var \in Nat
         /\ o.kind = "WOShutter" => {o.var_up, o.var_down, o.time} \subseteq Nat

VARIABLES
  phase,          \* "ended", "running", "stopping" or "panicked"
  config, args,   \* what the server was started with
  order           \* that of the output controllers in their hash map

process == <<phase, config, args, order>>
devices == <<heartbeatVars, drivingVars, timeVars>>
vars == <<process, devices>>

Inputs  == make_input_controller_map(config.inputs)
Outputs == make_output_controller_map(config.outputs)

Init ==
  /\ phase = "ended"
  /\ config \in Configs /\ args \in Args /\ order \in Orders(Outputs)
  /\ HeartbeatInit /\ TimeInit /\ drive = Nobody /\ unread = Nobody

(***************************************************************************)
(* Start and end.                                                          *)
(***************************************************************************)
\* read_from_file of config/io.rs returns every error; that of config/rules.rs
\* unwraps those of the parser.  load_certs and load_keys return theirs.
Outcome(files) ==
  CASE files = "good"            -> "running"
    [] files = "malformed rules" -> "panicked"
    [] OTHER                     -> "ended"

Plcs(map) == {p \in Ip: <<"Wago", p>> \in DOMAIN map}

Start ==
  /\ phase \in {"ended", "panicked"}
  /\ config' \in Configs /\ args' \in Args
  /\ order' \in Orders(Outputs')
  /\ phase' = Outcome(config'.files)
  /\ HeartbeatsFrom(IF phase' = "running" /\ ~args'.no_input THEN Plcs(Inputs') ELSE {})
  /\ DriveFrom(IF phase' = "running" /\ ~args'.no_output THEN Outputs' ELSE Nobody)
  /\ TimeOff /\ UNCHANGED knows

Running == phase = "running"
Reading == Running /\ ~args.no_input
Writing == Running /\ ~args.no_output

\* Mutant: the time controller is not one of those that are dropped.
LeaveTimer ==
  /\ phase' = "stopping" /\ HeartbeatsFrom({}) /\ DriveFrom(Nobody)
  /\ UNCHANGED <<config, args, order, timeVars>>

\* One branch of select! returns, and the others are dropped.
Leave ==
  /\ phase' = "stopping" /\ HeartbeatsFrom({}) /\ DriveFrom(Nobody) /\ TimeOff
  /\ UNCHANGED <<config, args, order>>

\* The main server, an output controller (its connection fails, or the channel it
\* broadcasts to), the rules engine, a websocket server, ctrl_c.
BranchEnds == Running /\ Leave /\ UNCHANGED knows

End ==
  /\ phase = "stopping" /\ phase' = "ended"
  /\ UNCHANGED <<config, args, order, devices>>

\* A panic in one of the tasks of main ends the process on the spot.
Panic ==
  /\ phase' = "panicked"
  /\ UNCHANGED <<config, args, order, devices>>

(***************************************************************************)
(* run_input_controllers.                                                  *)
(***************************************************************************)
\* select_all panics when there is nothing to select from.
NoInputs ==
  /\ Reading /\ DOMAIN Inputs = {}
  /\ Panic

AskPlc(p) == Reading /\ Ask(p) /\ UNCHANGED <<process, drivingVars, timeVars>>

HearPlc(p) == Reading /\ RecvInfo(p) /\ UNCHANGED <<process, drivingVars, timeVars>>

\* The answer is taken to be one byte at least.
HearNothing(p) ==
  /\ Reading /\ beat[p] = "empty"
  /\ Panic

\* str::from_utf8 fails.
HearGarbled(p) == Reading /\ beat[p] = "garbled" /\ Leave /\ UNCHANGED knows

BeatPlc(p, heard) == Reading /\ Beat(p, heard) /\ UNCHANGED <<process, drivingVars, timeVars>>

\* The first controller that fails ends the server.
PlcFails(p) == Reading /\ Fail(p) /\ Leave

(***************************************************************************)
(* run_output_controllers: filter_output, and make_output_instance for each*)
(* of the controllers.  (The dispatcher is in House.)                      *)
(***************************************************************************)
Given(c) == filter(ContextMap(config.outputs), Outputs[c])

Panics(o) == args.checked /\ Overflows(o)

BeginOutput(c) ==
  /\ Writing
  /\ \E i \in unread[c]:
       LET o == Given(c)[i]
       IN  ~Panics(o) /\ (AskCoil(c, i, o) \/ StopCoils(c, i, o) \/ PassOver(c, i, o))
  /\ UNCHANGED <<process, heartbeatVars, timeVars>>

NumberOverflows(c) ==
  /\ Writing /\ drive[c] = "ready"
  /\ \E i \in unread[c]: Panics(Given(c)[i])
  /\ Panic

\* The error of one controller ends the server, when it begins or with a command.
AddressFails(c) ==
  /\ Writing /\ drive[c] = "ready"
  /\ \/ \E i \in unread[c]: NoAddress(Given(c)[i]) /\ ~Panics(Given(c)[i])
     \/ Serves(c) /\ \E i \in DOMAIN Given(c): NoCoilToSet(Given(c)[i])
  /\ Leave /\ UNCHANGED knows

HearCoil(c) == Writing /\ TakeCoil(c) /\ UNCHANGED <<process, heartbeatVars, timeVars>>

HearNoCoil(c) == Writing /\ drive[c] = "empty" /\ Panic

\* A command that moves a shutter.  (One that does not end in a panic changes
\* nothing here.)
MoveForEver(c) ==
  /\ Writing /\ Serves(c)
  /\ \E i \in DOMAIN Given(c): PastTheLast(Given(c)[i], clock)
  /\ Panic

-----------------------------------------------------------------------------
\* The PLCs and the network.
Outside ==
  /\ \/ /\ \E p \in Ip: (Running /\ (Answer(p) \/ LoseInfo(p))) \/ Forget(p)
        /\ UNCHANGED drivingVars
     \/ /\ Running /\ \E c \in DOMAIN drive: AnswerCoil(c)
        /\ UNCHANGED heartbeatVars
  /\ UNCHANGED <<process, timeVars>>

TimeInputs == filter(ContextMap(config.inputs), Inputs[<<"Time">>])

Times(map) ==
  LET kinds == {map[i].kind: i \in DOMAIN map}
      dates == {map[i].date: i \in {j \in DOMAIN map: map[j].kind = "InputTime"}}
  IN  Turn(kinds, dates)

TurnOfTime ==
  /\ Reading /\ <<"Time">> \in DOMAIN Inputs
  /\ Times(TimeInputs)
  /\ phase' = IF timer' = "panicked" THEN "panicked" ELSE phase
  /\ UNCHANGED <<config, args, order, heartbeatVars, drivingVars>>

PassTime == Pass /\ UNCHANGED <<process, heartbeatVars, drivingVars>>

Next ==
  \/ Start
  \/ BranchEnds
  \/ End
  \/ NoInputs
  \/ \E p \in Ip: AskPlc(p)
  \/ \E p \in Ip: HearPlc(p)
  \/ \E p \in Ip: HearNothing(p)
  \/ \E p \in Ip, heard \in BOOLEAN: BeatPlc(p, heard)
  \/ \E p \in Ip: HearGarbled(p)
  \/ \E p \in Ip: PlcFails(p)
  \/ \E c \in DOMAIN drive: BeginOutput(c)
  \/ \E c \in DOMAIN drive: NumberOverflows(c)
  \/ \E c \in DOMAIN drive: AddressFails(c)
  \/ \E c \in DOMAIN drive: HearCoil(c)
  \/ \E c \in DOMAIN drive: HearNoCoil(c)
  \/ \E c \in DOMAIN drive: MoveForEver(c)
  \/ Outside
  \/ TurnOfTime
  \/ PassTime

Spec == Init /\ [][Next]_vars

\* The runtime runs each controller; a network that does not lose for ever lets a
\* heartbeat pass now and then.
FairSpec ==
  /\ Spec
  /\ \A p \in Ip:
       /\ WF_vars(Answer(p) /\ Outside)
       /\ WF_vars(AskPlc(p)) /\ WF_vars(HearPlc(p) \/ HearNothing(p) \/ HearGarbled(p))
       /\ SF_vars(BeatPlc(p, TRUE))

-----------------------------------------------------------------------------
\* The controllers a process has are those of its configuration and its options,
\* and a server that has left select! has none any more.
TypeOK ==
  /\ phase \in {"ended", "running", "stopping", "panicked"}
  /\ config \in Configs /\ args \in Args /\ order \in Orders(Outputs)
  /\ beat \in [Ip -> {"off", "ask", "asked", "answered", "empty", "garbled", "lost", "beating"}]
  /\ knows \in [Ip -> BOOLEAN]
  /\ drive \in [DOMAIN drive -> {"ready", "asked", "coil", "empty"}]
  /\ DOMAIN unread = DOMAIN drive /\ DOMAIN drive \subseteq DOMAIN Outputs
  /\ \A c \in DOMAIN drive: unread[c] \subseteq Outputs[c]
  /\ timer \in {"off", "sleep", "panicked"}
  /\ clock \in 0..MaxClock /\ {read, wake} \subseteq 0..MaxClock + 1
  /\ Writing => DOMAIN drive = DOMAIN Outputs
  /\ phase \in {"ended", "stopping"} =>
       timer = "off" /\ (\A p \in Ip: beat[p] = "off") /\ drive = Nobody

\* Whatever the order of the hash maps, an output of a kind the server drives, with
\* an address that parses and an id of its own, is reached through the controller
\* of its own PLC, which has its definition.
Destined ==
  phase = "running" =>
    \A n \in DOMAIN config.outputs:
      LET o == config.outputs[n]
          own == <<"Wago", IpOf[o.host], PortOf[o.port]>>
          route == reverse_map(Outputs, order)
          given == filter(ContextMap(config.outputs), Outputs[own])
      IN  o.kind \in WagoOutput /\ o.host \in DOMAIN IpOf /\ o.port \in DOMAIN PortOf
            /\ Unique(config.outputs, n) =>
              /\ o.id \in DOMAIN route /\ route[o.id] = own
              /\ o.id \in DOMAIN given /\ given[o.id] = o

\* Of the panics in the code of this repository that end the process (those of the
\* tasks of main; the MQTT client has its own), these are all the reasons: a rules
\* file that is not well-formed; no input, or none the server has a controller for;
\* a PLC's empty answer, to either kind of controller; an input time that is not
\* one instant (each time the date is read again: a server that has run for weeks
\* may find its dates impossible in a new month); an input id that is used twice;
\* an output's number that overflows, where that is checked; a shutter whose run
\* would end after the last instant there is.
PanicsExplained ==
  phase = "panicked" =>
    \/ config.files = "malformed rules"
    \/ /\ ~args.no_input
       /\ \/ \A n \in DOMAIN config.inputs:
               LET i == config.inputs[n] IN
               i.kind # "InputTime" /\ (i.kind \in WagoInput => i.host \notin DOMAIN IpOf)
          \/ \E p \in Ip: beat[p] = "empty"
          \/ \E n \in DOMAIN config.inputs, t \in 0..clock:
               config.inputs[n].kind = "InputTime" /\ ~Exists(config.inputs[n].date, t)
          \/ \E n \in DOMAIN config.inputs: ~Unique(config.inputs, n)
    \/ /\ ~args.no_output
       /\ \/ \E c \in DOMAIN drive: drive[c] = "empty"
          \/ args.checked /\ \E n \in DOMAIN config.outputs: Overflows(config.outputs[n])
          \/ \E n \in DOMAIN config.outputs: PastTheLast(config.outputs[n], clock)

\* What comes while the time controller sleeps is a time whose date was open, and
\* that was taken to be in the month of the last reading.
SleptOver ==
  \A n \in DOMAIN config.inputs, t \in 0..MaxClock:
    LET i == config.inputs[n] IN
    i.kind = "InputTime" /\ Unique(config.inputs, n) /\ Slept(i.date, t) =>
      i.date.month = 0 /\ MonthOf(t) # MonthOf(read)

\* Every PLC with buttons learns where the server is, again after it has been off,
\* as long as the server runs; unless the one exchange with it was lost, for which
\* the controller then waits for ever.
HeartbeatsGoOn ==
  \A p \in Ip:
    <>[](/\ phase = "running" /\ ~args.no_input /\ beat[p] # "lost"
         /\ \E n \in DOMAIN config.inputs:
              LET i == config.inputs[n] IN
              i.kind \in WagoInput /\ i.host \in DOMAIN IpOf /\ IpOf[i.host] = p)
      => []<>knows[p]
=============================================================================
