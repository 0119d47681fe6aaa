------------------------ MODULE WagoModbusController ------------------------
(***************************************************************************)
(* The task that drives the outputs of one Wago PLC over modbus            *)
(* (core/src/io/wago_modbus_controller.rs) and the coils it drives.  Every *)
(* await on the modbus connection is a step of its own: the environment    *)
(* may queue commands, the clock may advance and the server may stop in    *)
(* between.  The coils belong to the PLC and survive the server; all the   *)
(* other variables are lost with it.                                       *)
(***************************************************************************)
EXTENDS IOValue, Sequences, FiniteSets

CONSTANTS
  Digital,      \* ids of the WODigital outputs: one coil each
  Shutter,      \* ids of the WOShutter outputs: an "up" coil and a "down" coil
  OtherId,      \* ids the controller has no output for, or none it implements
  None,         \* no id: the controller is not talking to the PLC
  RunTime,      \* WagoIOUpDown.time of each shutter, in ticks
  Values,       \* the values a command may carry
  RxCapacity    \* bound of the command channel (CHANNEL_CAPACITY)

Output == Digital \cup Shutter

ASSUME IdsAssumption == Digital \cap Shutter = {} /\ None \notin Output
ASSUME RunTimeAssumption == RunTime \in [Shutter -> Nat]
ASSUME RxCapacityAssumption == RxCapacity \in Nat \ {0}
ASSUME ValuesAssumption == Values \subseteq IOValueSet

Command == [id: Output \cup OtherId,
            action: {Toggle, Stop} \cup {SetValue(v): v \in Values}]

VARIABLES
  relay, up, down,  \* the coils, as the PLC drives them
  value,            \* OutputContext.value: what the controller believes
  feedback,         \* the last value broadcast for each output
  task,             \* wait_task: the running shutters' remaining time
  rx,               \* the commands not yet received
  pc,               \* where run() stands
  job,              \* the output run() is serving, and why
  todo,             \* outputs the current for loop has not reached yet
  batch             \* the tasks that were due when the expiry loop began

plc  == <<relay, up, down>>
ctx  == <<value, feedback>>
loop == <<todo, batch>>
vars == <<plc, ctx, task, rx, pc, job, loop>>

Direction == {"Up", "Down"}
Purpose   == {"start", "expire", "halt", "on", "off", "none"} \cup Direction
Location  == {"stopped", "start", "select", "keepAlive", "write",
              "offDown", "offUp", "switchOn", "expire"}

NoTask == [left |-> 0, target |-> "none"]
NoJob  == [id |-> None, why |-> "none"]
Armed(s) == task[s].target # "none"
\* Mutant: every armed task counts as due.
DueArmed == {s \in Shutter: Armed(s)}

Due == {s \in Shutter: Armed(s) /\ task[s].left = 0}
Moving(dir) == IF dir = "Up" THEN "MovingUp" ELSE "MovingDown"

(***************************************************************************)
(* The variables of a process that does not exist: before the first start  *)
(* and after run() has returned.                                           *)
(***************************************************************************)
Init ==
  /\ relay = [d \in Digital |-> FALSE]
  /\ up    = [s \in Shutter |-> FALSE]
  /\ down  = [s \in Shutter |-> FALSE]
  /\ value    = [o \in Output |-> NoValue]
  /\ feedback = [o \in Output |-> NoValue]
  /\ task = [s \in Shutter |-> NoTask]
  /\ rx = <<>> /\ job = NoJob /\ todo = {} /\ batch = {}
  /\ pc = "stopped"

(***************************************************************************)
(* ModbusClient::connect, and the channels of a new server.                *)
(***************************************************************************)
\* Mutant: the new server goes straight to its main loop.
RestartWithoutLoop ==
  /\ pc = "stopped"
  /\ pc' = "select"
  /\ UNCHANGED <<plc, ctx, task, rx, job, loop>>

Restart ==
  /\ pc = "stopped"
  /\ pc' = "start"
  /\ todo' = Output
  /\ UNCHANGED <<plc, ctx, task, rx, job, batch>>

(***************************************************************************)
(* The startup loop takes the outputs in the order of a HashMap.  A relay  *)
(* is read back; the state of a shutter cannot be read, so it is stopped.  *)
(***************************************************************************)
update_state(o, v) ==
  /\ value'    = [value EXCEPT ![o] = v]
  /\ feedback' = [feedback EXCEPT ![o] = v]

StartDigital(d) ==
  /\ pc = "start" /\ d \in todo
  /\ update_state(d, BoolVal(relay[d]))
  /\ todo' = todo \ {d}
  /\ UNCHANGED <<plc, task, rx, pc, job, batch>>

Serve(o, why, at) ==
  /\ job' = [id |-> o, why |-> why]
  /\ pc' = at

StartShutter(s) ==
  /\ pc = "start" /\ s \in todo
  /\ Serve(s, "start", "offDown")
  /\ todo' = todo \ {s}
  /\ UNCHANGED <<plc, ctx, task, rx, batch>>

EnterLoop ==
  /\ pc = "start" /\ todo = {}
  /\ pc' = "select"
  /\ UNCHANGED <<plc, ctx, task, rx, job, loop>>

(***************************************************************************)
(* The rules engine, the MQTT client and the websocket clients queue       *)
(* commands as soon as the server has started.                             *)
(***************************************************************************)
Send(c) ==
  /\ pc # "stopped" /\ Len(rx) < RxCapacity
  /\ rx' = Append(rx, c)
  /\ UNCHANGED <<plc, ctx, task, pc, job, loop>>

(***************************************************************************)
(* The rx.recv() branch.  A command is ignored when the id is unknown,     *)
(* when a toggle finds no value to start from, or when it asks a relay for *)
(* anything but a Bool.                                                    *)
(***************************************************************************)
new_value(c) ==
  CASE c.action = Toggle -> toggle(value[c.id])
    [] c.action = Stop   -> NoValue
    [] OTHER             -> c.action[2]

Ignored(c) ==
  c.id \in Output =>
    \/ c.action = Toggle /\ new_value(c) = NoValue
    \/ c.id \in Digital /\ Variant(new_value(c)) # "Bool"

(***************************************************************************)
(* A shutter is halted by anything that is not a shutter state, and by the *)
(* command it is already carrying out.                                     *)
(***************************************************************************)
Halts(s, v) ==
  \/ Variant(v) # "Shutter"
  \/ \E dir \in Direction: v = ShutterVal(dir) /\ value[s] = ShutterVal(Moving(dir))

DirectionOf(v) == IF Payload(v) \in {"Up", "MovingUp"} THEN "Up" ELSE "Down"

Receive == pc = "select" /\ rx # <<>> /\ rx' = Tail(rx)

RecvIgnored ==
  /\ Receive /\ Ignored(Head(rx))
  /\ UNCHANGED <<plc, ctx, task, pc, job, loop>>

RecvWrite ==
  /\ Receive /\ ~Ignored(Head(rx)) /\ Head(rx).id \in Digital
  /\ Serve(Head(rx).id, IF Payload(new_value(Head(rx))) THEN "on" ELSE "off", "write")
  /\ UNCHANGED <<plc, ctx, task, loop>>

\* Mutant: a new direction switches only the up coil off first.
RecvMoveHalfStop ==
  /\ Receive /\ ~Ignored(Head(rx)) /\ Head(rx).id \in Shutter
  /\ ~Halts(Head(rx).id, new_value(Head(rx)))
  /\ Serve(Head(rx).id, DirectionOf(new_value(Head(rx))), "offUp")
  /\ UNCHANGED <<plc, ctx, task, loop>>

RecvMove ==
  /\ Receive /\ ~Ignored(Head(rx)) /\ Head(rx).id \in Shutter
  /\ ~Halts(Head(rx).id, new_value(Head(rx)))
  /\ Serve(Head(rx).id, DirectionOf(new_value(Head(rx))), "offDown")
  /\ UNCHANGED <<plc, ctx, task, loop>>

RecvHalt ==
  /\ Receive /\ ~Ignored(Head(rx)) /\ Head(rx).id \in Shutter
  /\ Halts(Head(rx).id, new_value(Head(rx)))
  /\ Serve(Head(rx).id, "halt", "offDown")
  /\ UNCHANGED <<plc, ctx, task, loop>>

Recv == RecvIgnored \/ RecvWrite \/ RecvMove \/ RecvHalt

\* Mutant: the new state of a relay is broadcast but not kept.
WriteCoilUnkept ==
  /\ pc = "write"
  /\ relay' = [relay EXCEPT ![job.id] = (job.why = "on")]
  /\ feedback' = [feedback EXCEPT ![job.id] = BoolVal(job.why = "on")]
  /\ pc' = "select" /\ job' = NoJob
  /\ UNCHANGED <<up, down, value, task, rx, loop>>

WriteCoil ==
  /\ pc = "write"
  /\ relay' = [relay EXCEPT ![job.id] = (job.why = "on")]
  /\ update_state(job.id, BoolVal(job.why = "on"))
  /\ pc' = "select" /\ job' = NoJob
  /\ UNCHANGED <<up, down, task, rx, loop>>

(***************************************************************************)
(* stop_shutter: two writes, the down coil first.  What follows the second *)
(* one depends on who called.                                              *)
(***************************************************************************)
StopDown ==
  /\ pc = "offDown"
  /\ down' = [down EXCEPT ![job.id] = FALSE]
  /\ pc' = "offUp"
  /\ UNCHANGED <<relay, up, ctx, task, rx, job, loop>>

StopUp ==
  /\ pc = "offUp"
  /\ up' = [up EXCEPT ![job.id] = FALSE]
  /\ UNCHANGED <<relay, down, rx, loop>>

\* At startup Up is broadcast, but not kept in the output's context.
StopThenStart ==
  /\ StopUp /\ job.why = "start"
  /\ feedback' = [feedback EXCEPT ![job.id] = ShutterVal("Up")]
  /\ pc' = "start" /\ job' = NoJob
  /\ UNCHANGED <<value, task>>

StopThenMove ==
  /\ StopUp /\ job.why \in Direction
  /\ pc' = "switchOn"
  /\ UNCHANGED <<ctx, task, job>>

\* Mutant: a halted shutter keeps its task.
StopThenHaltArmed ==
  /\ StopUp /\ job.why = "halt"
  /\ update_state(job.id, ShutterVal("Up"))
  /\ pc' = "select" /\ job' = NoJob
  /\ UNCHANGED task

StopThenHalt ==
  /\ StopUp /\ job.why = "halt"
  /\ task' = [task EXCEPT ![job.id] = NoTask]
  /\ update_state(job.id, ShutterVal("Up"))
  /\ pc' = "select" /\ job' = NoJob

StopThenExpire ==
  /\ StopUp /\ job.why = "expire"
  /\ update_state(job.id, ShutterVal(task[job.id].target))
  /\ pc' = "expire" /\ job' = NoJob
  /\ UNCHANGED task

\* Mutant: the state reported is the one the shutter is heading for.
SwitchOnArrived ==
  /\ pc = "switchOn"
  /\ up'   = [up   EXCEPT ![job.id] = @ \/ job.why = "Up"]
  /\ down' = [down EXCEPT ![job.id] = @ \/ job.why = "Down"]
  /\ task' = [task EXCEPT ![job.id] = [left |-> RunTime[job.id], target |-> job.why]]
  /\ update_state(job.id, ShutterVal(job.why))
  /\ pc' = "select" /\ job' = NoJob
  /\ UNCHANGED <<relay, rx, loop>>

SwitchOn ==
  /\ pc = "switchOn"
  /\ up'   = [up   EXCEPT ![job.id] = @ \/ job.why = "Up"]
  /\ down' = [down EXCEPT ![job.id] = @ \/ job.why = "Down"]
  /\ task' = [task EXCEPT ![job.id] = [left |-> RunTime[job.id], target |-> job.why]]
  /\ update_state(job.id, ShutterVal(Moving(job.why)))
  /\ pc' = "select" /\ job' = NoJob
  /\ UNCHANGED <<relay, rx, loop>>

(***************************************************************************)
(* The wait_for_task branch: the tasks due at one reading of the clock are *)
(* served one after the other, and forgotten together at the end.          *)
(***************************************************************************)
\* Mutant: commands are always served before expiries.
BeginExpiryBiased ==
  /\ pc = "select" /\ rx = <<>> /\ Due # {}
  /\ pc' = "expire" /\ todo' = Due /\ batch' = Due
  /\ UNCHANGED <<plc, ctx, task, rx, job>>

BeginExpiry ==
  /\ pc = "select" /\ Due # {}
  /\ pc' = "expire" /\ todo' = Due /\ batch' = Due
  /\ UNCHANGED <<plc, ctx, task, rx, job>>

\* Mutant: the loop comes back to the task it has just served.
ExpireAgain(s) ==
  /\ pc = "expire" /\ s \in todo
  /\ Serve(s, "expire", "offDown")
  /\ UNCHANGED <<plc, ctx, task, rx, loop>>

ExpireNext(s) ==
  /\ pc = "expire" /\ s \in todo
  /\ Serve(s, "expire", "offDown")
  /\ todo' = todo \ {s}
  /\ UNCHANGED <<plc, ctx, task, rx, batch>>

Forget(S) == [s \in Shutter |-> IF s \in S THEN NoTask ELSE task[s]]

\* Mutant: retain() reads the clock again.
EndExpiryReread ==
  /\ pc = "expire" /\ todo = {}
  /\ task' = Forget(Due)
  /\ batch' = {} /\ pc' = "select"
  /\ UNCHANGED <<plc, ctx, rx, job, todo>>

EndExpiry ==
  /\ pc = "expire" /\ todo = {}
  /\ task' = Forget(batch)
  /\ batch' = {} /\ pc' = "select"
  /\ UNCHANGED <<plc, ctx, rx, job, todo>>

(***************************************************************************)
(* The keep-alive branch reads one input and changes nothing.  Its timer   *)
(* starts again with every turn of the loop; here it may fire in any turn. *)
(***************************************************************************)
BeginKeepAlive ==
  /\ pc = "select" /\ pc' = "keepAlive"
  /\ UNCHANGED <<plc, ctx, task, rx, job, loop>>

EndKeepAlive ==
  /\ pc = "keepAlive" /\ pc' = "select"
  /\ UNCHANGED <<plc, ctx, task, rx, job, loop>>

Tick ==
  /\ \E s \in Shutter: task[s].left > 0
  /\ task' = [s \in Shutter |->
                [task[s] EXCEPT !.left = IF @ > 0 THEN @ - 1 ELSE @]]
  /\ UNCHANGED <<plc, ctx, rx, pc, job, loop>>

(***************************************************************************)
(* run() returns, on a modbus error or because the channel was closed, or  *)
(* the whole server ends.  A request already sent may still reach its      *)
(* coil; everything else is gone.                                          *)
(***************************************************************************)
InFlight ==
  /\ relay' = IF pc = "write" THEN [relay EXCEPT ![job.id] = (job.why = "on")] ELSE relay
  /\ down'  = CASE pc = "offDown"  -> [down EXCEPT ![job.id] = FALSE]
                [] pc = "switchOn" -> [down EXCEPT ![job.id] = @ \/ job.why = "Down"]
                [] OTHER           -> down
  /\ up'    = CASE pc = "offUp"    -> [up EXCEPT ![job.id] = FALSE]
                [] pc = "switchOn" -> [up EXCEPT ![job.id] = @ \/ job.why = "Up"]
                [] OTHER           -> up

Crash ==
  /\ pc # "stopped"
  /\ InFlight \/ UNCHANGED plc
  /\ value'    = [o \in Output |-> NoValue]
  /\ feedback' = [o \in Output |-> NoValue]
  /\ task' = [s \in Shutter |-> NoTask]
  /\ rx' = <<>> /\ job' = NoJob /\ todo' = {} /\ batch' = {}
  /\ pc' = "stopped"

Work ==
  \/ \E d \in Digital: StartDigital(d)
  \/ \E s \in Shutter: StartShutter(s)
  \/ EnterLoop
  \/ WriteCoil
  \/ StopDown
  \/ StopThenStart
  \/ StopThenMove
  \/ StopThenHalt
  \/ StopThenExpire
  \/ SwitchOn
  \/ \E s \in Shutter: ExpireNext(s)
  \/ EndExpiry
  \/ EndKeepAlive

Next ==
  \/ Restart
  \/ \E c \in Command: Send(c)
  \/ Recv
  \/ BeginExpiry
  \/ BeginKeepAlive
  \/ Work
  \/ Tick
  \/ Crash

Spec == Init /\ [][Next]_vars

(***************************************************************************)
(* Fairness.  The PLC answers each request (the awaits have no timeout, so *)
(* this is assumed of it), the clock advances, and tokio::select! polls    *)
(* its branches in random order, so a branch that is ready again and again *)
(* is taken: strong fairness.  Nothing forces a crash, a restart or a      *)
(* command.                                                                *)
(***************************************************************************)
Fairness ==
  /\ WF_vars(Work)
  /\ WF_vars(Tick)
  /\ SF_vars(Recv)
  /\ SF_vars(BeginExpiry)

FairSpec == Spec /\ Fairness

-----------------------------------------------------------------------------
(***************************************************************************)
(* Properties.                                                             *)
(***************************************************************************)
Driven(s) == up[s] \/ down[s]

Starting  == pc = "start" \/ job.why = "start"
Expiring  == pc = "expire" \/ job.why = "expire"
Unstarted == IF Starting THEN todo \cup {job.id} ELSE {}

\* The types of the variables, and the bound of the command channel.
TypeOK ==
  /\ relay \in [Digital -> BOOLEAN]
  /\ up \in [Shutter -> BOOLEAN]
  /\ down \in [Shutter -> BOOLEAN]
  /\ value \in [Output -> IOValueSet \cup {NoValue}]
  /\ feedback \in [Output -> IOValueSet \cup {NoValue}]
  /\ task \in [Shutter -> [left: Nat, target: Direction \cup {"none"}]]
  /\ rx \in Seq(Command) /\ Len(rx) <= RxCapacity
  /\ pc \in Location
  /\ job \in [id: Output \cup {None}, why: Purpose]
  /\ todo \subseteq Output
  /\ batch \subseteq Shutter

\* The motor is never driven both ways at once, at no step of any command,
\* and whatever a crash left behind.
Interlock == \A s \in Shutter: ~(up[s] /\ down[s])

\* Once the startup loop has reached a shutter, its motor runs only while a
\* task is waiting to stop it, and the task knows which way it runs: no motor
\* is left running with nobody to switch it off (wait_task.insert, remove and
\* retain against stop_shutter and set_var_on).
MotionTimed ==
  pc # "stopped" =>
    \A s \in Shutter \ Unstarted:
      /\ up[s]   => task[s].target = "Up"
      /\ down[s] => task[s].target = "Down"

\* Whoever listens to the broadcasts sees a shutter moving exactly while its
\* motor is driven that way, and a relay as it is: the only output the
\* reports may be behind on is the one being served.
TruthfulReport ==
  pc # "stopped" =>
    \A o \in Output \ (Unstarted \cup {job.id}):
      /\ o \in Shutter => /\ up[o]   <=> feedback[o] = ShutterVal("MovingUp")
                          /\ down[o] <=> feedback[o] = ShutterVal("MovingDown")
      /\ o \in Digital => feedback[o] = BoolVal(relay[o])

\* Run() is between two awaits on the PLC exactly when it serves an output,
\* and what it is doing fits the kind of that output.
JobFits ==
  /\ pc \in {"stopped", "start", "select", "keepAlive", "expire"} => job = NoJob
  /\ pc = "write" => job.id \in Digital /\ job.why \in {"on", "off"}
  /\ pc \in {"offDown", "offUp"} =>
       job.id \in Shutter /\ job.why \in {"start", "expire", "halt"} \cup Direction
  /\ pc = "switchOn" => job.id \in Shutter /\ job.why \in Direction
  /\ job.why = "expire" => job.id \in Due /\ job.id \in batch \ todo

\* No task is armed before the main loop; the expiry loop has only due tasks
\* before it, and motors at rest behind it.
LoopFits ==
  /\ Starting \/ pc = "stopped" => task = [s \in Shutter |-> NoTask]
  /\ ~Starting => todo \subseteq batch
  /\ ~Expiring => batch = {}
  /\ \A s \in batch:
       /\ task[s].left = 0
       /\ IF s \in todo THEN s \in Due
          ELSE s # job.id => ~up[s] /\ ~down[s]

\* Within stop_shutter and set_var_on the coils go off one by one, and only
\* then does one of them go on.
OffBeforeOn ==
  /\ pc = "offUp"    => ~down[job.id]
  /\ pc = "switchOn" => ~up[job.id] /\ ~down[job.id]

\* The inductive invariant: what holds at every step between two awaits, and
\* why Interlock and MotionTimed do.
IInv ==
  /\ TypeOK
  /\ JobFits
  /\ LoopFits
  /\ OffBeforeOn
  /\ Interlock
  /\ MotionTimed

\* Once the startup loop is over, the controller has a state to act on for each
\* output (a Toggle needs one).  The comment there says so: "As there is no way
\* to retrieve the current state then consider an arbitrary value"; but Up is
\* only broadcast, and the shutters' OutputContext.value stays None.
InitBelief == pc = "select" => \A o \in Output: value[o] # NoValue

\* What holds instead: the controller acts on the state it broadcast, except
\* for a shutter that has been at rest since the startup loop.
BeliefAtRest ==
  pc = "select" =>
    \A o \in Output: value[o] # feedback[o] =>
      /\ o \in Shutter
      /\ value[o] = NoValue /\ feedback[o] = ShutterVal("Up")
      /\ ~up[o] /\ ~down[o]

\* A motor is switched off before its time only by a command, the startup loop
\* or a crash that follows one of them: an expiry stops no shutter that has
\* still some way to go (the tasks of a batch against the clock read once).
FullRunStep ==
  \A s \in Shutter:
    Driven(s) /\ ~Driven(s)'
      => task[s].left = 0 \/ (job.id = s /\ job.why \in Direction \cup {"halt", "start"})

FullRun == [][FullRunStep]_vars

\* Every motor that is switched on is switched off, unless the server stops:
\* an expiry is not starved by commands, nor by the expiries of other shutters.
MotorStops ==
  \A s \in Shutter:
    Driven(s) ~> (pc = "stopped" \/ ~Driven(s))

\* A full command channel is drained: the dispatcher that waits in tx.send,
\* and with it every other controller's commands, is released.
DispatcherReleased ==
  Len(rx) = RxCapacity ~> (Len(rx) < RxCapacity)

(***************************************************************************)
(* The controller implements ShutterMotor for each of its shutters.        *)
(***************************************************************************)
motorOf(s) == IF up[s] THEN "Up" ELSE IF down[s] THEN "Down" ELSE "off"

ShownOf(s) == IF feedback[s] = NoValue THEN "Unknown" ELSE Payload(feedback[s])

Motor(s) == INSTANCE ShutterMotor WITH
              FullTime <- RunTime[s],
              motor    <- motorOf(s),
              shown    <- ShownOf(s),
              left     <- task[s].left,
              halted   <- job.id = s /\ job.why # "expire"

\* Each shutter, in whatever order the commands and expiries of the others
\* are served in between, keeps the promise of ShutterMotor: it is switched on
\* from rest only, reported moving while it is, and reported Down only after
\* a whole run.
\* (The conjunction over s of Motor(s)!MotorSpec, its box taken out of the \A.)
ImplementsMotor ==
  /\ \A s \in Shutter: Motor(s)!MotorInit
  /\ [][\A s \in Shutter: [Motor(s)!MotorNext]_(Motor(s)!mvars)]_vars
=============================================================================
