---------------------------- MODULE ShutterMotor ----------------------------
(***************************************************************************)
(* What one shutter promises, whoever commands it and whenever the server  *)
(* stops: what the WOShutter branches of wago_modbus_controller.rs are     *)
(* for.  The motor is switched on only from rest, and reported at once; it *)
(* is reported Down only after it has been driven down for its whole run   *)
(* time; a halt is reported Up, whatever the position.                     *)
(***************************************************************************)
EXTENDS Naturals

CONSTANT FullTime      \* WagoIOUpDown.time, in ticks (a natural number)

VARIABLES
  motor,    \* the coil that is on
  shown,    \* the last state broadcast; Unknown before the first
  left,     \* run time left before the shutter is taken to have arrived
  halted    \* a command is being carried out that ends this run

mvars == <<motor, shown, left, halted>>

Motor   == {"off", "Up", "Down"}
Unknown == "Unknown"
MovingTo(dir) == IF dir = "Up" THEN "MovingUp" ELSE "MovingDown"

MotorInit == motor = "off" /\ shown = Unknown /\ left = 0 /\ ~halted

\* A command for this shutter is taken, or the startup loop reaches it.
Interrupt ==
  /\ ~halted /\ halted' = TRUE
  /\ UNCHANGED <<motor, shown, left>>

\* One write of stop_shutter that finds its coil on: the run is over, or it
\* is cut short for a command.
Cut ==
  /\ motor # "off" /\ (halted \/ left = 0)
  /\ motor' = "off"
  /\ UNCHANGED <<shown, left, halted>>

\* set_var_on, the insertion of the task and update_state.
Start(dir) ==
  /\ halted /\ halted' = FALSE
  /\ motor = "off" /\ motor' = dir
  /\ shown' = MovingTo(dir)
  /\ left' = FullTime

Elapse ==
  /\ left > 0 /\ left' = left - 1
  /\ UNCHANGED <<motor, shown, halted>>

\* The run was not cut short, and the motor is off: the target is reported.
Arrive ==
  /\ left = 0 /\ ~halted
  /\ motor' = "off"
  /\ \E dir \in {"Up", "Down"}: shown = MovingTo(dir) /\ shown' = dir
  /\ UNCHANGED <<left, halted>>

\* A command, or the startup loop, stops the shutter wherever it is.
Halt ==
  /\ halted /\ halted' = FALSE
  /\ motor' = "off" /\ shown' = "Up" /\ left' = 0

\* The server ends, with at most one write under way: the motor may be left
\* running, or be switched on or off by that write, but it is not reversed.
PowerCycle ==
  /\ motor' \in IF motor = "off" THEN Motor ELSE {motor, "off"}
  /\ shown' = Unknown /\ left' = 0 /\ halted' = FALSE

MotorNext ==
  \/ Interrupt
  \/ Cut
  \/ \E dir \in {"Up", "Down"}: Start(dir)
  \/ Elapse
  \/ Arrive
  \/ Halt
  \/ PowerCycle

MotorSpec == MotorInit /\ [][MotorNext]_mvars
=============================================================================
