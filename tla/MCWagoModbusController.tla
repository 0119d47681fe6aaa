----------------------- MODULE MCWagoModbusController -----------------------
(***************************************************************************)
(* Instances of the controller for TLC: relays and shutters as model       *)
(* values, two different run times, and one value of each kind a command   *)
(* may carry.                                                              *)
(***************************************************************************)
EXTENDS WagoModbusController

CONSTANTS s1, s2

MCRunTime == [s \in Shutter |-> IF s = s1 THEN 1 ELSE 2]

MCValues == {BoolVal(TRUE), BoolVal(FALSE), IntVal(1), ShutterVal("Up"),
             ShutterVal("Down"), ShutterVal("MovingUp")}
MCFewValues == {BoolVal(TRUE), ShutterVal("Up"), ShutterVal("Down")}
=============================================================================
