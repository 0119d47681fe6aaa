------------------------------- MODULE Heartbeat -------------------------------
(***************************************************************************)
(* The controller of the inputs of one PLC (core/src/io/wago_controller.rs)*)
(* and that PLC.  It asks for information once and waits for the answer,   *)
(* then tells the PLC, every two seconds, that it is alive and where: a    *)
(* PLC that does not know sends no button to the server.  All is UDP.      *)
(***************************************************************************)
CONSTANTS Ip   \* the PLCs

VARIABLES
  beat,   \* where the controller of each PLC is, with its one exchange
  knows   \* whether the PLC knows the server

heartbeatVars == <<beat, knows>>

\* "off", "ask"; the exchange: "asked", "answered" (or with an answer that is
\* "empty" or "garbled"), "lost"; then "beating".
HeartbeatInit == beat = [p \in Ip |-> "off"] /\ knows = [p \in Ip |-> FALSE]

Step(p, from, to) ==
  beat[p] = from /\ beat' = [beat EXCEPT ![p] = to] /\ UNCHANGED knows

\* print_info.
Ask(p) == Step(p, "ask", "asked")

Answer(p) == \E a \in {"answered", "empty", "garbled"}: Step(p, "asked", a)

LoseInfo(p) == \E s \in {"asked", "answered", "empty", "garbled"}: Step(p, s, "lost")

RecvInfo(p) == Step(p, "answered", "beating")

\* Mutant: the address is sent with the first heartbeat only.
BeatOnce(p, heard) ==
  /\ beat[p] = "beating"
  /\ beat' = [beat EXCEPT ![p] = "taught"]
  /\ knows' = [knows EXCEPT ![p] = @ \/ heard]

\* One turn of the loop; both datagrams may be lost.
Beat(p, heard) ==
  /\ beat[p] = "beating"
  /\ knows' = [knows EXCEPT ![p] = @ \/ heard]
  /\ UNCHANGED beat

\* The PLC is switched off and on.
Forget(p) == knows[p] /\ knows' = [knows EXCEPT ![p] = FALSE] /\ UNCHANGED beat

HeartbeatsFrom(ps) == beat' = [p \in Ip |-> IF p \in ps THEN "ask" ELSE "off"]

\* A PLC that cannot be reached is an error wherever the controller is, and so is
\* an answer that is no text.
Fail(p) == beat[p] # "off" /\ UNCHANGED knows
=============================================================================
