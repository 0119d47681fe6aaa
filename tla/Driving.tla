-------------------------------- MODULE Driving --------------------------------
(***************************************************************************)
(* The controllers of the outputs of the PLCs, as far as the process hangs *)
(* on them (core/src/io/wago_modbus_controller.rs, modbus_client.rs,       *)
(* task.rs): what each does with its outputs before it takes commands, the *)
(* numbers it reckons with, and where they end the server.  What it does to*)
(* the relays is the subject of WagoModbusController; an error of the      *)
(* connection may come at any time, and is left to Server.                 *)
(***************************************************************************)
EXTENDS Integers

CONSTANTS
  VarSize,      \* 2^32: the number of an output is a u32
  AddressSize,  \* 2^16: an address is a u16
  Offset,       \* 0x200: where the PLC has its outputs for reading
  LastInstant   \* the last moment there is

ASSUME WidthAssumption == {VarSize, AddressSize, Offset, LastInstant} \subseteq Nat

VARIABLES
  drive,   \* "ready", or a coil is "asked" for, or its answer is there: "coil", "empty"
  unread   \* the ids each controller has not begun with

drivingVars == <<drive, unread>>

Nobody == [c \in {} |-> {}]

\* The controllers, each with its ids; their order is that of a hash map.
DriveFrom(given) == drive' = [c \in DOMAIN given |-> "ready"] /\ unread' = given

Drive(c, from, to) == drive[c] = from /\ drive' = [drive EXCEPT ![c] = to]

Take(c, i) == i \in unread[c] /\ unread' = [unread EXCEPT ![c] = @ \ {i}]

\* var + 0x200 in a u32: with overflow checks it panics, without them it wraps.
Overflows(o) == o.kind = "WODigital" /\ o.var + Offset >= VarSize

ReadAddress(o) == (o.var + Offset) % VarSize

\* u16::try_from(var | 0x1000): the bit is one of those an address has.
Writable(numbers) == \A v \in numbers: v < AddressSize

\* read_var: the number is made an address, the coil asked for.
AskCoil(c, i, o) ==
  /\ o.kind = "WODigital" /\ ReadAddress(o) < AddressSize
  /\ Drive(c, "ready", "asked") /\ Take(c, i)

\* stop_shutter.
StopCoils(c, i, o) ==
  /\ o.kind = "WOShutter" /\ Writable({o.var_up, o.var_down})
  /\ Drive(c, "ready", "ready") /\ Take(c, i)

\* Another kind of output is passed over.
PassOver(c, i, o) ==
  o.kind \notin {"WODigital", "WOShutter"} /\ Drive(c, "ready", "ready") /\ Take(c, i)

\* No address can be made of the number: an error.
NoAddress(o) ==
  \/ o.kind = "WODigital" /\ ReadAddress(o) >= AddressSize
  \/ o.kind = "WOShutter" /\ ~Writable({o.var_up, o.var_down})

\* The PLC answers with as many coils as it likes.
AnswerCoil(c) == (\E a \in {"coil", "empty"}: Drive(c, "asked", a)) /\ UNCHANGED unread

\* values[0], the value of the output.
TakeCoil(c) == Drive(c, "coil", "ready") /\ UNCHANGED unread

\* The commands are taken when all its outputs have been seen to.
Serves(c) == drive[c] = "ready" /\ unread[c] = {}

\* A number that was wrapped for reading is none for writing.
NoCoilToSet(o) == o.kind = "WODigital" /\ ~Writable({o.var})

\* Task::from_now: Instant::now() + time, when the relay of the run is already on.
PastTheLast(o, now) == o.kind = "WOShutter" /\ now + o.time > LastInstant
=============================================================================
