------------------------------- MODULE IOValue -------------------------------
(***************************************************************************)
(* The values and actions that travel between the parts of the server      *)
(* (core/src/io_value.rs).  A value is a pair <<variant, payload>>, so two *)
(* values of different variants are simply different; the absent value of  *)
(* an Option<IOValue> is NoValue.                                          *)
(***************************************************************************)
EXTENDS Integers

ShutterState == {"Up", "Down", "MovingUp", "MovingDown"}

BoolVal(b)    == <<"Bool", b>>
IntVal(i)     == <<"Int", i>>
StringVal(s)  == <<"String", s>>
ShutterVal(s) == <<"Shutter", s>>
NoValue       == <<"None">>

IOValueSet ==
  ({"Bool"} \X BOOLEAN) \cup ({"Int"} \X Int)
    \cup ({"String"} \X STRING) \cup ({"Shutter"} \X ShutterState)

Variant(v) == v[1]
Payload(v) == v[2]

(***************************************************************************)
(* enum IOAction.                                                          *)
(***************************************************************************)
Toggle      == <<"Toggle">>
Stop        == <<"Stop">>
SetValue(v) == <<"SetValue", v>>

(***************************************************************************)
(* fn toggle: a moving shutter is turned round, an integer is complemented *)
(* bit by bit, and a string has no opposite.                               *)
(***************************************************************************)
toggle(v) ==
  CASE Variant(v) = "Bool"    -> BoolVal(~Payload(v))
    [] Variant(v) = "Shutter" -> ShutterVal(IF Payload(v) \in {"Up", "MovingUp"}
                                            THEN "Down" ELSE "Up")
    [] Variant(v) = "Int"     -> IntVal(-Payload(v) - 1)
    [] OTHER                  -> NoValue

(***************************************************************************)
(* PartialOrd: only two integers are comparable.  Together with the        *)
(* derived PartialEq this gives the six operators a rule condition may use *)
(* (core/src/config/rules.rs, enum Operator).                              *)
(***************************************************************************)
Comparable(v, w) == Variant(v) = "Int" /\ Variant(w) = "Int"

Operator == {"Equal", "NotEqual", "Greater", "GreaterOrEqual",
             "Lower", "LowerOrEqual"}

Holds(oper, v, ref) ==
  CASE oper = "Equal"          -> v = ref
    [] oper = "NotEqual"       -> v # ref
    [] oper = "Greater"        -> Comparable(v, ref) /\ Payload(v) > Payload(ref)
    [] oper = "GreaterOrEqual" -> Comparable(v, ref) /\ Payload(v) >= Payload(ref)
    [] oper = "Lower"          -> Comparable(v, ref) /\ Payload(v) < Payload(ref)
    [] oper = "LowerOrEqual"   -> Comparable(v, ref) /\ Payload(v) <= Payload(ref)
=============================================================================
