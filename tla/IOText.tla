-------------------------------- MODULE IOText --------------------------------
(***************************************************************************)
(* Values and actions as text (core/src/io_value.rs): the form they have   *)
(* in the configuration files and in the messages of websocket clients.    *)
(* A text is a member of Text; of the numerals among them only what the    *)
(* standard library's parse and to_string do is assumed.                   *)
(***************************************************************************)
EXTENDS IOValue

CONSTANTS
  Text,         \* the texts
  Numeral,      \* those that str::parse::<i32> accepts
  IntOf,        \* the integer each of them stands for
  to_string,    \* the text of each i32
  MaxInt        \* i32::MAX

i32 == (-MaxInt - 1)..MaxInt
Word == {"true", "false", "up", "down", "stop", "toggle"}

ASSUME WordsAssumption == Word \subseteq Text /\ Numeral \subseteq Text \ Word
ASSUME IntsAssumption ==
  /\ MaxInt \in Nat
  /\ IntOf \in [Numeral -> i32] /\ to_string \in [i32 -> Numeral]
  /\ \A i \in i32: IntOf[to_string[i]] = i

\* impl From<T: AsRef<str>> for IOValue: numerals first, then the words.
ValueOf(t) ==
  CASE t \in Numeral -> IntVal(IntOf[t])
    [] t = "true"    -> BoolVal(TRUE)
    [] t = "false"   -> BoolVal(FALSE)
    [] t = "up"      -> ShutterVal("Up")
    [] t = "down"    -> ShutterVal("Down")
    [] OTHER         -> StringVal(t)

\* impl From<T: AsRef<str>> for IOAction.
ActionOf(t) ==
  CASE t = "toggle" -> Toggle
    [] t = "stop"   -> Stop
    [] OTHER        -> SetValue(ValueOf(t))

\* impl From<&IOValue> for String.  A shutter that moves down is "up" as well.
TextOf(v) ==
  CASE Variant(v) = "Bool"   -> IF Payload(v) THEN "true" ELSE "false"
    [] Variant(v) = "Int"    -> to_string[Payload(v)]
    [] Variant(v) = "String" -> Payload(v)
    [] OTHER                 -> IF Payload(v) = "Down" THEN "down" ELSE "up"

\* impl From<IOAction> for String.
TextOfAction(a) ==
  CASE a = Toggle -> "toggle"
    [] a = Stop   -> "stop"
    [] OTHER      -> TextOf(a[2])

\* make_io_value_type, and the state next to it in the home data.
VarType(v) ==
  CASE Variant(v) = "Int"  -> "float"
    [] Variant(v) = "Bool" -> "bool"
    [] OTHER               -> "string"

StateOf(v) ==
  IF v = NoValue THEN [var_type |-> "string", state |-> ""]
                 ELSE [var_type |-> VarType(v), state |-> TextOf(v)]

-----------------------------------------------------------------------------
\* The values the server itself can hold: integers that fit, and of the strings
\* those that were read from a text and are not another value.
Held ==
  {BoolVal(b): b \in BOOLEAN} \cup {IntVal(i): i \in i32}
    \cup {ShutterVal(s): s \in ShutterState}
    \cup {StringVal(t): t \in Text \ (Numeral \cup {"true", "false", "up", "down"})}

Settled(v) == v \notin {ShutterVal("MovingUp"), ShutterVal("MovingDown")}
=============================================================================
