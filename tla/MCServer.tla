-------------------------------- MODULE MCServer --------------------------------
(***************************************************************************)
(* An instance of the server for TLC: two PLCs, and configurations that    *)
(* are sound, that define an id twice, that name what does not parse or    *)
(* what has no controller, that have dates of each form, and numbers and   *)
(* times on either side of each limit.                                     *)
(***************************************************************************)
EXTENDS Server, TLC

CONSTANTS p1, p2, h1, h2, bad, port

MCText    == Word \cup {"", "-1", "0", "a"}
MCNumeral == {"-1", "0"}
MCIntOf   == "-1" :> -1 @@ "0" :> 0
MCToString == -1 :> "-1" @@ 0 :> "0"

MCIpOf   == h1 :> p1 @@ h2 :> p2
MCPortOf == port :> 502

Days(s) == [d \in 1..Len(s) |-> s[d]]
MCInstantOf == 1 :> Days(<<0, 1>>) @@ 2 :> Days(<<2>>) @@ 3 :> Days(<<3, 4>>)

Wago(id, kind, host) == [id |-> id, kind |-> kind, host |-> host, port |-> port]
Time(id, month, day) == [id |-> id, kind |-> "InputTime", date |-> [month |-> month, day |-> day]]

Light(id, host, var) == [id |-> id, kind |-> "WODigital", host |-> host, port |-> port, var |-> var]
Shutter(id, host, var, time) ==
  [id |-> id, kind |-> "WOShutter", host |-> host, port |-> port,
   var_up |-> var, var_down |-> var + 1, time |-> time]
Hue(id) == [id |-> id, kind |-> "HueOutputLightRGB"]

\* The greatest number with an address, and the longest run, of those in order.
Sound == <<Light("d1", h1, 5), Shutter("s1", h2, 3, 5), Light("d2", h1, 0)>>
Twice == <<Light("d1", h1, 0), Light("d2", h2, 1), Light("d1", h2, 2)>>
Hidden == <<Light("d1", h1, 0), Hue("d1")>>
Wide  == <<Light("d1", h1, 14), Light("d2", h2, 6)>>
Long  == <<Shutter("s1", h1, 3, 6), Shutter("s2", h2, 7, 0)>>

Buttons  == <<Wago("b1", "WIDigitalBP", h1), Wago("b2", "WIDigitalLong", h2)>>
Triple   == <<Wago("b1", "WIDigitalTriple", h1)>>
NoInput  == <<Wago("b1", "WIDigitalBP", bad), Wago("i1", "Scenario", h1)>>
InputTimes == <<Time("t1", 1, 2), Time("t2", 3, 2), Time("t3", 0, 1)>>
LastDays == <<Time("t1", 0, 2)>>
Clash    == <<Time("b1", 1, 2), Wago("b1", "WIDigitalBP", h1)>>

MCConfigs ==
  [files: {"good"}, inputs: {Buttons, Triple, NoInput, InputTimes, LastDays, Clash}, outputs: {<<>>}]
    \cup [files: {"good"}, inputs: {Triple}, outputs: {Sound}]
    \cup [files: {"good"}, inputs: {LastDays}, outputs: {Twice, Hidden, Wide, Long}]
    \cup [files: {"no file", "malformed rules"}, inputs: {<<>>}, outputs: {<<>>}]

MCArgs ==
  {[no_input |-> FALSE, no_output |-> FALSE, checked |-> TRUE],
   [no_input |-> TRUE,  no_output |-> FALSE, checked |-> FALSE],
   [no_input |-> FALSE, no_output |-> TRUE,  checked |-> FALSE]}
=============================================================================
