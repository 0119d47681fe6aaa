------------------------------ MODULE ContextMaps ------------------------------
(***************************************************************************)
(* The maps the server makes of its configuration when it starts           *)
(* (core/src/io_context.rs, make_input_var_map of main_server.rs): which   *)
(* controllers there are, which definitions each of them is given, and the *)
(* one a command is dispatched to.  Rooms play no part in them: the inputs *)
(* and the outputs are the sequences of their definitions.  Nothing keeps  *)
(* a configuration from defining an id twice; the code warns and goes on.  *)
(***************************************************************************)
EXTENDS IOText, Sequences, FiniteSets

CONSTANTS
  IpOf, PortOf,   \* the host and port texts that parse, and as what
  None            \* no controller

ASSUME NoneAssumption ==
  /\ None # <<"Time">>
  /\ \A h \in DOMAIN IpOf:
       /\ None # <<"Wago", IpOf[h]>>
       /\ \A p \in DOMAIN PortOf: None # <<"Wago", IpOf[h], PortOf[p]>>

WagoInput == {"WIDigitalBP", "WIDigitalLong", "WIDigitalTriple"}
WagoOutput == {"WODigital", "WOShutter"}

\* make_input_context_map, make_output_context_map: insert replaces.
ContextMap(defs) ==
  [i \in {defs[n].id: n \in DOMAIN defs} |->
    defs[CHOOSE n \in DOMAIN defs:
           defs[n].id = i /\ \A m \in DOMAIN defs: defs[m].id = i => m <= n]]

\* make_input_var_map; the number of a button says nothing of its PLC.
make_input_var_map(defs) ==
  LET Read == {n \in DOMAIN defs: defs[n].kind \in {"WIDigitalBP", "WIDigitalLong"}}
  IN  [v \in {defs[n].var: n \in Read} |->
        defs[CHOOSE n \in Read: defs[n].var = v /\ \A m \in Read: defs[m].var = v => m <= n]]

\* Mutant: one of the alternatives is forgotten.
InputControllerButTriple(i) ==
  CASE i.kind \in WagoInput \ {"WIDigitalTriple"} /\ i.host \in DOMAIN IpOf ->
         <<"Wago", IpOf[i.host]>>
    [] i.kind = "InputTime" -> <<"Time">>
    [] OTHER                -> None

InputController(i) ==
  CASE i.kind \in WagoInput /\ i.host \in DOMAIN IpOf -> <<"Wago", IpOf[i.host]>>
    [] i.kind = "InputTime"                           -> <<"Time">>
    [] OTHER                                          -> None

OutputController(o) ==
  IF o.kind \in WagoOutput /\ o.host \in DOMAIN IpOf /\ o.port \in DOMAIN PortOf
  THEN <<"Wago", IpOf[o.host], PortOf[o.port]>> ELSE None

\* Mutant: append_map keeps one id only.
LastIds(controllers, ids) ==
  [c \in {controllers[n]: n \in DOMAIN ids} \ {None} |->
    {ids[CHOOSE n \in DOMAIN ids: controllers[n] = c /\
           \A m \in DOMAIN ids: controllers[m] = c => m <= n]}]

\* append_map: the ids of each controller.
append_map(controllers, ids) ==
  [c \in {controllers[n]: n \in DOMAIN ids} \ {None} |->
    {ids[n]: n \in {m \in DOMAIN ids: controllers[m] = c}}]

IdsOf(defs) == [n \in DOMAIN defs |-> defs[n].id]

make_input_controller_map(defs) ==
  append_map([n \in DOMAIN defs |-> InputController(defs[n])], IdsOf(defs))

make_output_controller_map(defs) ==
  append_map([n \in DOMAIN defs |-> OutputController(defs[n])], IdsOf(defs))

\* filter_input, filter_output: what an instance is given of the context map.
filter(map, ids) == [i \in ids \cap DOMAIN map |-> map[i]]

(***************************************************************************)
(* The controllers come out of a hash map, in an order that differs from   *)
(* one start to the next; the last one that has an id is sent its          *)
(* commands.                                                               *)
(***************************************************************************)
Orders(map) ==
  {f \in [DOMAIN map -> 1..Cardinality(DOMAIN map)]:
     \A c, e \in DOMAIN map: f[c] = f[e] => c = e}

reverse_map(map, order) ==
  [i \in UNION {map[c]: c \in DOMAIN map} |->
    CHOOSE c \in DOMAIN map:
      i \in map[c] /\ \A e \in DOMAIN map: i \in map[e] => order[e] <= order[c]]

(***************************************************************************)
(* make_rooms (core/src/calaos_json_protocol.rs): what a client is told of *)
(* the house.                                                              *)
(***************************************************************************)
make_room_ios(defs, values) ==
  [n \in DOMAIN defs |-> [io |-> defs[n], data |-> StateOf(values[defs[n].id])]]

-----------------------------------------------------------------------------
Unique(defs, n) == \A m \in DOMAIN defs: defs[m].id = defs[n].id => m = n
=============================================================================
