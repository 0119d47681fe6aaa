----------------------------- MODULE MCMqttClient -----------------------------
(***************************************************************************)
(* Instances of the MQTT client for TLC.                                   *)
(***************************************************************************)
EXTENDS MqttClient

CONSTANTS e1, e2

MCEntities == <<e1, e2>>
MCOneEntity == <<e1>>
MCValues == {BoolVal(TRUE), BoolVal(FALSE)}
MCOneValue == {BoolVal(TRUE)}

StatusMessage(p) == [topic |-> "status", id |-> Server, payload |-> p]
SetMessage(e, p) == [topic |-> "set", id |-> e, payload |-> p]

MCMessages == {StatusMessage("online"), StatusMessage("offline"), SetMessage(e1, "ON"),
               SetMessage(e1, "none")}
MCOnlyStatus == {StatusMessage("online")}
=============================================================================
