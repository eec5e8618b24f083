--------------------------- MODULE MCMqttSession ----------------------------
(* MqttSession for TLC: the plan comes in two pieces. *)
EXTENDS MqttSession

MCParts == [date |-> 1, plan |-> 2]
=============================================================================
