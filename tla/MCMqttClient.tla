---------------------------- MODULE MCMqttClient -----------------------------
(* MqttClient and MqttParser for TLC.  The two share no variable, so each  *)
(* is explored by itself.  Five messages go out, so that three             *)
(* acknowledgements can wait at once and the loop of _sendAcks can skip    *)
(* one and send the next.  Among the packets that come in are a length of  *)
(* two bytes, a topic that is too long, an empty message, and pieces of    *)
(* every size.                                                             *)
EXTENDS MqttClient, MqttParser

VARIABLE part

MCPayload == {"count", "other"}

ConnAck  == [type |-> "CONNACK"]
SubAck   == [type |-> "SUBACK"]
PingResp == [type |-> "PINGRESP"]
Message(topic, payload) == [type |-> "PUBLISH", topic |-> topic, payload |-> payload]

MCStreams == {<<ConnAck, SubAck, Message(1, 3), PingResp, Message(1, 2)>>,
              <<ConnAck, Message(2, 1), Message(1, 0), Message(1, 1)>>}

MCInit == Init /\ ParserInit /\ part \in {"client", "parser"}
MCNext ==
  /\ \/ part = "client" /\ Next /\ UNCHANGED pvars
     \/ part = "parser" /\ ParserNext /\ UNCHANGED vars
  /\ UNCHANGED part

MCSpec ==
  /\ MCInit /\ [][MCNext]_<<vars, pvars, part>>
  /\ WF_vars(part = "client" /\ OnPoll(Sendable(Len(_toSendAcks))))
  /\ WF_vars(part = "client" /\ OnData)
  /\ WF_vars(part = "client" /\ Broker)
=============================================================================
