----------------------------- MODULE Publisher ------------------------------
(***************************************************************************)
(* How the count records leave the device: mqttCommunicateSvr publishes    *)
(* them one at a time with QoS 2 and waits for the acknowledgement of one  *)
(* before it takes the next (FUNC_SEND_DATA, onMqttPublish), over an       *)
(* AsyncMqttClient connection that comes and goes.                         *)
(*                                                                         *)
(* Records are numbered in the order they were queued, so that the ring is *)
(* taken + 1 .. queued.  The client and the broker are the link of         *)
(* PublishLink, which MqttClient implements: a message is passed on and    *)
(* acknowledged in one step.  Restarts, and the ring's overflow, are in    *)
(* ProductQueue.                                                           *)
(***************************************************************************)
EXTENDS Naturals, Sequences

CONSTANTS
  RECORDS,           (* how many records are ever queued (bound)           *)
  MISDATED,          (* those with a year byte of 20 or less               *)
  ACK_TICKS,         (* ticks of 2 s until an unanswered record times out  *)
  MAX_SEND_PAYLOAD,  (* how often a record is sent again                   *)
  SUBSCRIPTIONS,     (* packet ids that mqttSubscribe takes (10)           *)
  MAX_UNDER_WAY,     (* bound on the messages and ids under way            *)
  MAX_OTHER,         (* bound on the messages that are not count records   *)
  MAX_DROPS          (* bound on the connections lost                      *)

ASSUME PublisherAssumption ==
  /\ RECORDS \in Nat
  /\ MISDATED \subseteq 1 .. RECORDS
  /\ ACK_TICKS \in Nat \ {0}
  /\ MAX_SEND_PAYLOAD \in Nat
  /\ SUBSCRIPTIONS \in Nat /\ MAX_UNDER_WAY \in Nat
  /\ MAX_OTHER \in Nat /\ MAX_DROPS \in Nat

VARIABLES
  queued, taken,     (* records queued, and taken from the ring, so far    *)
  list_pub,          (* list_pubId and list_pubJson: awaiting their ack    *)
  ucCntCheckPubAck,  (* ticks counted towards the timeout                  *)
  ucCntSendPayload,  (* resends counted towards giving up                  *)
  mqttStep,          (* "SEND_SYSCTRL": say ON first; then "SEND_DATA"     *)
  plan,              (* oper.len_plan # 0: the server sent the plan        *)
  bMqttSubscribe,    (* mqttSubscribe was called                           *)
  connected,         (* mqttClient.connected()                             *)
  nextPacketId,      (* of mqttClient                                      *)
  wire,              (* messages to the broker in this connection          *)
  acks,              (* ids the broker acknowledged, on their way back     *)
  starved,           (* the client's own acknowledgements had to wait      *)
  seen, last,        (* the records the server got, and the latest of them *)
  given_up,          (* history: records reported on /Event/Cnt/NoRecACK   *)
  crossed,           (* history: records outstanding when a connection fell*)
  others, drops      (* counters for MAX_OTHER and MAX_DROPS               *)

link   == <<connected, nextPacketId, wire, acks, starved>>
server == <<seen, last>>
vars   == <<queued, taken, list_pub, ucCntCheckPubAck, ucCntSendPayload, mqttStep, plan,
            bMqttSubscribe, link, server, given_up, crossed, others, drops>>

NoRecord == 0   \* what a message that is no count record carries

Link == INSTANCE PublishLink WITH Payload <- 0 .. RECORDS

Init ==
  /\ queued = 0 /\ taken = 0
  /\ list_pub = <<>>
  /\ ucCntCheckPubAck = 0 /\ ucCntSendPayload = 0
  /\ mqttStep = "SEND_SYSCTRL" /\ plan = FALSE /\ bMqttSubscribe = FALSE
  /\ Link!Init
  /\ seen = {} /\ last = 0
  /\ given_up = {} /\ crossed = {}
  /\ others = 0 /\ drops = 0

-----------------------------------------------------------------------------
(* mqttClient.publish: no id when the TCP buffer is full, or when the      *)
(* connection fell under the caller's feet.                                *)
PubId(ok) == IF ok THEN nextPacketId ELSE 0

Publish(r, ok) ==
  IF ok THEN Len(wire) + Len(acks) < MAX_UNDER_WAY /\ Link!Publish(r)
        ELSE UNCHANGED link

(* Ring: another record is queued.                                         *)
Produce ==
  /\ queued < RECORDS
  /\ queued' = queued + 1
  /\ UNCHANGED <<taken, list_pub, ucCntCheckPubAck, ucCntSendPayload, mqttStep, plan,
                 bMqttSubscribe, link, server, given_up, crossed, others, drops>>

(* MQTT callback: the plan arrives.                                        *)
GetPlan ==
  /\ connected
  /\ ~plan
  /\ plan' = TRUE
  /\ UNCHANGED <<queued, taken, list_pub, ucCntCheckPubAck, ucCntSendPayload, mqttStep,
                 bMqttSubscribe, link, server, given_up, crossed, others, drops>>

(* Timer callback: no date or no plan yet, so say ON again.                *)
CheckGetDataFromServer ==
  /\ others < MAX_OTHER
  /\ others' = others + 1
  /\ mqttStep' = "SEND_SYSCTRL"
  /\ UNCHANGED <<queued, taken, list_pub, ucCntCheckPubAck, ucCntSendPayload, plan,
                 bMqttSubscribe, link, server, given_up, crossed, drops>>

(* Machine times, teaching, NFC and debug messages of mqttCommunicateSvr,  *)
(* and what updateCount publishes from its callback: each takes an id and  *)
(* is not waited for.                                                      *)
SendOther ==
  /\ connected
  /\ others < MAX_OTHER
  /\ others' = others + 1
  /\ \E ok \in BOOLEAN : Publish(NoRecord, ok)
  /\ UNCHANGED <<queued, taken, list_pub, ucCntCheckPubAck, ucCntSendPayload, mqttStep, plan,
                 bMqttSubscribe, server, given_up, crossed, drops>>

-----------------------------------------------------------------------------
(* mqttCommunicateSvr, every 2 s while connected: one of these.            *)
FuncSendInfo ==
  /\ connected
  /\ mqttStep = "SEND_SYSCTRL"
  /\ mqttStep' = "SEND_DATA"
  /\ \E ok \in BOOLEAN : Publish(NoRecord, ok)
  /\ UNCHANGED <<queued, taken, list_pub, ucCntCheckPubAck, ucCntSendPayload, plan,
                 bMqttSubscribe, server, given_up, crossed, others, drops>>

FuncSendData == connected /\ mqttStep = "SEND_DATA" /\ plan

(* The oldest record leaves the ring for good before it is published; one  *)
(* with a bad year is not published at all.                                *)
TakeRecord ==
  /\ taken < queued
  /\ taken' = taken + 1
  /\ IF taken + 1 \in MISDATED
     THEN UNCHANGED <<list_pub, link>>
     ELSE /\ \E ok \in BOOLEAN :
               /\ Publish(taken + 1, ok)
               /\ list_pub' = <<[id |-> PubId(ok), rec |-> taken + 1]>> \o list_pub
  /\ UNCHANGED <<queued, ucCntCheckPubAck, ucCntSendPayload, mqttStep, plan,
                 bMqttSubscribe, server, given_up, crossed, others, drops>>

(* A defect that ServerOrder and OutstandingIsNewest must catch: the next  *)
(* record is sent without waiting for the last one's acknowledgement.      *)
SendDataOutputEager == FuncSendData /\ TakeRecord

SendDataOutput == FuncSendData /\ list_pub = <<>> /\ TakeRecord

(* A defect that TypeOK must catch: > for >= in the timeout.               *)
WaitForAckTooLong ==
  /\ FuncSendData
  /\ list_pub # <<>>
  /\ ucCntCheckPubAck < ACK_TICKS
  /\ ucCntCheckPubAck' = ucCntCheckPubAck + 1
  /\ UNCHANGED <<queued, taken, list_pub, ucCntSendPayload, mqttStep, plan, bMqttSubscribe,
                 link, server, given_up, crossed, others, drops>>

(* A defect that Drains must catch: the ticks are not counted.             *)
WaitForAckUncounted ==
  /\ FuncSendData
  /\ list_pub # <<>>
  /\ ucCntCheckPubAck + 1 < ACK_TICKS
  /\ UNCHANGED vars

WaitForAck ==
  /\ FuncSendData
  /\ list_pub # <<>>
  /\ ucCntCheckPubAck + 1 < ACK_TICKS
  /\ ucCntCheckPubAck' = ucCntCheckPubAck + 1
  /\ UNCHANGED <<queued, taken, list_pub, ucCntSendPayload, mqttStep, plan, bMqttSubscribe,
                 link, server, given_up, crossed, others, drops>>

Timeout ==
  /\ FuncSendData
  /\ list_pub # <<>>
  /\ ucCntCheckPubAck + 1 >= ACK_TICKS
  /\ ucCntCheckPubAck' = 0

Resend ==
  /\ Timeout
  /\ ucCntSendPayload < MAX_SEND_PAYLOAD
  /\ ucCntSendPayload' = ucCntSendPayload + 1
  /\ \E ok \in BOOLEAN :
       /\ Publish(Head(list_pub).rec, ok)
       /\ list_pub' = <<[id |-> PubId(ok), rec |-> Head(list_pub).rec]>> \o Tail(list_pub)
  /\ UNCHANGED <<queued, taken, mqttStep, plan, bMqttSubscribe, server, given_up, crossed,
                 others, drops>>

GiveUp ==
  /\ Timeout
  /\ ucCntSendPayload >= MAX_SEND_PAYLOAD
  /\ ucCntSendPayload' = 0
  /\ \E ok \in BOOLEAN : Publish(NoRecord, ok)
  /\ list_pub' = Tail(list_pub)
  /\ given_up' = given_up \cup {Head(list_pub).rec}
  /\ UNCHANGED <<queued, taken, mqttStep, plan, bMqttSubscribe, server, crossed,
                 others, drops>>

MqttCommunicateSvr ==
  FuncSendInfo \/ SendDataOutput \/ WaitForAck \/ Resend \/ GiveUp

-----------------------------------------------------------------------------
(* A defect that Accounted must catch: any acknowledgement will do.        *)
OnMqttPublishAnyId ==
  /\ Link!Acknowledge
  /\ list_pub' = IF list_pub # <<>> THEN Tail(list_pub) ELSE list_pub
  /\ UNCHANGED <<queued, taken, ucCntCheckPubAck, ucCntSendPayload, mqttStep, plan,
                 bMqttSubscribe, server, given_up, crossed, others, drops>>

(* MQTT callback: an acknowledgement; only the front of the list counts.   *)
OnMqttPublish ==
  /\ Link!Acknowledge
  /\ list_pub' = IF list_pub # <<>> /\ Head(list_pub).id = Head(acks)
                 THEN Tail(list_pub) ELSE list_pub
  /\ UNCHANGED <<queued, taken, ucCntCheckPubAck, ucCntSendPayload, mqttStep, plan,
                 bMqttSubscribe, server, given_up, crossed, others, drops>>

(* MQTT callback: connected.  The topics are subscribed the first time, as *)
(* far as there is room for them.                                          *)
OnMqttConnect ==
  /\ \E n \in 0 .. IF bMqttSubscribe THEN 0 ELSE SUBSCRIPTIONS : Link!Connect(n)
  /\ mqttStep' = "SEND_SYSCTRL"
  /\ bMqttSubscribe' = TRUE
  /\ UNCHANGED <<queued, taken, list_pub, ucCntCheckPubAck, ucCntSendPayload, plan,
                 server, given_up, crossed, others, drops>>

(* MQTT callback: the connection is gone, with what was under way in it;   *)
(* the client starts again at id 1, list_pub stays.                        *)
OnMqttDisconnect ==
  /\ drops < MAX_DROPS
  /\ drops' = drops + 1
  /\ Link!Disconnect
  /\ crossed' = crossed \cup {list_pub[i].rec : i \in DOMAIN list_pub}
  /\ UNCHANGED <<queued, taken, list_pub, ucCntCheckPubAck, ucCntSendPayload, mqttStep, plan,
                 bMqttSubscribe, server, given_up, others>>

(* The client and the broker get a message passed on and acknowledged.     *)
Deliver ==
  /\ \E i \in 1 .. Len(wire) :
       /\ Link!Deliver(i)
       /\ IF wire[i].rec = NoRecord THEN UNCHANGED server
          ELSE seen' = seen \cup {wire[i].rec} /\ last' = wire[i].rec
  /\ UNCHANGED <<queued, taken, list_pub, ucCntCheckPubAck, ucCntSendPayload, mqttStep, plan,
                 bMqttSubscribe, given_up, crossed, others, drops>>

(* An acknowledgement of the client finds no room in the TCP buffer.       *)
Starve ==
  /\ Link!Starve
  /\ UNCHANGED <<queued, taken, list_pub, ucCntCheckPubAck, ucCntSendPayload, mqttStep, plan,
                 bMqttSubscribe, server, given_up, crossed, others, drops>>

Next == \/ Produce \/ GetPlan \/ CheckGetDataFromServer \/ SendOther
        \/ MqttCommunicateSvr
        \/ OnMqttPublish \/ OnMqttConnect \/ OnMqttDisconnect
        \/ Deliver \/ Starve

Spec == Init /\ [][Next]_vars

(* loop() runs mqttCommunicateSvr and keeps trying to connect; the server  *)
(* answers ON with the plan.  Nothing is asked of the acknowledgements.    *)
FairSpec == /\ Spec
            /\ WF_vars(MqttCommunicateSvr)
            /\ WF_vars(OnMqttConnect)
            /\ WF_vars(GetPlan)

-----------------------------------------------------------------------------
Entry   == [id : Nat, rec : 1 .. RECORDS]
Message == [id : Nat \ {0}, rec : 0 .. RECORDS]

FlagsOK ==
  /\ mqttStep \in {"SEND_SYSCTRL", "SEND_DATA"}
  /\ plan \in BOOLEAN /\ bMqttSubscribe \in BOOLEAN
  /\ connected \in BOOLEAN /\ starved \in BOOLEAN

ChannelsOK ==
  /\ list_pub \in Seq(Entry)
  /\ wire \in Seq(Message)
  /\ acks \in Seq(Nat \ {0})

CountsOK ==
  /\ queued \in 0 .. RECORDS /\ taken \in 0 .. queued
  /\ ucCntCheckPubAck \in 0 .. ACK_TICKS - 1
  /\ ucCntSendPayload \in 0 .. MAX_SEND_PAYLOAD
  /\ nextPacketId \in Nat \ {0}
  /\ others \in 0 .. MAX_OTHER /\ drops \in 0 .. MAX_DROPS

HistoryOK ==
  /\ seen \subseteq 1 .. RECORDS /\ last \in 0 .. RECORDS
  /\ given_up \subseteq 1 .. RECORDS /\ crossed \subseteq 1 .. RECORDS

(* Every variable stays in its range; the tick counter below the timeout.  *)
TypeOK == FlagsOK /\ ChannelsOK /\ CountsOK /\ HistoryOK

(* The three parallel lists of outstanding publications hold at most one,  *)
(* and it is the record taken last: FUNC_SEND_DATA takes none before.      *)
OutstandingIsNewest ==
  \/ list_pub = <<>>
  \/ Len(list_pub) = 1 /\ list_pub[1].rec = taken

(* The server never sees an older count after a newer one, through         *)
(* resends, give-ups and reconnections, unless acknowledgements of the     *)
(* client had to wait in the connection; it may see a count twice.         *)
ServerOrder == [][~starved => last' >= last]_last

(* No record vanishes silently while its connection lasts: one that was    *)
(* taken from the ring is at the server, still outstanding, reported as    *)
(* NoRecACK, or undatable; or it was outstanding when a connection fell.   *)
Accounted ==
  \A r \in 1 .. taken :
    \/ r \in seen \cup given_up \cup MISDATED \cup crossed
    \/ \E i \in DOMAIN list_pub : list_pub[i].rec = r

(* Once the connections last, the ring drains, whatever happens to the     *)
(* acknowledgements: no record blocks those behind it for ever.            *)
Drains == <>[](taken = queued /\ list_pub = <<>>)
=============================================================================
