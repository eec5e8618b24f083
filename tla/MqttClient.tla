----------------------------- MODULE MqttClient ------------------------------
(***************************************************************************)
(* The QoS 2 half of AsyncMqttClient, the library every message of the     *)
(* device goes through: packet ids, the acknowledgements that wait for     *)
(* room in the TCP buffer (_toSendAcks), and what a lost connection        *)
(* clears.  PUBLISH is answered by PUBREC, that by PUBREL, that by         *)
(* PUBCOMP, which is what the firmware's onMqttPublish sees.               *)
(*                                                                         *)
(* The broker is external and answers each packet in turn; it passes a     *)
(* message on when its PUBREL comes.  The device subscribes with QoS 0, so *)
(* that nothing it receives is acknowledged; how its bytes become packets  *)
(* is in MqttParser, when the connection is made and dropped in            *)
(* MqttSession.                                                            *)
(***************************************************************************)
EXTENDS Naturals, Sequences

CONSTANTS
  Payload,         (* what a message may carry                             *)
  SUBSCRIPTIONS,   (* packet ids that mqttSubscribe takes (10)             *)
  MAX_PUBLISH,     (* bound on the messages published                      *)
  MAX_DROPS        (* bound on the connections lost                        *)

ASSUME MqttClientAssumption ==
  /\ SUBSCRIPTIONS \in Nat
  /\ MAX_PUBLISH \in Nat /\ MAX_DROPS \in Nat

VARIABLES
  _connected,
  _nextPacketId,
  _toSendAcks,     (* ids whose PUBREL waits for room                      *)
  up, down,        (* packets on their way to the broker, and back         *)
  inbox,           (* the broker's messages that wait for their PUBREL     *)
  starved,         (* history: a PUBREL of this connection had to wait     *)
  published, drops (* counters for MAX_PUBLISH and MAX_DROPS               *)

client == <<_connected, _nextPacketId, _toSendAcks, starved>>
bounds == <<published, drops>>
vars   == <<client, up, down, inbox, bounds>>

PUBLISH == "PUBLISH"  PUBREC == "PUBREC"  PUBREL == "PUBREL"  PUBCOMP == "PUBCOMP"

Ack(t, i) == [type |-> t, id |-> i]

Init ==
  /\ _connected = FALSE /\ _nextPacketId = 1 /\ _toSendAcks = <<>>
  /\ up = <<>> /\ down = <<>> /\ inbox = <<>>
  /\ starved = FALSE
  /\ published = 0 /\ drops = 0

-----------------------------------------------------------------------------
(* _onConnAck: the callbacks subscribe, as far as there is room.           *)
OnConnAck ==
  /\ ~_connected
  /\ _connected' = TRUE
  /\ \E n \in 0 .. SUBSCRIPTIONS : _nextPacketId' = _nextPacketId + n
  /\ UNCHANGED <<_toSendAcks, starved, up, down, inbox, bounds>>

(* A defect that ImplementsLink must catch: acknowledgements of the old    *)
(* connection are sent in the new one.                                     *)
ClearKeepsAcks ==
  /\ _connected' = FALSE /\ _nextPacketId' = 1 /\ starved' = FALSE
  /\ UNCHANGED _toSendAcks

Clear == _connected' = FALSE /\ _nextPacketId' = 1 /\ _toSendAcks' = <<>> /\ starved' = FALSE

(* _onDisconnect; TCP and the broker forget the session.                   *)
OnDisconnect ==
  /\ _connected
  /\ drops < MAX_DROPS
  /\ drops' = drops + 1
  /\ Clear
  /\ up' = <<>> /\ down' = <<>> /\ inbox' = <<>>
  /\ UNCHANGED published

(* publish; without room it returns 0 and does nothing.                    *)
Publish ==
  /\ _connected
  /\ published < MAX_PUBLISH
  /\ published' = published + 1
  /\ \E m \in Payload :
       up' = Append(up, [type |-> PUBLISH, id |-> _nextPacketId, rec |-> m])
  /\ _nextPacketId' = _nextPacketId + 1
  /\ UNCHANGED <<_connected, _toSendAcks, starved, down, inbox, drops>>

-----------------------------------------------------------------------------
(* The loop of _sendAcks erases the acknowledgement it sent and then moves *)
(* on to the next index: it sends every other one, as long as there is     *)
(* room, and leaves the rest for the next call.                            *)
Sendable(n) == (n + 1) \div 2

SendAcks(acks, room) ==
  /\ up' = up \o [k \in 1 .. room |-> Ack(PUBREL, acks[2 * k - 1])]
  /\ _toSendAcks' = [k \in 1 .. Len(acks) - room |-> acks[IF k < room THEN 2 * k ELSE k + room]]
  /\ starved' = (starved \/ room < Len(acks))

(* A defect that Completes must catch: only what _onData brings in makes   *)
(* acknowledgements go out.                                                *)
OnPollNoAcks(room) == _connected /\ room < 0 /\ UNCHANGED vars

(* _onPoll, every 500 ms.                                                  *)
OnPoll(room) ==
  /\ _connected
  /\ _toSendAcks # <<>>
  /\ SendAcks(_toSendAcks, room)
  /\ UNCHANGED <<_connected, _nextPacketId, down, inbox, bounds>>

OnPubRec ==
  /\ down # <<>> /\ Head(down).type = PUBREC
  /\ down' = Tail(down)
  /\ LET acks == Append(_toSendAcks, Head(down).id)
     IN  \E room \in 0 .. Sendable(Len(acks)) : SendAcks(acks, room)
  /\ UNCHANGED <<_connected, _nextPacketId, inbox, bounds>>

OnPubComp ==
  /\ down # <<>> /\ Head(down).type = PUBCOMP
  /\ down' = Tail(down)
  /\ UNCHANGED <<client, up, inbox, bounds>>

OnData == OnPubRec \/ OnPubComp

(* What is under way, as Publisher sees it: the messages that the broker   *)
(* has not passed on, those it keeps for their PUBREL before those that    *)
(* have not reached it; and the acknowledgements of those it passed on.    *)
Selected(s, t) ==
  LET f[n \in 0 .. Len(s)] == IF n = 0 THEN <<>>
                              ELSE IF s[n].type = t THEN Append(f[n - 1], s[n])
                              ELSE f[n - 1]
  IN  f[Len(s)]

Content(p) == [id |-> p.id, rec |-> p.rec]
Ids(q)     == [k \in DOMAIN q |-> q[k].id]

Wire == LET q == Selected(up, PUBLISH)
        IN  inbox \o [k \in DOMAIN q |-> Content(q[k])]

Link == INSTANCE PublishLink WITH
          connected    <- _connected,
          nextPacketId <- _nextPacketId,
          wire         <- Wire,
          acks         <- Ids(Selected(down, PUBCOMP))

(* The broker keeps a message until its PUBREL comes, and answers each.    *)
BrokerPublish ==
  /\ up # <<>> /\ Head(up).type = PUBLISH
  /\ up' = Tail(up)
  /\ inbox' = Append(inbox, Content(Head(up)))
  /\ down' = Append(down, Ack(PUBREC, Head(up).id))
  /\ UNCHANGED <<client, bounds>>

Released(i) == LET at == {k \in DOMAIN inbox : inbox[k].id = i}
               IN  IF at = {} THEN inbox ELSE Link!Without(inbox, CHOOSE k \in at : TRUE)

BrokerPubRel ==
  /\ up # <<>> /\ Head(up).type = PUBREL
  /\ up' = Tail(up)
  /\ inbox' = Released(Head(up).id)
  /\ down' = Append(down, Ack(PUBCOMP, Head(up).id))
  /\ UNCHANGED <<client, bounds>>

Broker == BrokerPublish \/ BrokerPubRel

Poll == \E room \in 0 .. Sendable(Len(_toSendAcks)) : OnPoll(room)

Next == OnConnAck \/ OnDisconnect \/ Publish \/ Poll \/ OnData \/ Broker

Spec == Init /\ [][Next]_vars

(* lwIP polls the connection, TCP makes room again, the broker answers.    *)
FairSpec ==
  /\ Spec
  /\ WF_vars(OnPoll(Sendable(Len(_toSendAcks))))
  /\ WF_vars(OnData) /\ WF_vars(Broker)

-----------------------------------------------------------------------------
Id     == 1 .. MAX_PUBLISH + SUBSCRIPTIONS
Stored == [id : Id, rec : Payload]

(* Every variable stays in its range; without a connection nothing waits.  *)
TypeOK ==
  /\ _connected \in BOOLEAN /\ starved \in BOOLEAN
  /\ _nextPacketId \in 1 .. MAX_PUBLISH + SUBSCRIPTIONS + 1
  /\ _toSendAcks \in Seq(Id)
  /\ up \in Seq([type : {PUBLISH}, id : Id, rec : Payload] \cup [type : {PUBREL}, id : Id])
  /\ down \in Seq([type : {PUBREC, PUBCOMP}, id : Id])
  /\ inbox \in Seq(Stored)
  /\ published \in 0 .. MAX_PUBLISH /\ drops \in 0 .. MAX_DROPS
  /\ ~_connected => _toSendAcks = <<>> /\ up = <<>> /\ down = <<>> /\ inbox = <<>>

(* The QoS 2 handshake of the library is the link that Publisher relies    *)
(* on: every message passed on once, acknowledged only then, and in order  *)
(* as long as no PUBREL had to wait.                                       *)
ImplementsLink == Link!Spec

(* No handshake gets stuck: an acknowledgement that found no room, or that *)
(* the loop of _sendAcks skipped, goes out in the end, and every message   *)
(* of a connection that lasts is passed on and acknowledged.               *)
Completes == <>[](Wire = <<>> /\ Selected(down, PUBCOMP) = <<>>)
=============================================================================
