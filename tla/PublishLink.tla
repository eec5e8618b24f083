----------------------------- MODULE PublishLink -----------------------------
(***************************************************************************)
(* What the MQTT client promises the code that publishes with it: within a *)
(* connection every message is passed on exactly once and is acknowledged  *)
(* only after that; a connection that falls takes what was under way with  *)
(* it.  Messages are passed on in the order they were published as long as *)
(* no acknowledgement of the client ever waited for room in the TCP buffer.*)
(*                                                                         *)
(* Publisher is built on this link, MqttClient implements it.              *)
(***************************************************************************)
EXTENDS Naturals, Sequences

CONSTANTS Payload,         (* what a message may carry                     *)
          SUBSCRIPTIONS    (* packet ids that mqttSubscribe takes (10)     *)

VARIABLES connected,       (* mqttClient.connected()                       *)
          nextPacketId,    (* of mqttClient                                *)
          wire,            (* messages published and not yet passed on     *)
          acks,            (* ids acknowledged, on their way back          *)
          starved          (* an acknowledgement of the client had to wait *)

vars == <<connected, nextPacketId, wire, acks, starved>>

TypeOK ==
  /\ connected \in BOOLEAN /\ starved \in BOOLEAN
  /\ nextPacketId \in Nat \ {0}
  /\ wire \in Seq([id : Nat \ {0}, rec : Payload])
  /\ acks \in Seq(Nat \ {0})

Init ==
  /\ connected = FALSE /\ nextPacketId = 1
  /\ wire = <<>> /\ acks = <<>> /\ starved = FALSE

(* The connection is made; the client may subscribe in its callback.       *)
Connect(n) ==
  /\ ~connected
  /\ connected' = TRUE
  /\ nextPacketId' = nextPacketId + n
  /\ UNCHANGED <<wire, acks, starved>>

Disconnect ==
  /\ connected
  /\ connected' = FALSE /\ nextPacketId' = 1
  /\ wire' = <<>> /\ acks' = <<>> /\ starved' = FALSE

Publish(m) ==
  /\ connected
  /\ wire' = Append(wire, [id |-> nextPacketId, rec |-> m])
  /\ nextPacketId' = nextPacketId + 1
  /\ UNCHANGED <<connected, acks, starved>>

(* The sequence s without its i-th element.                                *)
Without(s, i) == [k \in 1 .. Len(s) - 1 |-> s[IF k < i THEN k ELSE k + 1]]

(* The broker passes a message on and acknowledges it.                     *)
Deliver(i) ==
  /\ i = 1 \/ starved
  /\ wire' = Without(wire, i)
  /\ acks' = Append(acks, wire[i].id)
  /\ UNCHANGED <<connected, nextPacketId, starved>>

Acknowledge ==
  /\ acks # <<>>
  /\ acks' = Tail(acks)
  /\ UNCHANGED <<connected, nextPacketId, wire, starved>>

Starve ==
  /\ connected /\ ~starved
  /\ starved' = TRUE
  /\ UNCHANGED <<connected, nextPacketId, wire, acks>>

Next == \/ \E n \in 0 .. SUBSCRIPTIONS : Connect(n)
        \/ Disconnect
        \/ \E m \in Payload : Publish(m)
        \/ \E i \in 1 .. Len(wire) : Deliver(i)
        \/ Acknowledge
        \/ Starve

Spec == Init /\ [][Next]_vars
=============================================================================
