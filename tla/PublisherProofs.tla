--------------------------- MODULE PublisherProofs --------------------------
(***************************************************************************)
(* Proofs about Publisher, for every number of records, timeout, number of *)
(* resends and of lost connections: its types, that one record at a time   *)
(* is outstanding, that the server never goes back to an older count, and  *)
(* that no record vanishes while its connection lasts.                     *)
(***************************************************************************)
EXTENDS Publisher, SequenceTheorems, TLAPS

(* What the server has, and what is on the wire, was taken from the ring.  *)
WireWasTaken ==
  /\ last <= taken
  /\ \A i \in 1 .. Len(wire) : wire[i].rec # NoRecord => wire[i].rec <= taken

(* As long as no acknowledgement of the client had to wait, what is on the *)
(* wire is newer than what the server has, and in order.                   *)
WireInOrder ==
  ~starved =>
    /\ \A i \in 1 .. Len(wire) : wire[i].rec # NoRecord => last <= wire[i].rec
    /\ \A i, j \in 1 .. Len(wire) :
         i < j /\ wire[i].rec # NoRecord /\ wire[j].rec # NoRecord
           => wire[i].rec <= wire[j].rec

(* Every id in use in this connection is below the next one.               *)
IdsBelowNext ==
  /\ \A i \in 1 .. Len(wire) : wire[i].id < nextPacketId
  /\ \A i \in 1 .. Len(acks) : acks[i] < nextPacketId
  /\ ~connected => wire = <<>> /\ acks = <<>>

(* Until its connection falls, the id of the outstanding record is its own *)
(* on the wire, and acknowledged only after the server has the record.     *)
IdIsTheRecords ==
  list_pub # <<>> /\ list_pub[1].rec \notin crossed =>
    /\ list_pub[1].id < nextPacketId
    /\ \A i \in 1 .. Len(wire) : wire[i].id = list_pub[1].id => wire[i].rec = list_pub[1].rec
    /\ \A i \in 1 .. Len(acks) : acks[i] = list_pub[1].id => list_pub[1].rec \in seen

-----------------------------------------------------------------------------
LEMMA MessageSeq ==
  ASSUME NEW s \in Seq(Message), NEW k \in Nat \ {0}, NEW r \in 0 .. RECORDS
  PROVE  LET a == Append(s, [id |-> k, rec |-> r]) IN
           /\ a \in Seq(Message)
           /\ Len(a) = Len(s) + 1
           /\ \A i \in 1 .. Len(s) : a[i] = s[i]
           /\ a[Len(s) + 1].id = k /\ a[Len(s) + 1].rec = r
<1> DEFINE e == [id |-> k, rec |-> r]
<1>1. e \in Message /\ e.id = k /\ e.rec = r
  BY DEF Message
<1> HIDE DEF e
<1>2. /\ Append(s, e) \in Seq(Message) /\ Len(Append(s, e)) = Len(s) + 1
      /\ \A i \in 1 .. Len(s) : Append(s, e)[i] = s[i]
      /\ Append(s, e)[Len(s) + 1] = e
  BY <1>1, AppendProperties
<1> QED BY <1>1, <1>2 DEF e

LEMMA TailSeq ==
  ASSUME NEW S, NEW s \in Seq(S), s # <<>>
  PROVE  /\ Head(s) = s[1] /\ s[1] \in S
         /\ Tail(s) \in Seq(S)
         /\ Len(s) \in Nat \ {0} /\ Len(Tail(s)) = Len(s) - 1
         /\ \A i \in 1 .. Len(Tail(s)) : Tail(s)[i] = s[i + 1] /\ i + 1 \in 1 .. Len(s)
<1>1. Len(s) \in Nat /\ Len(s) # 0
  BY EmptySeq, LenProperties
<1> QED BY <1>1, HeadTailProperties, LenProperties, ElementOfSeq

(* A sequence without its d-th element.                                    *)
LEMMA WithoutSeq ==
  ASSUME NEW S, NEW s \in Seq(S), NEW d \in 1 .. Len(s)
  PROVE  /\ Link!Without(s, d) \in Seq(S)
         /\ Len(s) \in Nat \ {0} /\ Len(Link!Without(s, d)) = Len(s) - 1
         /\ \A k \in 1 .. Len(s) - 1 : \E j \in 1 .. Len(s) :
               j = (IF k < d THEN k ELSE k + 1) /\ Link!Without(s, d)[k] = s[j]
<1> DEFINE w == Link!Without(s, d)
<1>1. Len(s) \in Nat \ {0}
  BY LenProperties
<1>2. \A k \in 1 .. Len(s) - 1 : \E j \in 1 .. Len(s) :
        j = (IF k < d THEN k ELSE k + 1) /\ w[k] = s[j]
  BY <1>1 DEF Link!Without
<1>3. \A k \in 1 .. Len(s) : s[k] \in S
  BY ElementOfSeq
<1>4. w = [k \in 1 .. Len(s) - 1 |-> w[k]]
  BY DEF Link!Without
<1> HIDE DEF w
<1>5. \A k \in 1 .. Len(s) - 1 : w[k] \in S
  BY <1>2, <1>3
<1>6. w \in Seq(S) /\ Len(w) = Len(s) - 1
  BY <1>1, <1>4, <1>5, IsASeq, LenProperties
<1> QED BY <1>1, <1>2, <1>6 DEF w

(* The list after a push or a replacement of its only entry.               *)
LEMMA OneEntry ==
  ASSUME NEW k \in Nat, NEW r \in 1 .. RECORDS
  PROVE  LET a == <<[id |-> k, rec |-> r]>> \o <<>> IN
           /\ a \in Seq(Entry) /\ Len(a) = 1
           /\ a # <<>>
           /\ a[1].id = k /\ a[1].rec = r
BY DEF Entry

-----------------------------------------------------------------------------
(* Types.  The sequences are the only variables that need more than        *)
(* arithmetic.                                                             *)
LEMMA PublishTypes ==
  ASSUME TypeOK, NEW r \in 0 .. RECORDS, NEW ok \in BOOLEAN, Publish(r, ok)
  PROVE  /\ wire' \in Seq(Message) /\ nextPacketId' \in Nat \ {0}
         /\ connected' = connected /\ acks' = acks
         /\ PubId(ok) \in Nat
<1>1. CASE ok
  <2>1. wire \in Seq(Message) /\ nextPacketId \in Nat \ {0}
    BY DEF TypeOK, ChannelsOK, CountsOK
  <2> QED BY <1>1, <2>1, MessageSeq, SMTT(30) DEF Publish, PubId, Link!Publish, link
<1>2. CASE ~ok
  BY <1>2 DEF Publish, PubId, Link!Publish, link, TypeOK, ChannelsOK, CountsOK
<1> QED BY <1>1, <1>2

LEMMA ListTypes ==
  ASSUME TypeOK, list_pub # <<>>
  PROVE  /\ Head(list_pub) \in Entry /\ Head(list_pub) = list_pub[1]
         /\ Head(list_pub).rec \in 1 .. RECORDS
         /\ Tail(list_pub) \in Seq(Entry)
<1>1. list_pub \in Seq(Entry)
  BY DEF TypeOK, ChannelsOK
<1>2. Head(list_pub) = list_pub[1] /\ Head(list_pub) \in Entry /\ Tail(list_pub) \in Seq(Entry)
  BY <1>1, TailSeq
<1> QED BY <1>2 DEF Entry

LEMMA PushTypes ==
  ASSUME NEW k \in Nat, NEW r \in 1 .. RECORDS, NEW s \in Seq(Entry)
  PROVE  <<[id |-> k, rec |-> r]>> \o s \in Seq(Entry)
<1>1. <<[id |-> k, rec |-> r]>> \in Seq(Entry)
  BY DEF Entry
<1> QED BY <1>1, ConcatProperties

LEMMA StepFlags == FlagsOK /\ [Next]_vars => FlagsOK'
BY DEF FlagsOK, Next, MqttCommunicateSvr, vars, link, Produce, GetPlan, CheckGetDataFromServer,
       SendOther, FuncSendInfo, SendDataOutput, TakeRecord, WaitForAck, Resend, Timeout, GiveUp,
       Publish, Link!Publish, OnMqttPublish, Link!Acknowledge, OnMqttConnect, Link!Connect,
       OnMqttDisconnect, Link!Disconnect, Deliver, Link!Deliver, Starve, Link!Starve

LEMMA StepChannels == TypeOK /\ [Next]_vars => ChannelsOK'
<1> SUFFICES ASSUME TypeOK, [Next]_vars PROVE ChannelsOK'
  OBVIOUS
<1>1. list_pub \in Seq(Entry) /\ wire \in Seq(Message) /\ acks \in Seq(Nat \ {0})
  BY DEF TypeOK, ChannelsOK
<1>2. CASE Produce \/ GetPlan \/ CheckGetDataFromServer \/ WaitForAck \/ Starve \/ UNCHANGED vars
  BY <1>1, <1>2 DEF Produce, GetPlan, CheckGetDataFromServer, WaitForAck, Starve, Link!Starve,
                    ChannelsOK, vars, link
<1>3. CASE SendOther \/ FuncSendInfo
  <2>1. \E ok \in BOOLEAN : Publish(0, ok)
    BY <1>3 DEF SendOther, FuncSendInfo, NoRecord
  <2>2. list_pub' = list_pub
    BY <1>3 DEF SendOther, FuncSendInfo
  <2>3. 0 \in 0 .. RECORDS
    BY PublisherAssumption
  <2> QED BY <1>1, <2>1, <2>2, <2>3, PublishTypes DEF ChannelsOK
<1>4. CASE SendDataOutput
  <2>1. CASE taken + 1 \in MISDATED
    BY <1>1, <1>4, <2>1 DEF SendDataOutput, TakeRecord, ChannelsOK, link
  <2>2. CASE taken + 1 \notin MISDATED
    <3>1. PICK ok \in BOOLEAN :
             /\ Publish(taken + 1, ok)
             /\ list_pub' = <<[id |-> PubId(ok), rec |-> taken + 1]>> \o list_pub
      BY <1>4, <2>2 DEF SendDataOutput, TakeRecord
    <3>2. taken + 1 \in 0 .. RECORDS /\ taken + 1 \in 1 .. RECORDS
      BY <1>4, PublisherAssumption DEF SendDataOutput, TakeRecord, TypeOK, CountsOK
    <3>3. wire' \in Seq(Message) /\ acks' = acks /\ PubId(ok) \in Nat
      BY <3>1, <3>2, PublishTypes
    <3>4. list_pub' \in Seq(Entry)
      BY <1>1, <3>1, <3>2, <3>3, PushTypes
    <3> QED BY <1>1, <3>3, <3>4 DEF ChannelsOK
  <2> QED BY <2>1, <2>2
<1>5. CASE Resend
  <2>1. PICK ok \in BOOLEAN :
           /\ Publish(Head(list_pub).rec, ok)
           /\ list_pub' = <<[id |-> PubId(ok), rec |-> Head(list_pub).rec]>> \o Tail(list_pub)
    BY <1>5 DEF Resend
  <2>2. Head(list_pub).rec \in 1 .. RECORDS /\ Tail(list_pub) \in Seq(Entry)
    BY <1>5, ListTypes DEF Resend, Timeout
  <2>3. Head(list_pub).rec \in 0 .. RECORDS
    BY <2>2, PublisherAssumption
  <2>4. wire' \in Seq(Message) /\ acks' = acks /\ PubId(ok) \in Nat
    BY <2>1, <2>3, PublishTypes
  <2>5. list_pub' \in Seq(Entry)
    BY <2>1, <2>2, <2>4, PushTypes
  <2> QED BY <1>1, <2>4, <2>5 DEF ChannelsOK
<1>6. CASE GiveUp
  <2>1. \E ok \in BOOLEAN : Publish(0, ok)
    BY <1>6 DEF GiveUp, NoRecord
  <2>2. 0 \in 0 .. RECORDS
    BY PublisherAssumption
  <2>3. list_pub' \in Seq(Entry)
    BY <1>6, ListTypes DEF GiveUp, Timeout
  <2> QED BY <1>1, <2>1, <2>2, <2>3, PublishTypes DEF ChannelsOK
<1>7. CASE OnMqttPublish
  <2>1. acks' \in Seq(Nat \ {0})
    BY <1>1, <1>7, TailSeq DEF OnMqttPublish, Link!Acknowledge
  <2>2. list_pub' \in Seq(Entry)
    BY <1>1, <1>7, ListTypes DEF OnMqttPublish
  <2> QED BY <1>1, <1>7, <2>1, <2>2 DEF OnMqttPublish, Link!Acknowledge, ChannelsOK
<1>8. CASE OnMqttConnect
  BY <1>1, <1>8 DEF OnMqttConnect, Link!Connect, ChannelsOK
<1>9. CASE OnMqttDisconnect
  BY <1>1, <1>9, EmptySeq DEF OnMqttDisconnect, Link!Disconnect, ChannelsOK
<1>10. CASE Deliver
  <2>0. PICK d \in 1 .. Len(wire) : Link!Deliver(d)
    BY <1>10 DEF Deliver
  <2>1. Link!Without(wire, d) \in Seq(Message) /\ wire[d] \in Message
    BY <1>1, WithoutSeq, ElementOfSeq
  <2>2. wire[d].id \in Nat \ {0}
    BY <2>1 DEF Message
  <2>3. acks' \in Seq(Nat \ {0})
    BY <1>1, <2>0, <2>2, AppendProperties DEF Link!Deliver
  <2> QED BY <1>1, <1>10, <2>0, <2>1, <2>3 DEF Deliver, Link!Deliver, ChannelsOK
<1> QED
  BY <1>2, <1>3, <1>4, <1>5, <1>6, <1>7, <1>8, <1>9, <1>10 DEF Next, MqttCommunicateSvr

LEMMA StepCounts == TypeOK /\ [Next]_vars => CountsOK'
<1> SUFFICES ASSUME CountsOK, [Next]_vars PROVE CountsOK'
  BY DEF TypeOK
<1> USE PublisherAssumption DEF CountsOK
<1>1. CASE Produce \/ GetPlan \/ CheckGetDataFromServer \/ WaitForAck \/ Starve \/ UNCHANGED vars
  BY <1>1 DEF Produce, GetPlan, CheckGetDataFromServer, WaitForAck, Starve, Link!Starve, vars, link
<1>2. CASE SendOther \/ FuncSendInfo \/ GiveUp
  <2>1. nextPacketId' \in Nat \ {0}
    BY <1>2 DEF SendOther, FuncSendInfo, GiveUp, Publish, Link!Publish, link
  <2> QED BY <1>2, <2>1 DEF SendOther, FuncSendInfo, GiveUp, Timeout
<1>3. CASE SendDataOutput
  <2>1. nextPacketId' \in Nat \ {0}
    BY <1>3 DEF SendDataOutput, TakeRecord, Publish, Link!Publish, link
  <2>2. taken' = taken + 1 /\ taken < queued
    BY <1>3 DEF SendDataOutput, TakeRecord
  <2> QED BY <1>3, <2>1, <2>2 DEF SendDataOutput, TakeRecord
<1>4. CASE Resend
  <2>1. nextPacketId' \in Nat \ {0} /\ ucCntSendPayload' \in 0 .. MAX_SEND_PAYLOAD
    BY <1>4 DEF Resend, Publish, Link!Publish, link
  <2> QED BY <1>4, <2>1 DEF Resend, Timeout
<1>5. CASE OnMqttPublish \/ OnMqttConnect \/ OnMqttDisconnect \/ Deliver
  BY <1>5 DEF OnMqttPublish, Link!Acknowledge, OnMqttConnect, Link!Connect, OnMqttDisconnect,
              Link!Disconnect, Deliver, Link!Deliver
<1> QED
  BY <1>1, <1>2, <1>3, <1>4, <1>5 DEF Next, MqttCommunicateSvr

LEMMA StepHistory == TypeOK /\ [Next]_vars => HistoryOK'
<1> SUFFICES ASSUME TypeOK, [Next]_vars PROVE HistoryOK'
  OBVIOUS
<1>1. CASE UNCHANGED <<seen, last, given_up, crossed>>
  BY <1>1 DEF TypeOK, HistoryOK
<1>2. CASE GiveUp
  BY <1>2, ListTypes DEF GiveUp, Timeout, TypeOK, HistoryOK, server
<1>3. CASE OnMqttDisconnect
  <2>1. \A i \in DOMAIN list_pub : list_pub[i] \in Entry
    BY ElementOfSeq, LenProperties DEF TypeOK, ChannelsOK
  <2>2. \A i \in DOMAIN list_pub : list_pub[i].rec \in 1 .. RECORDS
    BY <2>1 DEF Entry
  <2> QED BY <1>3, <2>2 DEF OnMqttDisconnect, TypeOK, HistoryOK, server
<1>4. CASE Deliver
  <2>1. PICK d \in 1 .. Len(wire) :
           IF wire[d].rec = NoRecord THEN UNCHANGED server
           ELSE seen' = seen \cup {wire[d].rec} /\ last' = wire[d].rec
    BY <1>4 DEF Deliver
  <2>2. wire[d] \in Message
    BY ElementOfSeq DEF TypeOK, ChannelsOK
  <2>3. wire[d].rec \in 0 .. RECORDS
    BY <2>2 DEF Message
  <2>4. CASE wire[d].rec = NoRecord
    BY <1>4, <2>1, <2>4 DEF Deliver, TypeOK, HistoryOK, server
  <2>5. CASE wire[d].rec # NoRecord
    <3>1. wire[d].rec \in 1 .. RECORDS
      BY <2>3, <2>5, PublisherAssumption DEF NoRecord
    <3>2. seen' = seen \cup {wire[d].rec} /\ last' = wire[d].rec
          /\ given_up' = given_up /\ crossed' = crossed
      BY <1>4, <2>1, <2>5 DEF Deliver
    <3> QED BY <2>3, <3>1, <3>2 DEF TypeOK, HistoryOK
  <2> QED BY <2>4, <2>5
<1> QED
  BY <1>1, <1>2, <1>3, <1>4 DEF Next, MqttCommunicateSvr, Produce, GetPlan,
     CheckGetDataFromServer, SendOther, FuncSendInfo, SendDataOutput, TakeRecord, WaitForAck,
     Resend, OnMqttPublish, OnMqttConnect, Starve, vars, server

LEMMA StepType == TypeOK /\ [Next]_vars => TypeOK'
BY StepFlags, StepChannels, StepCounts, StepHistory DEF TypeOK

LEMMA InitType == Init => TypeOK
<1> SUFFICES ASSUME Init PROVE TypeOK
  OBVIOUS
<1>1. FlagsOK
  BY DEF Init, Link!Init, FlagsOK
<1>2. ChannelsOK
  BY EmptySeq DEF Init, Link!Init, ChannelsOK
<1>3. CountsOK /\ HistoryOK
  BY PublisherAssumption DEF Init, Link!Init, CountsOK, HistoryOK
<1> QED BY <1>1, <1>2, <1>3 DEF TypeOK

(* Every variable stays in its range, the tick counter below the timeout,  *)
(* for every value of the constants.                                       *)
THEOREM PublisherTypeCorrect == Spec => []TypeOK
BY InitType, StepType, PTL DEF Spec

-----------------------------------------------------------------------------
(* What the actions do to the list of outstanding records: nothing, or it  *)
(* becomes empty, or one entry whose id is the next one or none.           *)
LEMMA OnlyOne ==
  ASSUME TypeOK, OutstandingIsNewest, list_pub # <<>>
  PROVE  /\ Len(list_pub) = 1 /\ Tail(list_pub) = <<>>
         /\ Head(list_pub) = list_pub[1] /\ list_pub[1].rec = taken
         /\ list_pub[1].id \in Nat /\ taken \in 1 .. RECORDS
<1>1. list_pub \in Seq(Entry) /\ Len(list_pub) = 1 /\ list_pub[1].rec = taken
  BY DEF TypeOK, ChannelsOK, OutstandingIsNewest
<1>2. Tail(list_pub) \in Seq(Entry) /\ Len(Tail(list_pub)) = 0
      /\ Head(list_pub) = list_pub[1] /\ list_pub[1] \in Entry
  BY <1>1, TailSeq
<1>3. Tail(list_pub) = <<>>
  BY <1>2, EmptySeq
<1> QED BY <1>1, <1>2, <1>3 DEF Entry

Sent(ok) == list_pub' = <<[id |-> PubId(ok), rec |-> taken']>> \o <<>>

LEMMA SentEntry ==
  ASSUME NEW ok \in BOOLEAN, PubId(ok) \in Nat, taken' \in 1 .. RECORDS, Sent(ok)
  PROVE  /\ list_pub' # <<>> /\ Len(list_pub') = 1
         /\ list_pub'[1].rec = taken' /\ list_pub'[1].id = PubId(ok)
         /\ 1 \in DOMAIN list_pub'
<1>1. LET a == <<[id |-> PubId(ok), rec |-> taken']>> \o <<>> IN
           /\ a # <<>> /\ Len(a) = 1 /\ 1 \in DOMAIN a
           /\ a[1].id = PubId(ok) /\ a[1].rec = taken'
  BY OneEntry
<1> QED BY <1>1 DEF Sent

LEMMA SendDataOutputSends ==
  ASSUME TypeOK, SendDataOutput, taken + 1 \notin MISDATED
  PROVE  /\ taken' = taken + 1 /\ taken' \in 1 .. RECORDS /\ taken' \in 0 .. RECORDS
         /\ \E ok \in BOOLEAN : Publish(taken', ok) /\ Sent(ok)
<1>1. taken' = taken + 1 /\ taken < queued /\ list_pub = <<>>
  BY DEF SendDataOutput, TakeRecord
<1>2. taken' \in 1 .. RECORDS /\ taken' \in 0 .. RECORDS
  BY <1>1, PublisherAssumption DEF TypeOK, CountsOK
<1>3. \E ok \in BOOLEAN : Publish(taken', ok) /\ Sent(ok)
  BY <1>1 DEF SendDataOutput, TakeRecord, Sent
<1> QED BY <1>1, <1>2, <1>3

LEMMA ResendSends ==
  ASSUME TypeOK, OutstandingIsNewest, Resend
  PROVE  /\ taken' = taken /\ taken' \in 1 .. RECORDS /\ taken' \in 0 .. RECORDS
         /\ \E ok \in BOOLEAN : Publish(taken', ok) /\ Sent(ok)
<1>1. list_pub # <<>> /\ taken' = taken
  BY DEF Resend, Timeout
<1>2. Tail(list_pub) = <<>> /\ Head(list_pub).rec = taken /\ taken \in 1 .. RECORDS
  BY <1>1, OnlyOne
<1>3. \E ok \in BOOLEAN : Publish(taken', ok) /\ Sent(ok)
  BY <1>1, <1>2 DEF Resend, Sent
<1> QED BY <1>1, <1>2, <1>3, PublisherAssumption

LEMMA StepOutstanding == TypeOK /\ OutstandingIsNewest /\ [Next]_vars => OutstandingIsNewest'
<1> SUFFICES ASSUME TypeOK, OutstandingIsNewest, [Next]_vars PROVE OutstandingIsNewest'
  OBVIOUS
<1>1. CASE UNCHANGED <<list_pub, taken>>
  BY <1>1 DEF OutstandingIsNewest
<1>2. CASE SendDataOutput
  <2>1. CASE taken + 1 \in MISDATED
    BY <1>2, <2>1 DEF SendDataOutput, TakeRecord, OutstandingIsNewest
  <2>2. CASE taken + 1 \notin MISDATED
    BY <1>2, <2>2, SendDataOutputSends, PublishTypes, SentEntry DEF OutstandingIsNewest
  <2> QED BY <2>1, <2>2
<1>3. CASE Resend
  BY <1>3, ResendSends, PublishTypes, SentEntry DEF OutstandingIsNewest
<1>4. CASE GiveUp \/ OnMqttPublish
  BY <1>4, OnlyOne DEF GiveUp, Timeout, OnMqttPublish, Link!Acknowledge, OutstandingIsNewest
<1> QED
  BY <1>1, <1>2, <1>3, <1>4 DEF Next, MqttCommunicateSvr, Produce, GetPlan,
     CheckGetDataFromServer, SendOther, FuncSendInfo, WaitForAck, OnMqttConnect,
     OnMqttDisconnect, Deliver, Starve, vars

(* At most one record is outstanding, and it is the one taken last.        *)
THEOREM OneOutstanding == Spec => []OutstandingIsNewest
<1>1. Init => OutstandingIsNewest
  BY DEF Init, OutstandingIsNewest
<1> QED BY <1>1, StepOutstanding, PublisherTypeCorrect, PTL DEF Spec

-----------------------------------------------------------------------------
(* What a publication and a delivery do to the wire.                       *)
LEMMA PublishEffect ==
  ASSUME TypeOK, NEW r \in 0 .. RECORDS, NEW ok \in BOOLEAN, Publish(r, ok)
  PROVE  /\ Len(wire) \in Nat
         /\ \A i \in 1 .. Len(wire) : wire'[i] = wire[i]
         /\ acks' = acks /\ connected' = connected /\ starved' = starved
         /\ \/ /\ PubId(ok) = nextPacketId /\ nextPacketId' = nextPacketId + 1
               /\ Len(wire') = Len(wire) + 1
               /\ wire'[Len(wire) + 1].id = nextPacketId
               /\ wire'[Len(wire) + 1].rec = r
            \/ /\ PubId(ok) = 0 /\ nextPacketId' = nextPacketId
               /\ wire' = wire
<1>1. wire \in Seq(Message) /\ nextPacketId \in Nat \ {0} /\ Len(wire) \in Nat
  BY LenProperties DEF TypeOK, ChannelsOK, CountsOK
<1>2. CASE ok
  <2>1. /\ wire' = Append(wire, [id |-> nextPacketId, rec |-> r])
        /\ nextPacketId' = nextPacketId + 1 /\ PubId(ok) = nextPacketId
        /\ acks' = acks /\ connected' = connected /\ starved' = starved
    BY <1>2 DEF Publish, PubId, Link!Publish
  <2> QED BY <1>1, <2>1, MessageSeq
<1>3. CASE ~ok
  BY <1>1, <1>3 DEF Publish, PubId, Link!Publish, link
<1> QED BY <1>2, <1>3

Delivered(d) ==
  /\ Link!Deliver(d)
  /\ IF wire[d].rec = NoRecord THEN seen' = seen /\ last' = last
     ELSE seen' = seen \cup {wire[d].rec} /\ last' = wire[d].rec

LEMMA DeliverPicks == Deliver => \E d \in 1 .. Len(wire) : Delivered(d)
BY DEF Deliver, Delivered, server

LEMMA DeliverEffect ==
  ASSUME TypeOK, NEW d \in 1 .. Len(wire), Delivered(d)
  PROVE  /\ d = 1 \/ starved
         /\ starved' = starved /\ connected' = connected /\ nextPacketId' = nextPacketId
         /\ Len(wire) \in Nat \ {0} /\ Len(wire') = Len(wire) - 1
         /\ \A k \in 1 .. Len(wire') : \E j \in 1 .. Len(wire) :
               j = (IF k < d THEN k ELSE k + 1) /\ wire'[k] = wire[j]
         /\ Len(acks) \in Nat /\ Len(acks') = Len(acks) + 1
         /\ \A i \in 1 .. Len(acks) : acks'[i] = acks[i]
         /\ acks'[Len(acks) + 1] = wire[d].id
         /\ wire[d] \in Message /\ wire[d].rec \in 0 .. RECORDS
<1>1. wire \in Seq(Message) /\ acks \in Seq(Nat \ {0})
  BY DEF TypeOK, ChannelsOK
<1>2. wire[d] \in Message
  BY <1>1, ElementOfSeq
<1>3. wire[d].id \in Nat \ {0} /\ wire[d].rec \in 0 .. RECORDS
  BY <1>2 DEF Message
<1>4. /\ wire' = Link!Without(wire, d) /\ acks' = Append(acks, wire[d].id)
      /\ d = 1 \/ starved
      /\ starved' = starved /\ connected' = connected /\ nextPacketId' = nextPacketId
  BY DEF Delivered, Link!Deliver
<1>5. /\ Len(wire) \in Nat \ {0} /\ Len(wire') = Len(wire) - 1
      /\ \A k \in 1 .. Len(wire') : \E j \in 1 .. Len(wire) :
            j = (IF k < d THEN k ELSE k + 1) /\ wire'[k] = wire[j]
  <2>1. /\ Len(wire) \in Nat \ {0} /\ Len(Link!Without(wire, d)) = Len(wire) - 1
        /\ \A k \in 1 .. Len(wire) - 1 : \E j \in 1 .. Len(wire) :
              j = (IF k < d THEN k ELSE k + 1) /\ Link!Without(wire, d)[k] = wire[j]
    BY <1>1, WithoutSeq
  <2> QED BY <1>4, <2>1
<1>6. Len(acks) \in Nat /\ Len(acks') = Len(acks) + 1
      /\ (\A i \in 1 .. Len(acks) : acks'[i] = acks[i])
      /\ acks'[Len(acks) + 1] = wire[d].id
  BY <1>1, <1>3, <1>4, AppendProperties, LenProperties
<1> QED BY <1>2, <1>3, <1>4, <1>5, <1>6

-----------------------------------------------------------------------------
LEMMA WireRecords ==
  ASSUME TypeOK
  PROVE  /\ Len(wire) \in Nat /\ last \in Nat /\ taken \in Nat
         /\ \A i \in 1 .. Len(wire) : wire[i].rec \in Nat
<1>1. wire \in Seq(Message)
  BY DEF TypeOK, ChannelsOK
<1>2. \A i \in 1 .. Len(wire) : wire[i] \in Message
  BY <1>1, ElementOfSeq
<1>3. \A i \in 1 .. Len(wire) : wire[i].rec \in Nat
  BY <1>2, PublisherAssumption DEF Message
<1>4. last \in Nat /\ taken \in Nat
  BY PublisherAssumption DEF TypeOK, CountsOK, HistoryOK
<1> QED BY <1>1, <1>3, <1>4, LenProperties

LEMMA PublishTaken ==
  ASSUME TypeOK, WireWasTaken, WireInOrder, NEW r \in 0 .. RECORDS, NEW ok \in BOOLEAN,
         Publish(r, ok), r = 0 \/ r = taken', taken' \in Nat, taken <= taken', last' = last
  PROVE  WireWasTaken' /\ WireInOrder'
<1> DEFINE n == Len(wire)
<1>1. /\ n \in Nat /\ last \in Nat /\ taken \in Nat
      /\ \A i \in 1 .. n : wire[i].rec \in Nat
  BY WireRecords
<1>2. /\ last <= taken
      /\ \A i \in 1 .. n : wire[i].rec # 0 => wire[i].rec <= taken
  BY DEF WireWasTaken, NoRecord
<1>3. /\ \A i \in 1 .. n : wire'[i] = wire[i]
      /\ \/ Len(wire') = n + 1 /\ wire'[n + 1].rec = r
         \/ Len(wire') = n
      /\ starved' = starved
  BY PublishEffect
<1> HIDE DEF n
<1>4. \A i \in 1 .. Len(wire') : i \in 1 .. n \/ (i = n + 1 /\ wire'[i].rec = r)
  BY <1>1, <1>3
<1>5. \A i \in 1 .. Len(wire') : wire'[i].rec # 0 => wire'[i].rec <= taken'
  BY <1>1, <1>2, <1>3, <1>4
<1>6. CASE starved
  BY <1>1, <1>2, <1>3, <1>5, <1>6 DEF WireWasTaken, WireInOrder, NoRecord
<1>7. CASE ~starved
  <2>1. /\ \A i \in 1 .. n : wire[i].rec # 0 => last <= wire[i].rec
        /\ \A i, j \in 1 .. n : i < j /\ wire[i].rec # 0 /\ wire[j].rec # 0
                               => wire[i].rec <= wire[j].rec
    BY <1>7 DEF WireInOrder, NoRecord, n
  <2>2. \A i \in 1 .. Len(wire') : wire'[i].rec # 0 => last <= wire'[i].rec
    BY <1>1, <1>2, <1>3, <1>4, <2>1
  <2>3. ASSUME NEW i \in 1 .. Len(wire'), NEW j \in 1 .. Len(wire'),
               i < j, wire'[i].rec # 0, wire'[j].rec # 0
        PROVE  wire'[i].rec <= wire'[j].rec
    <3>1. i \in 1 .. n
      BY <1>1, <1>3, <2>3
    <3>2. wire'[i].rec = wire[i].rec /\ wire[i].rec <= taken /\ wire[i].rec \in Nat
      BY <1>1, <1>2, <1>3, <2>3, <3>1
    <3>3. CASE j \in 1 .. n
      BY <1>3, <2>1, <2>3, <3>1, <3>3
    <3>4. CASE wire'[j].rec = r
      BY <1>1, <2>3, <3>2, <3>4
    <3> QED BY <1>4, <3>3, <3>4
  <2> QED BY <1>1, <1>2, <1>3, <1>5, <2>2, <2>3 DEF WireWasTaken, WireInOrder, NoRecord
<1> QED BY <1>6, <1>7

LEMMA DeliverOrder ==
  ASSUME TypeOK, WireWasTaken, WireInOrder, NEW d \in 1 .. Len(wire), Delivered(d),
         taken' = taken
  PROVE  /\ WireWasTaken' /\ WireInOrder'
         /\ ~starved => last' >= last
<1>1. /\ Len(wire) \in Nat /\ last \in Nat /\ taken \in Nat
      /\ \A i \in 1 .. Len(wire) : wire[i].rec \in Nat
  BY WireRecords
<1>2. /\ d = 1 \/ starved
      /\ starved' = starved
      /\ Len(wire') = Len(wire) - 1
      /\ \A k \in 1 .. Len(wire') : \E j \in 1 .. Len(wire) :
            j = (IF k < d THEN k ELSE k + 1) /\ wire'[k] = wire[j]
  BY DeliverEffect
<1>3. last' = IF wire[d].rec = 0 THEN last ELSE wire[d].rec
  BY DEF Delivered, NoRecord
<1>4. last' <= taken' /\ last' \in Nat
  BY <1>1, <1>3 DEF WireWasTaken, NoRecord
<1>5. \A k \in 1 .. Len(wire') : wire'[k].rec # 0 => wire'[k].rec <= taken'
  BY <1>1, <1>2 DEF WireWasTaken, NoRecord
<1>6. WireWasTaken'
  BY <1>4, <1>5 DEF WireWasTaken, NoRecord
<1>7. CASE starved
  BY <1>2, <1>6, <1>7 DEF WireInOrder
<1>8. CASE ~starved
  <2>1. /\ \A i \in 1 .. Len(wire) : wire[i].rec # 0 => last <= wire[i].rec
        /\ \A i, j \in 1 .. Len(wire) : i < j /\ wire[i].rec # 0 /\ wire[j].rec # 0
                               => wire[i].rec <= wire[j].rec
    BY <1>8 DEF WireInOrder, NoRecord
  <2>2. d = 1 /\ \A k \in 1 .. Len(wire') : wire'[k] = wire[k + 1] /\ k + 1 \in 1 .. Len(wire)
    BY <1>1, <1>2, <1>8
  <2>3. last' >= last
    BY <1>1, <1>3, <2>1
  <2>4. ASSUME NEW k \in 1 .. Len(wire'), wire'[k].rec # 0
        PROVE  last' <= wire'[k].rec
    <3>1. k + 1 \in 1 .. Len(wire) /\ wire'[k] = wire[k + 1] /\ 1 < k + 1
      BY <1>1, <1>2, <2>2
    <3> QED BY <1>3, <2>1, <2>2, <2>4, <3>1
  <2>5. ASSUME NEW i \in 1 .. Len(wire'), NEW j \in 1 .. Len(wire'),
               i < j, wire'[i].rec # 0, wire'[j].rec # 0
        PROVE  wire'[i].rec <= wire'[j].rec
    <3>1. /\ i + 1 \in 1 .. Len(wire) /\ wire'[i] = wire[i + 1]
          /\ j + 1 \in 1 .. Len(wire) /\ wire'[j] = wire[j + 1]
          /\ i + 1 < j + 1
      BY <1>1, <1>2, <2>2, <2>5
    <3> QED BY <2>1, <2>5, <3>1
  <2> QED BY <1>6, <2>3, <2>4, <2>5 DEF WireInOrder, NoRecord
<1> QED BY <1>7, <1>8

LEMMA StepOrder ==
  TypeOK /\ OutstandingIsNewest /\ WireWasTaken /\ WireInOrder /\ [Next]_vars
    => /\ WireWasTaken' /\ WireInOrder'
       /\ ~starved => last' >= last
<1> SUFFICES ASSUME TypeOK, OutstandingIsNewest, WireWasTaken, WireInOrder, [Next]_vars
             PROVE  /\ WireWasTaken' /\ WireInOrder'
                    /\ ~starved => last' >= last
  OBVIOUS
<1>0. last \in Nat /\ taken \in Nat /\ 0 \in 0 .. RECORDS
  BY PublisherAssumption DEF TypeOK, CountsOK, HistoryOK
<1>1. CASE UNCHANGED <<wire, last, taken>> /\ (starved' = starved \/ starved')
  BY <1>0, <1>1 DEF WireWasTaken, WireInOrder
<1>2. CASE SendOther \/ FuncSendInfo \/ GiveUp
  BY <1>0, <1>2, PublishTaken DEF SendOther, FuncSendInfo, GiveUp, server, NoRecord
<1>3. CASE SendDataOutput
  <2>1. CASE taken + 1 \in MISDATED
    <3>1. wire' = wire /\ starved' = starved /\ last' = last /\ taken' = taken + 1
      BY <1>3, <2>1 DEF SendDataOutput, TakeRecord, link, server
    <3> QED BY <1>0, <3>1, WireRecords DEF WireWasTaken, WireInOrder
  <2>2. CASE taken + 1 \notin MISDATED
    <3>1. last' = last
      BY <1>3 DEF SendDataOutput, TakeRecord, server
    <3> QED BY <1>0, <1>3, <2>2, <3>1, SendDataOutputSends, PublishTaken
  <2> QED BY <2>1, <2>2
<1>4. CASE Resend
  <2>1. last' = last
    BY <1>4 DEF Resend, server
  <2> QED BY <1>0, <1>4, <2>1, ResendSends, PublishTaken
<1>5. CASE OnMqttDisconnect
  <2>1. wire' = <<>> /\ last' = last /\ taken' = taken
    BY <1>5 DEF OnMqttDisconnect, Link!Disconnect, server
  <2> QED BY <1>0, <2>1, EmptySeq DEF WireWasTaken, WireInOrder
<1>6. CASE Deliver
  <2>1. PICK d \in 1 .. Len(wire) : Delivered(d)
    BY <1>6, DeliverPicks
  <2>2. taken' = taken
    BY <1>6 DEF Deliver
  <2> QED BY <2>1, <2>2, DeliverOrder
<1>7. CASE OnMqttPublish \/ OnMqttConnect \/ Starve
  BY <1>1, <1>7 DEF OnMqttPublish, Link!Acknowledge, OnMqttConnect, Link!Connect, Starve,
     Link!Starve, server
<1> QED
  BY <1>1, <1>2, <1>3, <1>4, <1>5, <1>6, <1>7 DEF Next, MqttCommunicateSvr, Produce, GetPlan,
     CheckGetDataFromServer, WaitForAck, link, server, vars

(* The server never sees an older count after a newer one, however often   *)
(* records are sent again and connections fall, unless acknowledgements of *)
(* the client had to wait in the connection.                               *)
THEOREM InOrder == Spec => ServerOrder
<1>1. Init => WireWasTaken /\ WireInOrder
  BY EmptySeq, PublisherAssumption DEF Init, Link!Init, WireWasTaken, WireInOrder
<1>2. [~starved => last' >= last]_vars => [~starved => last' >= last]_last
  BY DEF vars, server
<1> QED BY <1>1, <1>2, StepOrder, PublisherTypeCorrect, OneOutstanding, PTL
        DEF Spec, ServerOrder

-----------------------------------------------------------------------------
(* Packet ids.                                                             *)
LEMMA IdTypes ==
  ASSUME TypeOK
  PROVE  /\ nextPacketId \in Nat \ {0} /\ Len(wire) \in Nat /\ Len(acks) \in Nat
         /\ \A i \in 1 .. Len(wire) : wire[i].id \in Nat \ {0}
         /\ \A i \in 1 .. Len(acks) : acks[i] \in Nat \ {0}
<1>1. wire \in Seq(Message) /\ acks \in Seq(Nat \ {0}) /\ nextPacketId \in Nat \ {0}
  BY DEF TypeOK, ChannelsOK, CountsOK
<1>2. \A i \in 1 .. Len(wire) : wire[i] \in Message
  BY <1>1, ElementOfSeq
<1>3. \A i \in 1 .. Len(wire) : wire[i].id \in Nat \ {0}
  BY <1>2 DEF Message
<1>4. \A i \in 1 .. Len(acks) : acks[i] \in Nat \ {0}
  BY <1>1, ElementOfSeq
<1> QED BY <1>1, <1>3, <1>4, LenProperties

LEMMA PublishIds ==
  ASSUME TypeOK, IdsBelowNext, connected, NEW r \in 0 .. RECORDS, NEW ok \in BOOLEAN,
         Publish(r, ok)
  PROVE  IdsBelowNext'
<1>1. connected' = connected /\ acks' = acks
  BY PublishEffect
<1>2. ASSUME NEW i \in 1 .. Len(wire')
      PROVE  wire'[i].id < nextPacketId'
  <2> DEFINE n == Len(wire)
  <2>1. /\ n \in Nat /\ nextPacketId \in Nat
        /\ \A k \in 1 .. n : wire[k].id \in Nat /\ wire[k].id < nextPacketId
    BY IdTypes DEF IdsBelowNext
  <2>2. /\ \A k \in 1 .. n : wire'[k] = wire[k]
        /\ \/ /\ nextPacketId' = nextPacketId + 1 /\ Len(wire') = n + 1
              /\ wire'[n + 1].id = nextPacketId
           \/ nextPacketId' = nextPacketId /\ Len(wire') = n
    BY PublishEffect
  <2> HIDE DEF n
  <2>3. CASE i \in 1 .. n
    BY <2>1, <2>2, <2>3
  <2>4. CASE i \notin 1 .. n
    <3>1. i = n + 1 /\ nextPacketId' = nextPacketId + 1 /\ wire'[n + 1].id = nextPacketId
      BY <1>2, <2>1, <2>2, <2>4
    <3> QED BY <2>1, <3>1
  <2> QED BY <2>3, <2>4
<1>3. \A i \in 1 .. Len(acks') : acks'[i] < nextPacketId'
  BY <1>1, IdTypes, PublishEffect DEF IdsBelowNext
<1> QED BY <1>1, <1>2, <1>3 DEF IdsBelowNext

(* The records taken from the ring in a step: none, but for SendDataOutput.*)
LEMMA SenderConnected ==
  ASSUME SendOther \/ MqttCommunicateSvr
  PROVE  connected
BY DEF SendOther, MqttCommunicateSvr, FuncSendInfo, SendDataOutput, WaitForAck, Resend, GiveUp,
       Timeout, FuncSendData

LEMMA StepIds == TypeOK /\ OutstandingIsNewest /\ IdsBelowNext /\ [Next]_vars => IdsBelowNext'
<1> SUFFICES ASSUME TypeOK, OutstandingIsNewest, IdsBelowNext, [Next]_vars PROVE IdsBelowNext'
  OBVIOUS
<1>0. 0 \in 0 .. RECORDS
  BY PublisherAssumption
<1>1. CASE UNCHANGED link
  BY <1>1 DEF link, IdsBelowNext
<1>2. CASE SendOther \/ FuncSendInfo \/ GiveUp
  <2>1. connected
    BY <1>2, SenderConnected DEF MqttCommunicateSvr
  <2> QED BY <1>0, <1>2, <2>1, PublishIds DEF SendOther, FuncSendInfo, GiveUp, NoRecord
<1>3. CASE SendDataOutput
  <2>1. connected
    BY <1>3, SenderConnected DEF MqttCommunicateSvr
  <2>2. CASE taken + 1 \in MISDATED
    BY <1>1, <1>3, <2>2 DEF SendDataOutput, TakeRecord
  <2>3. CASE taken + 1 \notin MISDATED
    BY <1>3, <2>1, <2>3, SendDataOutputSends, PublishIds
  <2> QED BY <2>2, <2>3
<1>4. CASE Resend
  <2>1. connected
    BY <1>4, SenderConnected DEF MqttCommunicateSvr
  <2> QED BY <1>4, <2>1, ResendSends, PublishIds
<1>5. CASE OnMqttPublish
  <2>1. /\ connected' = connected /\ nextPacketId' = nextPacketId /\ wire' = wire
        /\ acks # <<>> /\ acks' = Tail(acks) /\ acks \in Seq(Nat \ {0})
    BY <1>5 DEF OnMqttPublish, Link!Acknowledge, TypeOK, ChannelsOK
  <2>2. \A i \in 1 .. Len(acks') : acks'[i] = acks[i + 1] /\ i + 1 \in 1 .. Len(acks)
    BY <2>1, TailSeq
  <2> QED BY <2>1, <2>2 DEF IdsBelowNext
<1>6. CASE OnMqttConnect
  <2>1. wire' = <<>> /\ acks' = <<>> /\ connected'
    BY <1>6 DEF OnMqttConnect, Link!Connect, IdsBelowNext
  <2> QED BY <2>1, EmptySeq DEF IdsBelowNext
<1>7. CASE OnMqttDisconnect
  <2>1. wire' = <<>> /\ acks' = <<>>
    BY <1>7 DEF OnMqttDisconnect, Link!Disconnect
  <2> QED BY <2>1, EmptySeq DEF IdsBelowNext
<1>8. CASE Deliver
  <2>1. PICK d \in 1 .. Len(wire) : Delivered(d)
    BY <1>8, DeliverPicks
  <2>2. /\ connected' = connected /\ nextPacketId' = nextPacketId /\ connected
        /\ \A i \in 1 .. Len(wire') : \E j \in 1 .. Len(wire) : wire'[i] = wire[j]
    BY <2>1, DeliverEffect, EmptySeq DEF IdsBelowNext
  <2>3. \A i \in 1 .. Len(wire') : wire'[i].id < nextPacketId
    BY <2>2 DEF IdsBelowNext
  <2>4. wire[d].id < nextPacketId
    BY <2>1 DEF IdsBelowNext
  <2>5. \A i \in 1 .. Len(acks') : acks'[i] < nextPacketId
    BY <2>1, <2>4, DeliverEffect DEF IdsBelowNext
  <2> QED BY <2>2, <2>3, <2>5 DEF IdsBelowNext
<1>9. CASE Starve
  BY <1>9 DEF Starve, Link!Starve, IdsBelowNext
<1> QED
  BY <1>1, <1>2, <1>3, <1>4, <1>5, <1>6, <1>7, <1>8, <1>9 DEF Next, MqttCommunicateSvr, Produce,
     GetPlan, CheckGetDataFromServer, WaitForAck, vars

-----------------------------------------------------------------------------
LEMMA PublishKeepsId ==
  ASSUME TypeOK, IdIsTheRecords, NEW ok \in BOOLEAN, Publish(0, ok),
         list_pub' = list_pub, crossed' = crossed, seen' = seen
  PROVE  IdIsTheRecords'
<1> SUFFICES ASSUME list_pub # <<>>, list_pub[1].rec \notin crossed
             PROVE  IdIsTheRecords'
  BY DEF IdIsTheRecords
<1>1. list_pub[1].id \in Nat /\ 0 \in 0 .. RECORDS
  <2>1. list_pub \in Seq(Entry)
    BY DEF TypeOK, ChannelsOK
  <2>2. list_pub[1] \in Entry
    BY <2>1, TailSeq
  <2> QED BY <2>2, PublisherAssumption DEF Entry
<1>2. /\ list_pub[1].id < nextPacketId
      /\ \A i \in 1 .. Len(wire) : wire[i].id = list_pub[1].id => wire[i].rec = list_pub[1].rec
      /\ \A i \in 1 .. Len(acks) : acks[i] = list_pub[1].id => list_pub[1].rec \in seen
  BY DEF IdIsTheRecords
<1>3. list_pub[1].id < nextPacketId' /\ acks' = acks
  BY <1>1, <1>2, IdTypes, PublishEffect, SMTT(30)
<1>4. \A i \in 1 .. Len(wire') : wire'[i].id = list_pub[1].id => wire'[i].rec = list_pub[1].rec
  BY <1>1, <1>2, IdTypes, PublishEffect, SMTT(30)
<1> QED BY <1>2, <1>3, <1>4 DEF IdIsTheRecords

LEMMA PublishGivesId ==
  ASSUME TypeOK, IdsBelowNext, NEW ok \in BOOLEAN, taken' \in 1 .. RECORDS,
         taken' \in 0 .. RECORDS, Publish(taken', ok), Sent(ok)
  PROVE  IdIsTheRecords'
<1>1. list_pub'[1].rec = taken' /\ list_pub'[1].id = PubId(ok) /\ acks' = acks
  BY PublishTypes, SentEntry
<1>2. PubId(ok) < nextPacketId' /\ PubId(ok) \in {0, nextPacketId}
  BY IdTypes, PublishEffect
<1>3. \A i \in 1 .. Len(wire') : wire'[i].id = PubId(ok) => wire'[i].rec = taken'
  BY IdTypes, PublishEffect DEF IdsBelowNext
<1>4. \A i \in 1 .. Len(acks') : acks'[i] # PubId(ok)
  BY <1>1, <1>2, IdTypes DEF IdsBelowNext
<1> QED BY <1>1, <1>2, <1>3, <1>4 DEF IdIsTheRecords

LEMMA StepIdIsTheRecords ==
  TypeOK /\ OutstandingIsNewest /\ IdsBelowNext /\ IdIsTheRecords /\ [Next]_vars
    => IdIsTheRecords'
<1> SUFFICES ASSUME TypeOK, OutstandingIsNewest, IdsBelowNext, IdIsTheRecords,
                    [Next]_vars
             PROVE  IdIsTheRecords'
  OBVIOUS
<1>1. CASE UNCHANGED <<list_pub, nextPacketId, wire, acks, server, crossed>>
  BY <1>1 DEF server, IdIsTheRecords
<1>2. CASE SendOther \/ FuncSendInfo
  BY <1>2, PublishKeepsId DEF SendOther, FuncSendInfo, server, NoRecord
<1>3. CASE SendDataOutput
  <2>1. CASE taken + 1 \in MISDATED
    BY <1>1, <1>3, <2>1 DEF SendDataOutput, TakeRecord, link
  <2>2. CASE taken + 1 \notin MISDATED
    BY <1>3, <2>2, SendDataOutputSends, PublishGivesId
  <2> QED BY <2>1, <2>2
<1>4. CASE Resend
  BY <1>4, ResendSends, PublishGivesId
<1>5. CASE GiveUp
  <2>1. list_pub' = <<>>
    BY <1>5, OnlyOne DEF GiveUp, Timeout
  <2> QED BY <2>1 DEF IdIsTheRecords
<1>6. CASE OnMqttPublish
  <2>1. CASE list_pub' = <<>>
    BY <2>1 DEF IdIsTheRecords
  <2>2. CASE list_pub' = list_pub
    <3>1. /\ nextPacketId' = nextPacketId /\ wire' = wire /\ crossed' = crossed /\ seen' = seen
          /\ acks # <<>> /\ acks' = Tail(acks) /\ acks \in Seq(Nat \ {0})
      BY <1>6 DEF OnMqttPublish, Link!Acknowledge, server, TypeOK, ChannelsOK
    <3>2. \A i \in 1 .. Len(acks') : acks'[i] = acks[i + 1] /\ i + 1 \in 1 .. Len(acks)
      BY <3>1, TailSeq
    <3> QED BY <2>2, <3>1, <3>2 DEF IdIsTheRecords
  <2> QED BY <1>6, <2>1, <2>2, OnlyOne DEF OnMqttPublish, Link!Acknowledge
<1>7. CASE OnMqttConnect
  <2>1. wire' = <<>> /\ acks' = <<>> /\ nextPacketId' \in Nat /\ nextPacketId' >= nextPacketId
    BY <1>7, IdTypes, PublisherAssumption DEF OnMqttConnect, Link!Connect, IdsBelowNext
  <2>2. list_pub' = list_pub /\ crossed' = crossed
    BY <1>7 DEF OnMqttConnect
  <2>3. CASE list_pub # <<>> /\ list_pub[1].rec \notin crossed
    <3>1. list_pub[1].id \in Nat /\ list_pub[1].id < nextPacketId
      BY <2>3, OnlyOne DEF IdIsTheRecords
    <3> QED BY <2>1, <2>2, <3>1, IdTypes, EmptySeq DEF IdIsTheRecords
  <2> QED BY <2>2, <2>3 DEF IdIsTheRecords
<1>8. CASE OnMqttDisconnect
  <2>1. list_pub' = list_pub
        /\ crossed' = crossed \cup {list_pub[i].rec : i \in DOMAIN list_pub}
    BY <1>8 DEF OnMqttDisconnect
  <2>2. CASE list_pub # <<>>
    <3>1. 1 \in DOMAIN list_pub
      BY <2>2, OnlyOne, LenProperties DEF TypeOK, ChannelsOK
    <3> QED BY <2>1, <3>1 DEF IdIsTheRecords
  <2> QED BY <2>1, <2>2 DEF IdIsTheRecords
<1>9. CASE Deliver
  <2>0. PICK d \in 1 .. Len(wire) : Delivered(d)
    BY <1>9, DeliverPicks
  <2>1. list_pub' = list_pub /\ crossed' = crossed /\ nextPacketId' = nextPacketId
    BY <1>9, <2>0, DeliverEffect DEF Deliver
  <2>2. CASE list_pub # <<>> /\ list_pub[1].rec \notin crossed
    <3>1. /\ list_pub[1].id < nextPacketId
          /\ \A i \in 1 .. Len(wire) :
                wire[i].id = list_pub[1].id => wire[i].rec = list_pub[1].rec
          /\ \A i \in 1 .. Len(acks) : acks[i] = list_pub[1].id => list_pub[1].rec \in seen
      BY <2>2 DEF IdIsTheRecords
    <3>2. \A i \in 1 .. Len(wire') : \E j \in 1 .. Len(wire) : wire'[i] = wire[j]
      BY <2>0, DeliverEffect
    <3>3. \A i \in 1 .. Len(wire') :
            wire'[i].id = list_pub[1].id => wire'[i].rec = list_pub[1].rec
      BY <3>1, <3>2
    <3>4. list_pub[1].rec # 0
      BY <2>2, OnlyOne
    <3>5. /\ seen \subseteq seen'
          /\ wire[d].id = list_pub[1].id => list_pub[1].rec \in seen'
      BY <2>0, <3>1, <3>4 DEF Delivered, NoRecord
    <3>6. \A i \in 1 .. Len(acks') : acks'[i] = list_pub[1].id => list_pub[1].rec \in seen'
      BY <2>0, <3>1, <3>5, DeliverEffect
    <3> QED BY <2>1, <3>1, <3>3, <3>6 DEF IdIsTheRecords
  <2> QED BY <2>1, <2>2 DEF IdIsTheRecords
<1>10. CASE Starve
  BY <1>1, <1>10 DEF Starve, Link!Starve
<1> QED
  BY <1>1, <1>2, <1>3, <1>4, <1>5, <1>6, <1>7, <1>8, <1>9, <1>10 DEF Next, MqttCommunicateSvr,
     Produce, GetPlan, CheckGetDataFromServer, WaitForAck, vars, link

-----------------------------------------------------------------------------
(* The record a step drops from list_pub has arrived, or is reported.      *)
LEMMA StepAccounted ==
  TypeOK /\ OutstandingIsNewest /\ IdIsTheRecords /\ Accounted /\ [Next]_vars => Accounted'
<1> SUFFICES ASSUME TypeOK, OutstandingIsNewest, IdIsTheRecords, Accounted, [Next]_vars,
                    NEW r \in 1 .. taken'
             PROVE  \/ r \in (seen \cup given_up \cup MISDATED \cup crossed)'
                    \/ \E i \in DOMAIN list_pub' : list_pub'[i].rec = r
  BY DEF Accounted
<1> DEFINE Settled == seen \cup given_up \cup MISDATED \cup crossed
<1>0. /\ taken \in Nat
      /\ r \in 1 .. taken => r \in Settled \/ (list_pub # <<>> /\ list_pub[1].rec = r)
  <2>1. taken \in Nat
    BY PublisherAssumption DEF TypeOK, CountsOK
  <2>2. list_pub # <<>> => DOMAIN list_pub = {1}
    BY OnlyOne, LenProperties DEF TypeOK, ChannelsOK
  <2>3. list_pub = <<>> => DOMAIN list_pub = {}
    BY EmptySeq
  <2>4. r \in 1 .. taken => r \in Settled \/ \E i \in DOMAIN list_pub : list_pub[i].rec = r
    BY DEF Accounted
  <2> HIDE DEF Settled
  <2> QED BY <2>1, <2>2, <2>3, <2>4
<1>1. CASE UNCHANGED <<taken, list_pub, server, given_up, crossed>>
  BY <1>1 DEF server, Accounted
<1>2. CASE OnMqttConnect
  BY <1>2 DEF OnMqttConnect, server, Accounted
<1>3. CASE SendDataOutput
  <2>1. /\ taken' = taken + 1 /\ seen' = seen /\ given_up' = given_up /\ crossed' = crossed
        /\ list_pub = <<>>
    BY <1>3 DEF SendDataOutput, TakeRecord, server
  <2>2. CASE r \in 1 .. taken
    BY <1>0, <2>1, <2>2
  <2>3. CASE r \notin 1 .. taken /\ taken + 1 \notin MISDATED
    <3>1. r = taken + 1
      BY <1>0, <2>1, <2>3
    <3>2. list_pub'[1].rec = r /\ 1 \in DOMAIN list_pub'
      BY <1>3, <2>1, <2>3, <3>1, SendDataOutputSends, SentEntry, PublishTypes
    <3> QED BY <3>2
  <2>4. CASE r \notin 1 .. taken /\ taken + 1 \in MISDATED
    BY <1>0, <2>1, <2>4
  <2> QED BY <2>2, <2>3, <2>4
<1>4. CASE Resend
  <2>1. /\ taken' = taken /\ seen' = seen /\ given_up' = given_up /\ crossed' = crossed
    BY <1>4 DEF Resend, server
  <2>2. list_pub[1].rec = taken /\ list_pub # <<>>
    BY <1>4, OnlyOne DEF Resend, Timeout
  <2>3. list_pub'[1].rec = taken /\ 1 \in DOMAIN list_pub'
    BY <1>4, <2>1, ResendSends, SentEntry, PublishTypes
  <2> QED BY <1>0, <2>1, <2>2, <2>3
<1>5. CASE GiveUp
  <2>1. /\ taken' = taken /\ seen' = seen /\ crossed' = crossed
        /\ given_up' = given_up \cup {list_pub[1].rec}
    BY <1>5, OnlyOne DEF GiveUp, Timeout, server
  <2> QED BY <1>0, <2>1
<1>6. CASE OnMqttPublish
  <2>1. /\ taken' = taken /\ seen' = seen /\ crossed' = crossed /\ given_up' = given_up
        /\ acks # <<>> /\ acks \in Seq(Nat \ {0})
    BY <1>6 DEF OnMqttPublish, Link!Acknowledge, server, TypeOK, ChannelsOK
  <2>2. CASE list_pub' = list_pub
    BY <2>1, <2>2 DEF Accounted
  <2>3. CASE list_pub # <<>> /\ list_pub[1].id = acks[1]
    <3>1. 1 \in 1 .. Len(acks)
      BY <2>1, TailSeq
    <3>2. list_pub[1].rec \in seen \cup crossed
      BY <2>3, <3>1 DEF IdIsTheRecords
    <3> QED BY <1>0, <2>1, <3>2
  <2> QED BY <1>6, <2>1, <2>2, <2>3, OnlyOne, TailSeq DEF OnMqttPublish, Link!Acknowledge
<1>7. CASE OnMqttDisconnect
  <2>1. /\ taken' = taken /\ seen' = seen /\ given_up' = given_up /\ list_pub' = list_pub
        /\ crossed \subseteq crossed'
    BY <1>7 DEF OnMqttDisconnect, server
  <2> QED BY <2>1 DEF Accounted
<1>8. CASE Deliver
  <2>1. /\ taken' = taken /\ given_up' = given_up /\ list_pub' = list_pub /\ crossed' = crossed
    BY <1>8 DEF Deliver
  <2>2. seen \subseteq seen'
    BY <1>8, DeliverPicks DEF Delivered
  <2> QED BY <2>1, <2>2 DEF Accounted
<1> QED
  BY <1>1, <1>2, <1>3, <1>4, <1>5, <1>6, <1>7, <1>8 DEF Next, MqttCommunicateSvr, Produce,
     GetPlan, CheckGetDataFromServer, SendOther, FuncSendInfo, WaitForAck, Starve, vars

(* No record vanishes silently within a connection: the front entry's      *)
(* acknowledgement, as long as no connection fell since it was published,  *)
(* is the record's own.                                                    *)
THEOREM AllAccounted == Spec => []Accounted
<1>1. Init => IdsBelowNext /\ IdIsTheRecords /\ Accounted
  BY EmptySeq DEF Init, Link!Init, IdsBelowNext, IdIsTheRecords, Accounted
<1> QED BY <1>1, StepIds, StepIdIsTheRecords, StepAccounted,
           PublisherTypeCorrect, OneOutstanding, PTL DEF Spec
=============================================================================
