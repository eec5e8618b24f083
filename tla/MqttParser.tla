----------------------------- MODULE MqttParser -----------------------------
(***************************************************************************)
(* How the bytes of a connection become messages: AsyncMqttClient::_onData *)
(* and the packets it fills take the segments as TCP cuts them, pass on    *)
(* the payload of a PUBLISH in chunks, and mqttMessage puts these together *)
(* again.  One step is one round of _onData's loop; a connection may fall  *)
(* between two segments, wherever in a packet that is.                     *)
(*                                                                         *)
(* The broker is external: it sends whole packets, CONNACK first, and      *)
(* messages with QoS 0, as the firmware subscribes.                        *)
(***************************************************************************)
EXTENDS Integers, Sequences

CONSTANTS
  BASE,       (* values of a byte of the remaining length (128)            *)
  MAX_TOPIC,  (* maxTopicLength                                            *)
  STREAMS,    (* what the broker may send over a connection                *)
  MAX_FALLS   (* bound on the connections that fall                        *)

Packet == [type : {"CONNACK", "SUBACK", "PINGRESP"}]
            \cup [type : {"PUBLISH"}, topic : Nat \ {0}, payload : Nat]

ASSUME MqttParserAssumption ==
  /\ BASE \in Nat /\ BASE > 1 /\ MAX_TOPIC \in Nat /\ MAX_FALLS \in Nat
  /\ \A s \in STREAMS : s \in Seq(Packet) /\ s # <<>> /\ Head(s).type = "CONNACK"

VARIABLES
  stream,                 (* history: the packets of this connection       *)
  sent,                   (* their bytes                                   *)
  arrived,                (* how many of them _onData has been given       *)
  position,               (* how many of them the parser has looked at     *)
  bufferState, packetType, remainingLength,
  remainingLengthBuffer,
  packet,                 (* _currentParsedPacket                          *)
  sMsg,                   (* of mqttMessage; usLenMsg is its length        *)
  handled,                (* history: the messages of this connection      *)
  torn,                   (* history: one fell in the middle of a message  *)
  falls                   (* counter for MAX_FALLS                         *)

wired  == <<stream, sent, arrived, torn, falls>>
parser == <<bufferState, packetType, remainingLength, remainingLengthBuffer, packet>>
pvars  == <<wired, position, parser, sMsg, handled>>

-----------------------------------------------------------------------------
(* The bytes of the k-th packet.                                           *)

Byte(type, value, more) == [type |-> type, value |-> value, more |-> more]

Plain(n) == [i \in 1 .. n |-> Byte("none", 0, FALSE)]

Header(p) ==
  CASE p.type = "PUBLISH"  -> Plain(1) \o <<Byte("none", p.topic, FALSE)>> \o Plain(p.topic)
    [] p.type = "PINGRESP" -> <<>>
    [] OTHER               -> Plain(2)

Whole(p, k) == [i \in 1 .. p.payload |-> <<k, i>>]

Body(p, k) ==
  CASE p.type = "PUBLISH" -> [i \in 1 .. p.payload |-> Byte("none", Whole(p, k)[i], FALSE)]
    [] p.type = "SUBACK"  -> Plain(1)
    [] OTHER              -> <<>>

(* The remaining length, a digit a byte, the last one first.               *)
Quotients(n) ==
  LET q[i \in Nat] == IF i = 0 THEN n ELSE q[i - 1] \div BASE
  IN  q

Digits(n) ==
  CHOOSE d \in 1 .. n + 1 : Quotients(n)[d] = 0 /\ \A i \in 1 .. d - 1 : Quotients(n)[i] > 0

Length(n) ==
  [i \in 1 .. Digits(n) |-> Byte("none", Quotients(n)[i - 1] % BASE, i < Digits(n))]

Bytes(p, k) ==
  <<Byte(p.type, 0, FALSE)>> \o Length(Len(Header(p)) + Len(Body(p, k))) \o Header(p) \o Body(p, k)

(* Sent(s)[k] are the bytes of the first k packets.                        *)
Sent(s) ==
  LET f[k \in 0 .. Len(s)] == IF k = 0 THEN <<>> ELSE f[k - 1] \o Bytes(s[k], k)
  IN  f

-----------------------------------------------------------------------------
NewPacket == [bytePosition |-> 0, topicLength |-> 0, payloadLength |-> 0, bytesRead |-> 0,
              ignore |-> FALSE]

ParserInit ==
  /\ stream = <<>> /\ sent = <<>> /\ arrived = 0 /\ position = 0
  /\ bufferState = "NONE" /\ packetType = "none" /\ remainingLength = 0
  /\ remainingLengthBuffer = <<>> /\ packet = NewPacket
  /\ sMsg = <<>> /\ handled = <<>> /\ torn = FALSE /\ falls = 0

ConnectionMade ==
  /\ stream = <<>>
  /\ \E s \in STREAMS : stream' = s /\ sent' = Sent(s)[Len(s)]
  /\ handled' = <<>>
  /\ UNCHANGED <<arrived, position, parser, sMsg, torn, falls>>

(* A defect that Synchronised must catch: the parser goes on where it was. *)
ClearParserNot == UNCHANGED parser

(* _clear: the packet and the state, not _remainingLengthBufferPosition.   *)
ClearParser ==
  /\ bufferState' = "NONE"
  /\ packet' = NewPacket
  /\ UNCHANGED <<packetType, remainingLength, remainingLengthBuffer>>

ConnectionFalls ==
  /\ stream # <<>> /\ position = arrived
  /\ falls < MAX_FALLS
  /\ falls' = falls + 1
  /\ ClearParser
  /\ stream' = <<>> /\ sent' = <<>> /\ arrived' = 0 /\ position' = 0
  /\ torn' = (torn \/ sMsg # <<>>)
  /\ UNCHANGED <<sMsg, handled>>

SegmentArrives ==
  /\ position = arrived
  /\ arrived' \in arrived + 1 .. Len(sent)
  /\ UNCHANGED <<stream, sent, torn, falls, position, parser, sMsg, handled>>

-----------------------------------------------------------------------------
(* One round of _onData, in each bufferState.                              *)

In(state) == bufferState = state /\ position < arrived

Current == sent[position + 1]

NoMessage == UNCHANGED <<sMsg, handled>>

TypeByte ==
  /\ In("NONE")
  /\ packetType' = Current.type
  /\ packet' = NewPacket
  /\ bufferState' = "REMAINING_LENGTH"
  /\ position' = position + 1
  /\ NoMessage /\ UNCHANGED <<wired, remainingLength, remainingLengthBuffer>>

(* f[n] is the value of the last n bytes.                                  *)
DecodeRemainingLength(bytes) ==
  LET f[n \in 0 .. Len(bytes)] ==
        IF n = 0 THEN 0 ELSE bytes[Len(bytes) + 1 - n].value + (BASE * f[n - 1])
  IN  f[Len(bytes)]

LengthByte ==
  /\ In("REMAINING_LENGTH")
  /\ LET bytes == Append(remainingLengthBuffer, Current)
     IN  IF Current.more
         THEN remainingLengthBuffer' = bytes /\ UNCHANGED <<remainingLength, bufferState>>
         ELSE /\ remainingLength' = DecodeRemainingLength(bytes)
              /\ remainingLengthBuffer' = <<>>
              /\ bufferState' = IF remainingLength' > 0 THEN "VARIABLE_HEADER" ELSE "NONE"
  /\ position' = position + 1
  /\ NoMessage /\ UNCHANGED <<wired, packetType, packet>>

(* CONNACK and SUBACK: two bytes; a SUBACK has a payload of one.           *)
AckHeader ==
  /\ In("VARIABLE_HEADER") /\ packetType # "PUBLISH"
  /\ packet' = [packet EXCEPT !.bytePosition = @ + 1]
  /\ bufferState' = IF packet.bytePosition = 0 THEN "VARIABLE_HEADER"
                    ELSE IF packetType = "SUBACK" THEN "PAYLOAD" ELSE "NONE"
  /\ position' = position + 1
  /\ NoMessage /\ UNCHANGED <<wired, packetType, remainingLength, remainingLengthBuffer>>

AckPayload ==
  /\ In("PAYLOAD") /\ packetType # "PUBLISH"
  /\ bufferState' = "NONE"
  /\ position' = position + 1
  /\ NoMessage /\ UNCHANGED <<wired, packetType, remainingLength, remainingLengthBuffer, packet>>

(* mqttMessage: chunks are collected until they are as long as the message.*)
MqttMessage(chunk, total) ==
  LET all == sMsg \o chunk
  IN  IF packet.ignore THEN NoMessage
      ELSE IF Len(all) >= total THEN handled' = Append(handled, all) /\ sMsg' = <<>>
      ELSE sMsg' = all /\ UNCHANGED handled

(* PublishPacket: two bytes of length, and the topic.                      *)
PublishHeader ==
  /\ In("VARIABLE_HEADER") /\ packetType = "PUBLISH"
  /\ LET pos == packet.bytePosition
         last == pos >= 2 /\ pos = packet.topicLength + 1
         length == IF last THEN remainingLength - (pos + 1) ELSE 0
     IN  /\ packet' = [packet EXCEPT
                         !.bytePosition = pos + 1,
                         !.topicLength = IF pos = 1 THEN Current.value ELSE @,
                         !.ignore = IF pos = 1 THEN Current.value > MAX_TOPIC ELSE @,
                         !.payloadLength = length]
         /\ bufferState' = IF ~last THEN "VARIABLE_HEADER"
                           ELSE IF length = 0 THEN "NONE" ELSE "PAYLOAD"
         /\ IF last /\ length = 0 THEN MqttMessage(<<>>, 0) ELSE NoMessage
  /\ position' = position + 1
  /\ UNCHANGED <<wired, packetType, remainingLength, remainingLengthBuffer>>

(* A defect that HandledAsSent must catch: all that is left of the segment.*)
ToReadAll == arrived - position

ToRead ==
  IF packet.bytesRead + (arrived - position) > packet.payloadLength
  THEN packet.payloadLength - packet.bytesRead
  ELSE arrived - position

PublishPayload ==
  /\ In("PAYLOAD") /\ packetType = "PUBLISH"
  /\ LET read == packet.bytesRead + ToRead
     IN  /\ packet' = [packet EXCEPT !.bytesRead = read]
         /\ bufferState' = IF read = packet.payloadLength THEN "NONE" ELSE "PAYLOAD"
  /\ MqttMessage([i \in 1 .. ToRead |-> sent[position + i].value], packet.payloadLength)
  /\ position' = position + ToRead
  /\ UNCHANGED <<wired, packetType, remainingLength, remainingLengthBuffer>>

ParserNext ==
  \/ ConnectionMade \/ ConnectionFalls \/ SegmentArrives
  \/ TypeByte \/ LengthByte \/ AckHeader \/ AckPayload \/ PublishHeader \/ PublishPayload

ParserSpec == ParserInit /\ [][ParserNext]_pvars

-----------------------------------------------------------------------------
End(k) == Len(Sent(stream)[k])

(* However the bytes are cut, and wherever an earlier connection fell, the *)
(* parser is between two packets exactly when the bytes are: the bytes of  *)
(* a remaining length that a fallen connection left behind only spoil that *)
(* of the CONNACK, which nobody reads.                                     *)
Synchronised == bufferState = "NONE" <=> \E k \in 0 .. Len(stream) : position = End(k)

(* What is due after the first k packets: the messages whose topic fits.   *)
Due(s) ==
  LET f[k \in 0 .. Len(s)] ==
        IF k = 0 THEN <<>>
        ELSE IF s[k].type = "PUBLISH" /\ s[k].topic <= MAX_TOPIC
             THEN Append(f[k - 1], Whole(s[k], k))
             ELSE f[k - 1]
  IN  f

(* Every message whose topic fits is handled once, in order, with all of   *)
(* its payload and nothing else, as soon as its last byte has arrived,     *)
(* until a connection falls in the middle of a message: its beginning      *)
(* stays in sMsg.                                                          *)
HandledAsSent ==
  stream # <<>> /\ ~torn =>
    \A k \in 0 .. Len(stream) :
      /\ End(k) <= position
      /\ k < Len(stream) => position < End(k + 1)
      => handled = Due(stream)[k]

=============================================================================
