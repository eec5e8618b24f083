-------------------------- MODULE MqttSessionProofs --------------------------
(***************************************************************************)
(* Proofs about MqttSession, for every number of faults and of plans, all  *)
(* lengths of the messages and all numbers of ticks: its types and the     *)
(* bounds on what piles up, that the display's error is never a leftover,  *)
(* and that counts are only sent after an ON.                              *)
(***************************************************************************)
EXTENDS MqttSession, SequenceTheorems, TLAPS

Up   == {"CONNECT", "SUBSCRIBE", "ON"}
Down == ({"date", "plan"} \X Nat) \cup {CONNACK}

NetworkFlags ==
  /\ wifi \in BOOLEAN /\ lookup \in BOOLEAN /\ _pcb \in BOOLEAN
  /\ connected \in BOOLEAN /\ _disconnectFlagged \in BOOLEAN
  /\ bDisconnected \in BOOLEAN
  /\ ucErr \in {"NO_ERR", "ERR_AP", "ERR_MQTT"}
  /\ peer \in {"alive", "refused", "gone"}

DeviceFlags ==
  /\ bMqttSubscribe \in BOOLEAN /\ tried \in BOOLEAN /\ unannounced \in BOOLEAN
  /\ mqttStep \in {"SEND_SYSCTRL", "SEND_DATA"}

DataFlags ==
  /\ bGetDatetime \in BOOLEAN /\ bGetPlan \in BOOLEAN /\ ucFlagESPRestart \in BOOLEAN
  /\ subscribed \in BOOLEAN
  /\ status \in {"ON", "OFF"}

FlagsOK == NetworkFlags /\ DeviceFlags /\ DataFlags

(* Attempts to connect pile up, and push out connections, only by faults.  *)
LookUps == IF lookup THEN 1 ELSE 0

DialledByFaults ==
  /\ attempts \in Nat /\ stale \in Nat /\ faults \in 0 .. MAX_FAULTS
  /\ stale <= faults
  /\ stale + attempts + LookUps <= faults + 1
  /\ _pcb => stale + attempts <= faults

TicksCounted ==
  /\ sent \in 0 .. MAX_SENT
  /\ u8_cnt_restart_mqtt_reason \in 0 .. RESTART
  /\ ~ucFlagESPRestart => u8_cnt_restart_mqtt_reason < RESTART

(* Nothing is under way without a connection in use.                       *)
ChannelsOK ==
  /\ up \in Seq(Up) /\ down \in Seq(Down)
  /\ ~_pcb => up = <<>> /\ down = <<>> /\ ~connected /\ ~subscribed

PiecesOK ==
  /\ sMsg \in Seq({"date", "plan"} \X Nat)
  /\ \E m \in {"date", "plan"} : Len(sMsg) < Parts[m]

(* A connection that was lost makes the device say ON again.               *)
SaysOnAgain ==
  /\ connected => ~bDisconnected
  /\ ~connected /\ mqttStep = "SEND_DATA" => bDisconnected

(* With no older connection about, CONNECT is the first of its connection  *)
(* and CONNACK the answer to it.                                           *)
OneConnect ==
  stale = 0 =>
    /\ \A i \in 1 .. Len(up) :
         up[i] = "CONNECT" => i = 1 /\ down = <<>> /\ ~connected /\ ~subscribed
    /\ \A i \in 1 .. Len(down) : down[i] = CONNACK => i = 1 /\ ~connected

SessionInv ==
  /\ FlagsOK /\ DialledByFaults /\ TicksCounted /\ ChannelsOK /\ PiecesOK
  /\ SaysOnAgain /\ OneConnect /\ Announced /\ ErrorMeansOffline

-----------------------------------------------------------------------------
LEMMA TypesOfSession == SessionInv => TypeOK
<1>. SUFFICES ASSUME SessionInv PROVE TypeOK
  OBVIOUS
<1>1. {wifi, lookup, _pcb, connected, _disconnectFlagged, bDisconnected, bMqttSubscribe,
       bGetDatetime, bGetPlan, ucFlagESPRestart, subscribed, unannounced, tried}
        \subseteq BOOLEAN
  BY DEF SessionInv, FlagsOK, NetworkFlags, DeviceFlags, DataFlags
<1>2. attempts \in 0 .. MAX_FAULTS + 1 /\ stale \in 0 .. MAX_FAULTS
  BY SessionAssumption DEF SessionInv, FlagsOK, NetworkFlags, DialledByFaults, LookUps
<1>3. down \in Seq({"date", "plan", "connack"} \X Nat)
  <2>1. Down \subseteq {"date", "plan", "connack"} \X Nat
    BY DEF Down, CONNACK
  <2>. QED
    BY <2>1, SeqMonotonic DEF SessionInv, ChannelsOK
<1>4. /\ faults \in 0 .. MAX_FAULTS /\ sent \in 0 .. MAX_SENT
      /\ u8_cnt_restart_mqtt_reason \in 0 .. RESTART
  BY DEF SessionInv, DialledByFaults, TicksCounted
<1>5. connected => _pcb
  BY DEF SessionInv, FlagsOK, NetworkFlags, ChannelsOK
<1>. QED
  BY <1>1, <1>2, <1>3, <1>4, <1>5
  DEF SessionInv, FlagsOK, NetworkFlags, DeviceFlags, DataFlags, ChannelsOK, PiecesOK, TypeOK,
      Up

LEMMA SessionFirst == Init => SessionInv
<1>. SUFFICES ASSUME Init PROVE SessionInv
  OBVIOUS
<1>1. FlagsOK
  BY DEF Init, FlagsOK, NetworkFlags, DeviceFlags, DataFlags
<1>2. DialledByFaults /\ TicksCounted
  BY SessionAssumption DEF Init, DialledByFaults, TicksCounted, LookUps
<1>3. ChannelsOK
  BY DEF Init, ChannelsOK
<1>4. PiecesOK
  BY SessionAssumption DEF Init, PiecesOK
<1>5. SaysOnAgain /\ OneConnect /\ Announced /\ ErrorMeansOffline
  BY DEF Init, SaysOnAgain, OneConnect, Announced, ErrorMeansOffline, Online
<1>. QED
  BY <1>1, <1>2, <1>3, <1>4, <1>5 DEF SessionInv

(* One lemma for each part of the invariant, action by action.             *)

LEMMA HeadTailSeq ==
  ASSUME NEW S, NEW s \in Seq(S), s # <<>>
  PROVE  /\ Head(s) = s[1] /\ Head(s) \in S
         /\ Tail(s) \in Seq(S)
         /\ Len(s) \in Nat \ {0} /\ Len(Tail(s)) = Len(s) - 1
         /\ \A i \in 1 .. Len(Tail(s)) : Tail(s)[i] = s[i + 1] /\ i + 1 \in 1 .. Len(s)
<1>1. Len(s) \in Nat /\ Len(s) # 0
  BY EmptySeq, LenProperties
<1>. QED
  BY <1>1, HeadTailProperties, LenProperties, ElementOfSeq

LEMMA NetworkFlagsStay ==
  ASSUME NetworkFlags, [Next]_vars
  PROVE  NetworkFlags'
<1>. USE DEF NetworkFlags, screen, dialling, tcp, mqtt, device, broker, others
<1>1. CASE OnWifiConnected
  BY <1>1 DEF OnWifiConnected
<1>2. CASE OnWifiDisconnected
  BY <1>2 DEF OnWifiDisconnected, Fault, Close, OnMqttDisconnect
<1>3. CASE ConnectToMqtt
  BY <1>3 DEF ConnectToMqtt, Fault, Free, Dial, LookUp
<1>4. CASE DnsFound
  BY <1>4 DEF DnsFound, Dial
<1>5. CASE DnsFails
  BY <1>5 DEF DnsFails, Fault, Free, OnMqttDisconnect
<1>6. CASE Connected
  BY <1>6 DEF Connected
<1>7. CASE ConnectFails
  BY <1>7 DEF ConnectFails, Fault, Free, Close, OnMqttDisconnect
<1>8. CASE StaleCloses
  BY <1>8 DEF StaleCloses, Close, OnMqttDisconnect
<1>9. CASE Vanish
  BY <1>9 DEF Vanish, Fault
<1>10. CASE ConnectionEnds
  BY <1>10 DEF ConnectionEnds, Free, Closed, Close, OnMqttDisconnect
<1>11. CASE ConnectionBreaks
  BY <1>11 DEF ConnectionBreaks, Fault, Free, Closed, Close, OnMqttDisconnect
<1>12. CASE OnMqttConnect
  BY <1>12 DEF OnMqttConnect, Accepted, StepOnConnect
<1>13. CASE Refused
  BY <1>13 DEF Refused, Fault, OnMqttDisconnect
<1>14. CASE FuncSendInfo
  BY <1>14 DEF FuncSendInfo, Fault, Free
<1>15. CASE MqttMessage
  BY <1>15 DEF MqttMessage, Receive, Handle
<1>16. CASE T60s
  BY <1>16 DEF T60s, Tick
<1>17. CASE LoopEtc
  BY <1>17 DEF LoopEtc, Close
<1>18. CASE Serve
  BY <1>18 DEF Serve
<1>19. CASE ServerSendsPlan
  BY <1>19 DEF ServerSendsPlan
<1>20. CASE UNCHANGED vars
  BY <1>20 DEF vars
<1>. QED
  BY <1>1, <1>2, <1>3, <1>4, <1>5, <1>6, <1>7, <1>8, <1>9, <1>10, <1>11, <1>12,
     <1>13, <1>14, <1>15, <1>16, <1>17, <1>18, <1>19, <1>20 DEF Next

LEMMA DeviceFlagsStay ==
  ASSUME DeviceFlags, [Next]_vars
  PROVE  DeviceFlags'
<1>. USE DEF DeviceFlags, screen, dialling, tcp, mqtt, device, broker, others
<1>1. CASE OnWifiConnected
  BY <1>1 DEF OnWifiConnected
<1>2. CASE OnWifiDisconnected
  BY <1>2 DEF OnWifiDisconnected, Fault, Close, OnMqttDisconnect
<1>3. CASE ConnectToMqtt
  BY <1>3 DEF ConnectToMqtt, Fault, Free, Dial, LookUp
<1>4. CASE DnsFound
  BY <1>4 DEF DnsFound, Dial
<1>5. CASE DnsFails
  BY <1>5 DEF DnsFails, Fault, Free, OnMqttDisconnect
<1>6. CASE Connected
  BY <1>6 DEF Connected
<1>7. CASE ConnectFails
  BY <1>7 DEF ConnectFails, Fault, Free, Close, OnMqttDisconnect
<1>8. CASE StaleCloses
  BY <1>8 DEF StaleCloses, Close, OnMqttDisconnect
<1>9. CASE Vanish
  BY <1>9 DEF Vanish, Fault
<1>10. CASE ConnectionEnds
  BY <1>10 DEF ConnectionEnds, Free, Closed, Close, OnMqttDisconnect
<1>11. CASE ConnectionBreaks
  BY <1>11 DEF ConnectionBreaks, Fault, Free, Closed, Close, OnMqttDisconnect
<1>12. CASE OnMqttConnect
  BY <1>12 DEF OnMqttConnect, Accepted, StepOnConnect
<1>13. CASE Refused
  BY <1>13 DEF Refused, Fault, OnMqttDisconnect
<1>14. CASE FuncSendInfo
  BY <1>14 DEF FuncSendInfo, Fault, Free
<1>15. CASE MqttMessage
  BY <1>15 DEF MqttMessage, Receive, Handle
<1>16. CASE T60s
  BY <1>16 DEF T60s, Tick
<1>17. CASE LoopEtc
  BY <1>17 DEF LoopEtc, Close
<1>18. CASE Serve
  BY <1>18 DEF Serve
<1>19. CASE ServerSendsPlan
  BY <1>19 DEF ServerSendsPlan
<1>20. CASE UNCHANGED vars
  BY <1>20 DEF vars
<1>. QED
  BY <1>1, <1>2, <1>3, <1>4, <1>5, <1>6, <1>7, <1>8, <1>9, <1>10, <1>11, <1>12,
     <1>13, <1>14, <1>15, <1>16, <1>17, <1>18, <1>19, <1>20 DEF Next

LEMMA DataFlagsStay ==
  ASSUME DataFlags, ChannelsOK, [Next]_vars
  PROVE  DataFlags'
<1>. USE DEF DataFlags, screen, dialling, tcp, mqtt, device, broker, others
<1>1. CASE OnWifiConnected
  BY <1>1 DEF OnWifiConnected
<1>2. CASE OnWifiDisconnected
  BY <1>2 DEF OnWifiDisconnected, Fault, Close, OnMqttDisconnect
<1>3. CASE ConnectToMqtt
  BY <1>3 DEF ConnectToMqtt, Fault, Free, Dial, LookUp
<1>4. CASE DnsFound
  BY <1>4 DEF DnsFound, Dial
<1>5. CASE DnsFails
  BY <1>5 DEF DnsFails, Fault, Free, OnMqttDisconnect
<1>6. CASE Connected
  BY <1>6 DEF Connected
<1>7. CASE ConnectFails
  BY <1>7 DEF ConnectFails, Fault, Free, Close, OnMqttDisconnect
<1>8. CASE StaleCloses
  BY <1>8 DEF StaleCloses, Close, OnMqttDisconnect
<1>9. CASE Vanish
  BY <1>9 DEF Vanish, Fault
<1>10. CASE ConnectionEnds
  BY <1>10 DEF ConnectionEnds, Free, Closed, Close, OnMqttDisconnect
<1>11. CASE ConnectionBreaks
  BY <1>11 DEF ConnectionBreaks, Fault, Free, Closed, Close, OnMqttDisconnect
<1>12. CASE OnMqttConnect
  BY <1>12 DEF OnMqttConnect, Accepted, StepOnConnect
<1>13. CASE Refused
  BY <1>13 DEF Refused, Fault, OnMqttDisconnect
<1>14. CASE FuncSendInfo
  BY <1>14 DEF FuncSendInfo, Fault, Free
<1>15. CASE MqttMessage
  BY <1>15 DEF MqttMessage, Receive, Handle
<1>16. CASE T60s
  BY <1>16 DEF T60s, Tick
<1>17. CASE LoopEtc
  BY <1>17 DEF LoopEtc, Close
<1>18. CASE Serve
  <2>1. UNCHANGED <<bGetDatetime, bGetPlan, ucFlagESPRestart>>
    BY <1>18 DEF Serve
  <2>2. Head(up) \in Up
    BY <1>18, HeadTailSeq DEF Serve, ChannelsOK
  <2>3. CASE Head(up) = "CONNECT"
    BY <1>18, <2>3 DEF Serve
  <2>4. CASE Head(up) = "SUBSCRIBE"
    BY <1>18, <2>4 DEF Serve
  <2>5. CASE Head(up) = "ON"
    BY <1>18, <2>5 DEF Serve
  <2>. QED
    BY <2>1, <2>2, <2>3, <2>4, <2>5 DEF Up
<1>19. CASE ServerSendsPlan
  BY <1>19 DEF ServerSendsPlan
<1>20. CASE UNCHANGED vars
  BY <1>20 DEF vars
<1>. QED
  BY <1>1, <1>2, <1>3, <1>4, <1>5, <1>6, <1>7, <1>8, <1>9, <1>10, <1>11, <1>12,
     <1>13, <1>14, <1>15, <1>16, <1>17, <1>18, <1>19, <1>20 DEF Next

(* An attempt is made while another is under way by a fault only, and it   *)
(* takes one to push out the connection in use.                            *)
LEMMA DiallingStays ==
  ASSUME FlagsOK, DialledByFaults, [Next]_vars
  PROVE  DialledByFaults'
<1>. USE
DEF FlagsOK, NetworkFlags, DialledByFaults, LookUps, screen, dialling, tcp, mqtt, device,
    broker, others
<1>1. CASE OnWifiConnected
  BY <1>1, SessionAssumption DEF OnWifiConnected
<1>2. CASE OnWifiDisconnected
  BY <1>2, SessionAssumption DEF OnWifiDisconnected, Fault, Close, OnMqttDisconnect
<1>3. CASE ConnectToMqtt
  BY <1>3, SessionAssumption DEF ConnectToMqtt, Fault, Free, Dial, LookUp
<1>4. CASE DnsFound
  BY <1>4, SessionAssumption DEF DnsFound, Dial
<1>5. CASE DnsFails
  BY <1>5, SessionAssumption DEF DnsFails, Fault, Free, OnMqttDisconnect
<1>6. CASE Connected
  BY <1>6, SessionAssumption DEF Connected
<1>7. CASE ConnectFails
  BY <1>7, SessionAssumption DEF ConnectFails, Fault, Free, Close, OnMqttDisconnect
<1>8. CASE StaleCloses
  BY <1>8, SessionAssumption DEF StaleCloses, Close, OnMqttDisconnect
<1>9. CASE Vanish
  BY <1>9, SessionAssumption DEF Vanish, Fault
<1>10. CASE ConnectionEnds
  BY <1>10, SessionAssumption DEF ConnectionEnds, Free, Closed, Close, OnMqttDisconnect
<1>11. CASE ConnectionBreaks
  BY <1>11, SessionAssumption DEF ConnectionBreaks, Fault, Free, Closed, Close, OnMqttDisconnect
<1>12. CASE OnMqttConnect
  BY <1>12, SessionAssumption DEF OnMqttConnect, Accepted, StepOnConnect
<1>13. CASE Refused
  BY <1>13, SessionAssumption DEF Refused, Fault, OnMqttDisconnect
<1>14. CASE FuncSendInfo
  BY <1>14, SessionAssumption DEF FuncSendInfo, Fault, Free
<1>15. CASE MqttMessage
  BY <1>15, SessionAssumption DEF MqttMessage, Receive, Handle
<1>16. CASE T60s
  BY <1>16, SessionAssumption DEF T60s, Tick
<1>17. CASE LoopEtc
  BY <1>17, SessionAssumption DEF LoopEtc, Close
<1>18. CASE Serve
  BY <1>18, SessionAssumption DEF Serve
<1>19. CASE ServerSendsPlan
  BY <1>19, SessionAssumption DEF ServerSendsPlan
<1>20. CASE UNCHANGED vars
  BY <1>20 DEF vars
<1>. QED
  BY <1>1, <1>2, <1>3, <1>4, <1>5, <1>6, <1>7, <1>8, <1>9, <1>10, <1>11, <1>12,
     <1>13, <1>14, <1>15, <1>16, <1>17, <1>18, <1>19, <1>20 DEF Next

LEMMA ErrorStays ==
  ASSUME ErrorMeansOffline, [Next]_vars
  PROVE  ErrorMeansOffline'
<1>. USE DEF ErrorMeansOffline, Online, screen, dialling, tcp, mqtt, device, broker, others
<1>1. CASE OnWifiConnected
  BY <1>1 DEF OnWifiConnected
<1>2. CASE OnWifiDisconnected
  BY <1>2 DEF OnWifiDisconnected, Fault, Close, OnMqttDisconnect
<1>3. CASE ConnectToMqtt
  BY <1>3 DEF ConnectToMqtt, Fault, Free, Dial, LookUp
<1>4. CASE DnsFound
  BY <1>4 DEF DnsFound, Dial
<1>5. CASE DnsFails
  BY <1>5 DEF DnsFails, Fault, Free, OnMqttDisconnect
<1>6. CASE Connected
  BY <1>6 DEF Connected
<1>7. CASE ConnectFails
  BY <1>7 DEF ConnectFails, Fault, Free, Close, OnMqttDisconnect
<1>8. CASE StaleCloses
  BY <1>8 DEF StaleCloses, Close, OnMqttDisconnect
<1>9. CASE Vanish
  BY <1>9 DEF Vanish, Fault
<1>10. CASE ConnectionEnds
  BY <1>10 DEF ConnectionEnds, Free, Closed, Close, OnMqttDisconnect
<1>11. CASE ConnectionBreaks
  BY <1>11 DEF ConnectionBreaks, Fault, Free, Closed, Close, OnMqttDisconnect
<1>12. CASE OnMqttConnect
  BY <1>12 DEF OnMqttConnect, Accepted, StepOnConnect
<1>13. CASE Refused
  BY <1>13 DEF Refused, Fault, OnMqttDisconnect
<1>14. CASE FuncSendInfo
  BY <1>14 DEF FuncSendInfo, Fault, Free
<1>15. CASE MqttMessage
  BY <1>15 DEF MqttMessage, Receive, Handle
<1>16. CASE T60s
  BY <1>16 DEF T60s, Tick
<1>17. CASE LoopEtc
  BY <1>17 DEF LoopEtc, Close
<1>18. CASE Serve
  BY <1>18 DEF Serve
<1>19. CASE ServerSendsPlan
  BY <1>19 DEF ServerSendsPlan
<1>20. CASE UNCHANGED vars
  BY <1>20 DEF vars
<1>. QED
  BY <1>1, <1>2, <1>3, <1>4, <1>5, <1>6, <1>7, <1>8, <1>9, <1>10, <1>11, <1>12,
     <1>13, <1>14, <1>15, <1>16, <1>17, <1>18, <1>19, <1>20 DEF Next

LEMMA TicksStay ==
  ASSUME TicksCounted, [Next]_vars
  PROVE  TicksCounted'
<1>. USE DEF TicksCounted, screen, dialling, tcp, mqtt, device, broker, others
<1>1. CASE OnWifiConnected
  BY <1>1, SessionAssumption DEF OnWifiConnected
<1>2. CASE OnWifiDisconnected
  BY <1>2, SessionAssumption DEF OnWifiDisconnected, Fault, Close, OnMqttDisconnect
<1>3. CASE ConnectToMqtt
  BY <1>3, SessionAssumption DEF ConnectToMqtt, Fault, Free, Dial, LookUp
<1>4. CASE DnsFound
  BY <1>4, SessionAssumption DEF DnsFound, Dial
<1>5. CASE DnsFails
  BY <1>5, SessionAssumption DEF DnsFails, Fault, Free, OnMqttDisconnect
<1>6. CASE Connected
  BY <1>6, SessionAssumption DEF Connected
<1>7. CASE ConnectFails
  BY <1>7, SessionAssumption DEF ConnectFails, Fault, Free, Close, OnMqttDisconnect
<1>8. CASE StaleCloses
  BY <1>8, SessionAssumption DEF StaleCloses, Close, OnMqttDisconnect
<1>9. CASE Vanish
  BY <1>9, SessionAssumption DEF Vanish, Fault
<1>10. CASE ConnectionEnds
  BY <1>10, SessionAssumption DEF ConnectionEnds, Free, Closed, Close, OnMqttDisconnect
<1>11. CASE ConnectionBreaks
  BY <1>11, SessionAssumption DEF ConnectionBreaks, Fault, Free, Closed, Close, OnMqttDisconnect
<1>12. CASE OnMqttConnect
  BY <1>12, SessionAssumption DEF OnMqttConnect, Accepted, StepOnConnect
<1>13. CASE Refused
  BY <1>13, SessionAssumption DEF Refused, Fault, OnMqttDisconnect
<1>14. CASE FuncSendInfo
  BY <1>14, SessionAssumption DEF FuncSendInfo, Fault, Free
<1>15. CASE MqttMessage
  BY <1>15, SessionAssumption DEF MqttMessage, Receive, Handle
<1>16. CASE T60s
  <2>. DEFINE n == u8_cnt_restart_mqtt_reason + 1
  <2>1. n <= RESTART /\ u8_cnt_restart_mqtt_reason' = n /\ sent' = sent
    BY <1>16, SessionAssumption DEF T60s, Tick, Settled
  <2>2. ucFlagESPRestart' <=> n >= RESTART
    BY <1>16 DEF T60s, Tick
  <2>. QED
    BY <2>1, <2>2, SessionAssumption
<1>17. CASE LoopEtc
  BY <1>17, SessionAssumption DEF LoopEtc, Close
<1>18. CASE Serve
  BY <1>18, SessionAssumption DEF Serve
<1>19. CASE ServerSendsPlan
  BY <1>19, SessionAssumption DEF ServerSendsPlan
<1>20. CASE UNCHANGED vars
  BY <1>20 DEF vars
<1>. QED
  BY <1>1, <1>2, <1>3, <1>4, <1>5, <1>6, <1>7, <1>8, <1>9, <1>10, <1>11, <1>12,
     <1>13, <1>14, <1>15, <1>16, <1>17, <1>18, <1>19, <1>20 DEF Next

LEMMA SaysOnAgainStays ==
  ASSUME FlagsOK, SaysOnAgain, [Next]_vars
  PROVE  SaysOnAgain'
<1>. USE
DEF FlagsOK, NetworkFlags, DeviceFlags, SaysOnAgain, Online, screen, dialling, tcp, mqtt,
    device, broker, others
<1>1. CASE OnWifiConnected
  BY <1>1 DEF OnWifiConnected
<1>2. CASE OnWifiDisconnected
  BY <1>2 DEF OnWifiDisconnected, Fault, Close, OnMqttDisconnect
<1>3. CASE ConnectToMqtt
  BY <1>3 DEF ConnectToMqtt, Fault, Free, Dial, LookUp
<1>4. CASE DnsFound
  BY <1>4 DEF DnsFound, Dial
<1>5. CASE DnsFails
  BY <1>5 DEF DnsFails, Fault, Free, OnMqttDisconnect
<1>6. CASE Connected
  BY <1>6 DEF Connected
<1>7. CASE ConnectFails
  BY <1>7 DEF ConnectFails, Fault, Free, Close, OnMqttDisconnect
<1>8. CASE StaleCloses
  BY <1>8 DEF StaleCloses, Close, OnMqttDisconnect
<1>9. CASE Vanish
  BY <1>9 DEF Vanish, Fault
<1>10. CASE ConnectionEnds
  BY <1>10 DEF ConnectionEnds, Free, Closed, Close, OnMqttDisconnect
<1>11. CASE ConnectionBreaks
  BY <1>11 DEF ConnectionBreaks, Fault, Free, Closed, Close, OnMqttDisconnect
<1>12. CASE OnMqttConnect
  BY <1>12 DEF OnMqttConnect, Accepted, StepOnConnect
<1>13. CASE Refused
  BY <1>13 DEF Refused, Fault, OnMqttDisconnect
<1>14. CASE FuncSendInfo
  BY <1>14 DEF FuncSendInfo, Fault, Free
<1>15. CASE MqttMessage
  BY <1>15 DEF MqttMessage, Receive, Handle
<1>16. CASE T60s
  BY <1>16 DEF T60s, Tick
<1>17. CASE LoopEtc
  BY <1>17 DEF LoopEtc, Close
<1>18. CASE Serve
  BY <1>18 DEF Serve
<1>19. CASE ServerSendsPlan
  BY <1>19 DEF ServerSendsPlan
<1>20. CASE UNCHANGED vars
  BY <1>20 DEF vars
<1>. QED
  BY <1>1, <1>2, <1>3, <1>4, <1>5, <1>6, <1>7, <1>8, <1>9, <1>10, <1>11, <1>12,
     <1>13, <1>14, <1>15, <1>16, <1>17, <1>18, <1>19, <1>20 DEF Next

LEMMA PiecesSeq ==
  ASSUME NEW m \in {"date", "plan"}
  PROVE  /\ Pieces(m) \in Seq(Down) /\ Len(Pieces(m)) \in Nat
         /\ \A i \in 1 .. Len(Pieces(m)) : Pieces(m)[i] # CONNACK
<1>1. Parts[m] \in Nat
  BY SessionAssumption
<1>2. \A i \in 1 .. Parts[m] : <<m, i>> \in Down /\ <<m, i>> # CONNACK
  BY DEF Down, CONNACK
<1>3. Pieces(m) \in Seq(Down) /\ Len(Pieces(m)) = Parts[m]
  BY <1>1, <1>2, IsASeq, LenProperties DEF Pieces
<1>. QED
  BY <1>1, <1>2, <1>3 DEF Pieces

LEMMA PiecesStay ==
  ASSUME ChannelsOK, PiecesOK, [Next]_vars
  PROVE  PiecesOK'
<1>. USE DEF ChannelsOK, PiecesOK, screen, dialling, tcp, mqtt, device, broker, others
<1>1. CASE OnWifiConnected
  BY <1>1, SessionAssumption DEF OnWifiConnected
<1>2. CASE OnWifiDisconnected
  BY <1>2, SessionAssumption DEF OnWifiDisconnected, Fault, Close, OnMqttDisconnect
<1>3. CASE ConnectToMqtt
  BY <1>3, SessionAssumption DEF ConnectToMqtt, Fault, Free, Dial, LookUp
<1>4. CASE DnsFound
  BY <1>4, SessionAssumption DEF DnsFound, Dial
<1>5. CASE DnsFails
  BY <1>5, SessionAssumption DEF DnsFails, Fault, Free, OnMqttDisconnect
<1>6. CASE Connected
  BY <1>6, SessionAssumption DEF Connected
<1>7. CASE ConnectFails
  BY <1>7, SessionAssumption DEF ConnectFails, Fault, Free, Close, OnMqttDisconnect
<1>8. CASE StaleCloses
  BY <1>8, SessionAssumption DEF StaleCloses, Close, OnMqttDisconnect
<1>9. CASE Vanish
  BY <1>9, SessionAssumption DEF Vanish, Fault
<1>10. CASE ConnectionEnds
  BY <1>10, SessionAssumption DEF ConnectionEnds, Free, Closed, Close, OnMqttDisconnect
<1>11. CASE ConnectionBreaks
  BY <1>11, SessionAssumption DEF ConnectionBreaks, Fault, Free, Closed, Close, OnMqttDisconnect
<1>12. CASE OnMqttConnect
  BY <1>12, SessionAssumption DEF OnMqttConnect, Accepted, StepOnConnect
<1>13. CASE Refused
  BY <1>13, SessionAssumption DEF Refused, Fault, OnMqttDisconnect
<1>14. CASE FuncSendInfo
  BY <1>14, SessionAssumption DEF FuncSendInfo, Fault, Free
<1>15. CASE MqttMessage
  <2>. DEFINE m == Head(down)[1]
              received == Append(sMsg, Head(down))
  <2>1. Head(down) \in {"date", "plan"} \X Nat
    BY <1>15, HeadTailSeq DEF MqttMessage, Receive, Down
  <2>2. m \in {"date", "plan"} /\ Parts[m] \in Nat \ {0}
    BY <2>1, SessionAssumption
  <2>3. received \in Seq({"date", "plan"} \X Nat) /\ Len(received) \in Nat
    BY <2>1, AppendProperties, LenProperties
  <2>. HIDE DEF m, received
  <2>4. sMsg' = IF Len(received) >= Parts[m] THEN <<>> ELSE received
    BY <1>15 DEF MqttMessage, Receive, m, received
  <2>5. CASE Len(received) >= Parts[m]
    BY <2>2, <2>4, <2>5
  <2>6. CASE Len(received) < Parts[m]
    BY <2>2, <2>3, <2>4, <2>6
  <2>. QED
    BY <2>2, <2>3, <2>5, <2>6
<1>16. CASE T60s
  BY <1>16, SessionAssumption DEF T60s, Tick
<1>17. CASE LoopEtc
  BY <1>17, SessionAssumption DEF LoopEtc, Close
<1>18. CASE Serve
  BY <1>18, SessionAssumption DEF Serve
<1>19. CASE ServerSendsPlan
  BY <1>19, SessionAssumption DEF ServerSendsPlan
<1>20. CASE UNCHANGED vars
  BY <1>20 DEF vars
<1>. QED
  BY <1>1, <1>2, <1>3, <1>4, <1>5, <1>6, <1>7, <1>8, <1>9, <1>10, <1>11, <1>12,
     <1>13, <1>14, <1>15, <1>16, <1>17, <1>18, <1>19, <1>20 DEF Next

LEMMA ChannelsStay ==
  ASSUME FlagsOK, ChannelsOK, [Next]_vars
  PROVE  ChannelsOK'
<1>. USE
DEF FlagsOK, NetworkFlags, ChannelsOK, screen, dialling, tcp, mqtt, device, broker, others
<1>1. CASE OnWifiConnected
  BY <1>1, SessionAssumption DEF OnWifiConnected
<1>2. CASE OnWifiDisconnected
  <2>1. CASE Close /\ OnMqttDisconnect(FALSE)
    BY <2>1 DEF Close, OnMqttDisconnect
  <2>2. CASE UNCHANGED <<_pcb, up, down, subscribed, connected>>
    BY <2>2
  <2>. QED
    BY <1>2, <2>1, <2>2 DEF OnWifiDisconnected
<1>3. CASE ConnectToMqtt
  BY <1>3, SessionAssumption DEF ConnectToMqtt, Fault, Free, Dial, LookUp
<1>4. CASE DnsFound
  BY <1>4, SessionAssumption DEF DnsFound, Dial
<1>5. CASE DnsFails
  BY <1>5, SessionAssumption DEF DnsFails, Fault, Free, OnMqttDisconnect
<1>6. CASE Connected
  <2>1. PICK k \in 0 .. Len(up) : up' = Append(SubSeq(up, 1, k), "CONNECT")
    BY <1>6 DEF Connected, OnConnect
  <2>2. SubSeq(up, 1, k) \in Seq(Up)
    BY <2>1, LenProperties, SubSeqProperties
  <2>3. up' \in Seq(Up)
    BY <2>1, <2>2, AppendProperties DEF Up
  <2>. QED
    BY <1>6, <2>3 DEF Connected
<1>7. CASE ConnectFails
  BY <1>7, SessionAssumption DEF ConnectFails, Fault, Free, Close, OnMqttDisconnect
<1>8. CASE StaleCloses
  <2>1. CASE _pcb
    BY <1>8, <2>1 DEF StaleCloses, Close, OnMqttDisconnect
  <2>2. CASE ~_pcb
    <3>1. UNCHANGED <<_pcb, up, down, subscribed, connected>>
      BY <1>8, <2>2 DEF StaleCloses
    <3>. QED
      BY <3>1
  <2>. QED
    BY <2>1, <2>2
<1>9. CASE Vanish
  <2>1. /\ _pcb /\ down' \in {down, <<>>}
        /\ UNCHANGED <<_pcb, up, subscribed, connected>>
    BY <1>9 DEF Vanish
  <2>2. down' \in Seq(Down)
    BY <2>1, EmptySeq
  <2>. QED
    BY <2>1, <2>2
<1>10. CASE ConnectionEnds
  BY <1>10, SessionAssumption DEF ConnectionEnds, Free, Closed, Close, OnMqttDisconnect
<1>11. CASE ConnectionBreaks
  BY <1>11, SessionAssumption DEF ConnectionBreaks, Fault, Free, Closed, Close, OnMqttDisconnect
<1>12. CASE OnMqttConnect
  <2>1. /\ _pcb /\ down' = Tail(down)
        /\ up' = IF bMqttSubscribe THEN up ELSE Append(up, "SUBSCRIBE")
        /\ _pcb' = _pcb
    BY <1>12 DEF OnMqttConnect, Accepted, MqttSubscribe
  <2>2. Tail(down) \in Seq(Down)
    BY <1>12, HeadTailSeq DEF OnMqttConnect, Accepted
  <2>3. Append(up, "SUBSCRIBE") \in Seq(Up)
    BY AppendProperties DEF Up
  <2>. QED
    BY <2>1, <2>2, <2>3
<1>13. CASE Refused
  BY <1>13, SessionAssumption DEF Refused, Fault, OnMqttDisconnect
<1>14. CASE FuncSendInfo
  <2>1. /\ _pcb /\ up' \in {up, Append(up, "ON")}
        /\ UNCHANGED <<_pcb, down, subscribed, connected>>
    BY <1>14 DEF FuncSendInfo, Online
  <2>2. Append(up, "ON") \in Seq(Up)
    BY AppendProperties DEF Up
  <2>. QED
    BY <2>1, <2>2
<1>15. CASE MqttMessage
  BY <1>15, SessionAssumption DEF MqttMessage, Receive, Handle
<1>16. CASE T60s
  <2>1. /\ up' # up => connected /\ up' = Append(up, "SUBSCRIBE")
        /\ UNCHANGED <<_pcb, down, subscribed, connected>>
    BY <1>16 DEF T60s, Tick, MqttSubscribe
  <2>2. Append(up, "SUBSCRIBE") \in Seq(Up)
    BY AppendProperties DEF Up
  <2>3. CASE up' = up
    BY <2>1, <2>3
  <2>4. CASE up' # up
    BY <2>1, <2>2, <2>4
  <2>. QED
    BY <2>3, <2>4
<1>17. CASE LoopEtc
  BY <1>17, SessionAssumption DEF LoopEtc, Close
<1>18. CASE Serve
  <2>1. /\ _pcb /\ _pcb' = _pcb /\ up' = Tail(up) /\ Head(up) \in Up /\ Tail(up) \in Seq(Up)
    BY <1>18, HeadTailSeq DEF Serve
  <2>2. CASE Head(up) = "CONNECT"
    <3>1. down' = Append(down, CONNACK) /\ CONNACK \in Down
      BY <1>18, <2>2 DEF Serve, Down
    <3>2. down' \in Seq(Down)
      BY <3>1, AppendProperties
    <3>. QED
      BY <2>1, <3>2
  <2>3. CASE Head(up) = "SUBSCRIBE"
    <3>1. down' = down
      BY <1>18, <2>3 DEF Serve
    <3>. QED
      BY <2>1, <3>1
  <2>4. CASE Head(up) = "ON"
    <3>1. down' \in {down, down \o Pieces("date") \o Pieces("plan")}
      BY <1>18, <2>4 DEF Serve
    <3>2. Pieces("date") \in Seq(Down) /\ Pieces("plan") \in Seq(Down)
      BY PiecesSeq
    <3>3. down \o Pieces("date") \o Pieces("plan") \in Seq(Down)
      BY <3>2, ConcatProperties
    <3>4. down' \in Seq(Down)
      BY <3>1, <3>3
    <3>. QED
      BY <2>1, <3>4
  <2>. QED
    BY <2>1, <2>2, <2>3, <2>4 DEF Up
<1>19. CASE ServerSendsPlan
  <2>1. /\ down' = down \o Pieces("plan") /\ _pcb
        /\ UNCHANGED <<_pcb, up, subscribed, connected>>
    BY <1>19 DEF ServerSendsPlan
  <2>. QED
    BY <2>1, PiecesSeq, ConcatProperties
<1>20. CASE UNCHANGED vars
  BY <1>20 DEF vars
<1>. QED
  BY <1>1, <1>2, <1>3, <1>4, <1>5, <1>6, <1>7, <1>8, <1>9, <1>10, <1>11, <1>12,
     <1>13, <1>14, <1>15, <1>16, <1>17, <1>18, <1>19, <1>20 DEF Next

(* What a packet more, or one less, leaves of a property of all packets.   *)
LEMMA AppendSeq ==
  ASSUME NEW S, NEW s \in Seq(S), NEW e \in S
  PROVE  /\ Len(s) \in Nat /\ Len(Append(s, e)) = Len(s) + 1
         /\ \A i \in 1 .. Len(s) : i \in 1 .. Len(Append(s, e)) /\ Append(s, e)[i] = s[i]
         /\ Len(s) + 1 \in 1 .. Len(Append(s, e)) /\ Append(s, e)[Len(s) + 1] = e
         /\ \A i \in 1 .. Len(Append(s, e)) : i \in 1 .. Len(s) \/ i = Len(s) + 1
<1>1. Len(s) \in Nat
  BY LenProperties
<1>. QED
  BY <1>1, AppendProperties

LEMMA PiecesAppended ==
  ASSUME down \in Seq(Down)
  PROVE  /\ \A i \in 1 .. Len(down \o Pieces("plan")) :
              (down \o Pieces("plan"))[i] = CONNACK => i \in 1 .. Len(down) /\ down[i] = CONNACK
         /\ \A i \in 1 .. Len(down \o Pieces("date") \o Pieces("plan")) :
              (down \o Pieces("date") \o Pieces("plan"))[i] = CONNACK
                => i \in 1 .. Len(down) /\ down[i] = CONNACK
<1>1. ASSUME NEW s \in Seq(Down), NEW m \in {"date", "plan"}, NEW i \in 1 .. Len(s \o Pieces(m)),
             (s \o Pieces(m))[i] = CONNACK
      PROVE  i \in 1 .. Len(s) /\ s[i] = CONNACK
  <2>1. /\ Pieces(m) \in Seq(Down) /\ Len(s) \in Nat /\ Len(Pieces(m)) \in Nat
        /\ \A k \in 1 .. Len(Pieces(m)) : Pieces(m)[k] # CONNACK
    BY PiecesSeq, LenProperties
  <2>2. /\ Len(s \o Pieces(m)) = Len(s) + Len(Pieces(m))
        /\ (s \o Pieces(m))[i] = IF i <= Len(s) THEN s[i] ELSE Pieces(m)[i - Len(s)]
    BY <2>1, ConcatProperties
  <2>3. i <= Len(s)
    <3>1. SUFFICES ASSUME i > Len(s) PROVE FALSE
      BY <2>1, <2>2
    <3>2. i - Len(s) \in 1 .. Len(Pieces(m))
      BY <2>1, <2>2, <3>1
    <3>. QED
      BY <1>1, <2>1, <2>2, <3>1, <3>2
  <2>. QED
    BY <1>1, <2>1, <2>2, <2>3
<1>2. down \o Pieces("date") \in Seq(Down)
  BY PiecesSeq, ConcatProperties
<1>. QED
  BY <1>1, <1>2

(* CONNECT is sent first in its connection; the broker subscribes and      *)
(* sends only after it.                                                    *)
LEMMA OneConnectStays ==
  ASSUME FlagsOK, DialledByFaults, ChannelsOK, OneConnect, [Next]_vars
  PROVE  OneConnect'
<1>. USE
DEF FlagsOK, NetworkFlags, DialledByFaults, ChannelsOK, OneConnect, screen, dialling, tcp,
    mqtt, device, broker, others
<1>1. CASE OnWifiConnected
  BY <1>1 DEF OnWifiConnected
<1>2. CASE OnWifiDisconnected
  BY <1>2 DEF OnWifiDisconnected, Fault, Close, OnMqttDisconnect
<1>3. CASE ConnectToMqtt
  BY <1>3 DEF ConnectToMqtt, Fault, Free, Dial, LookUp
<1>4. CASE DnsFound
  BY <1>4 DEF DnsFound, Dial
<1>5. CASE DnsFails
  BY <1>5 DEF DnsFails, Fault, Free, OnMqttDisconnect
<1>6. CASE Connected
  <2>1. CASE _pcb
    BY <1>6, <2>1 DEF Connected
  <2>2. CASE ~_pcb
    <3>1. up = <<>> /\ down = <<>> /\ down' = down /\ ~connected' /\ ~subscribed'
      BY <1>6, <2>2 DEF Connected
    <3>2. up' = Append(SubSeq(up, 1, 0), "CONNECT")
      BY <1>6, <3>1 DEF Connected, OnConnect
    <3>3. up' = Append(<<>>, "CONNECT")
      <4>1. 0 \in Int /\ 1 \in Int /\ 0 < 1
        OBVIOUS
      <4>2. SubSeq(up, 1, 0) = <<>>
        BY <4>1, SubSeqEmpty, Zenon
      <4>. QED
        BY <3>2, <4>2
    <3>4. <<>> \in Seq(Up) /\ "CONNECT" \in Up /\ Len(<<>>) = 0
      BY <3>1 DEF Up
    <3>5. \A i \in 1 .. Len(up') : i = 1
      BY <3>3, <3>4, AppendSeq
    <3>. QED
      BY <3>1, <3>5
  <2>. QED
    BY <2>1, <2>2
<1>7. CASE ConnectFails
  BY <1>7 DEF ConnectFails, Fault, Free, Close, OnMqttDisconnect
<1>8. CASE StaleCloses
  BY <1>8 DEF StaleCloses, Close, OnMqttDisconnect
<1>9. CASE Vanish
  BY <1>9 DEF Vanish, Fault
<1>10. CASE ConnectionEnds
  BY <1>10 DEF ConnectionEnds, Free, Closed, Close, OnMqttDisconnect
<1>11. CASE ConnectionBreaks
  BY <1>11 DEF ConnectionBreaks, Fault, Free, Closed, Close, OnMqttDisconnect
<1>12. CASE OnMqttConnect
  <2>1. /\ down # <<>> /\ Head(down) = CONNACK /\ down' = Tail(down) /\ stale' = stale
        /\ up' = IF bMqttSubscribe THEN up ELSE Append(up, "SUBSCRIBE")
    BY <1>12 DEF OnMqttConnect, Accepted, MqttSubscribe
  <2>2. SUFFICES ASSUME stale = 0 PROVE OneConnect'
    BY <2>1
  <2>3. \A i \in 1 .. Len(up) : up[i] # "CONNECT"
    BY <2>1, <2>2
  <2>4. \A i \in 1 .. Len(up') : up'[i] # "CONNECT"
    BY <2>1, <2>3, AppendSeq DEF Up
  <2>5. \A i \in 1 .. Len(down') : down'[i] # CONNACK
    <3>1. \A i \in 1 .. Len(down') : down'[i] = down[i + 1] /\ i + 1 \in 1 .. Len(down)
      BY <2>1, HeadTailSeq
    <3>. QED
      BY <2>2, <3>1
  <2>. QED
    BY <2>4, <2>5
<1>13. CASE Refused
  BY <1>13 DEF Refused, Fault, OnMqttDisconnect
<1>14. CASE FuncSendInfo
  <2>1. /\ up' = up \/ up' = Append(up, "ON")
        /\ UNCHANGED <<stale, down, connected, subscribed>>
    BY <1>14 DEF FuncSendInfo
  <2>2. \A i \in 1 .. Len(up') : up'[i] = "CONNECT" => i \in 1 .. Len(up) /\ up[i] = "CONNECT"
    <3>1. CASE up' = Append(up, "ON")
      BY <3>1, AppendSeq DEF Up
    <3>. QED
      BY <2>1, <3>1
  <2>. QED
    BY <2>1, <2>2
<1>15. CASE MqttMessage
  BY <1>15 DEF MqttMessage, Receive, Handle
<1>16. CASE T60s
  <2>1. /\ up' = up \/ up' = Append(up, "SUBSCRIBE")
        /\ UNCHANGED <<stale, down, connected, subscribed>>
    BY <1>16 DEF T60s, Tick, MqttSubscribe
  <2>2. \A i \in 1 .. Len(up') : up'[i] = "CONNECT" => i \in 1 .. Len(up) /\ up[i] = "CONNECT"
    <3>1. CASE up' = Append(up, "SUBSCRIBE")
      BY <3>1, AppendSeq DEF Up
    <3>. QED
      BY <2>1, <3>1
  <2>. QED
    BY <2>1, <2>2
<1>17. CASE LoopEtc
  BY <1>17 DEF LoopEtc, Close
<1>18. CASE Serve
  <2>1. /\ up # <<>> /\ up' = Tail(up) /\ Head(up) = up[1] /\ Head(up) \in Up
        /\ stale' = stale /\ connected' = connected
    BY <1>18, HeadTailSeq DEF Serve
  <2>2. SUFFICES ASSUME stale = 0 PROVE OneConnect'
    BY <2>1
  <2>3. \A i \in 1 .. Len(up') : up'[i] # "CONNECT"
    <3>1. \A i \in 1 .. Len(up') : up'[i] = up[i + 1] /\ i + 1 \in 1 .. Len(up)
      BY <2>1, HeadTailSeq
    <3>. QED
      BY <2>2, <3>1, SMTT(30)
  <2>4. \A i \in 1 .. Len(down') : down'[i] = CONNACK => i = 1 /\ ~connected
    <3>1. CASE Head(up) = "CONNECT"
      <4>1. 1 \in 1 .. Len(up)
        BY <2>1, HeadTailSeq
      <4>2. down = <<>> /\ ~connected
        BY <2>1, <2>2, <3>1, <4>1
      <4>3. down' = Append(down, CONNACK) /\ CONNACK \in Down /\ Len(down) = 0
        BY <1>18, <3>1, <4>2 DEF Serve, Down
      <4>4. \A i \in 1 .. Len(down') : i = 1
        BY <4>3, AppendSeq
      <4>. QED
        BY <4>2, <4>4
    <3>2. CASE Head(up) = "SUBSCRIBE"
      <4>1. down' = down
        BY <1>18, <3>2 DEF Serve
      <4>. QED
        BY <2>2, <4>1
    <3>3. CASE Head(up) = "ON"
      <4>1. down' \in {down, down \o Pieces("date") \o Pieces("plan")}
        BY <1>18, <3>3 DEF Serve
      <4>2. \A i \in 1 .. Len(down') :
              down'[i] = CONNACK => i \in 1 .. Len(down) /\ down[i] = CONNACK
        BY <4>1, PiecesAppended
      <4>. QED
        BY <2>2, <4>2
    <3>. QED
      BY <2>1, <3>1, <3>2, <3>3 DEF Up
  <2>. QED
    BY <2>1, <2>3, <2>4
<1>19. CASE ServerSendsPlan
  <2>1. /\ subscribed /\ down' = down \o Pieces("plan")
        /\ UNCHANGED <<stale, up, connected, subscribed>>
    BY <1>19 DEF ServerSendsPlan
  <2>2. \A i \in 1 .. Len(down') : down'[i] = CONNACK => i \in 1 .. Len(down) /\ down[i] = CONNACK
    BY <2>1, PiecesAppended
  <2>. QED
    BY <2>1, <2>2
<1>20. CASE UNCHANGED vars
  BY <1>20 DEF vars
<1>. QED
  BY <1>1, <1>2, <1>3, <1>4, <1>5, <1>6, <1>7, <1>8, <1>9, <1>10, <1>11, <1>12,
     <1>13, <1>14, <1>15, <1>16, <1>17, <1>18, <1>19, <1>20 DEF Next

(* A new CONNACK finds the device about to say ON, unless an older         *)
(* connection was pushed out.                                              *)
LEMMA AnnouncedStays ==
  ASSUME FlagsOK, DialledByFaults, ChannelsOK, SaysOnAgain, OneConnect, Announced, [Next]_vars
  PROVE  Announced'
<1>. USE
DEF FlagsOK, NetworkFlags, DeviceFlags, DialledByFaults, ChannelsOK, SaysOnAgain, OneConnect,
    Announced, Contains, screen, dialling, tcp, mqtt, device, broker, others
<1>1. CASE OnWifiConnected
  BY <1>1 DEF OnWifiConnected
<1>2. CASE OnWifiDisconnected
  BY <1>2 DEF OnWifiDisconnected, Fault, Close, OnMqttDisconnect
<1>3. CASE ConnectToMqtt
  BY <1>3 DEF ConnectToMqtt, Fault, Free, Dial, LookUp
<1>4. CASE DnsFound
  BY <1>4 DEF DnsFound, Dial
<1>5. CASE DnsFails
  BY <1>5 DEF DnsFails, Fault, Free, OnMqttDisconnect
<1>6. CASE Connected
  BY <1>6 DEF Connected
<1>7. CASE ConnectFails
  BY <1>7 DEF ConnectFails, Fault, Free, Close, OnMqttDisconnect
<1>8. CASE StaleCloses
  BY <1>8 DEF StaleCloses, Close, OnMqttDisconnect
<1>9. CASE Vanish
  BY <1>9 DEF Vanish, Fault
<1>10. CASE ConnectionEnds
  BY <1>10 DEF ConnectionEnds, Free, Closed, Close, OnMqttDisconnect
<1>11. CASE ConnectionBreaks
  BY <1>11 DEF ConnectionBreaks, Fault, Free, Closed, Close, OnMqttDisconnect
<1>12. CASE OnMqttConnect
  BY <1>12 DEF OnMqttConnect, Accepted, StepOnConnect
<1>13. CASE Refused
  BY <1>13 DEF Refused, Fault, OnMqttDisconnect
<1>14. CASE FuncSendInfo
  BY <1>14 DEF FuncSendInfo, Fault, Free
<1>15. CASE MqttMessage
  BY <1>15 DEF MqttMessage, Receive, Handle
<1>16. CASE T60s
  BY <1>16 DEF T60s, Tick
<1>17. CASE LoopEtc
  BY <1>17 DEF LoopEtc, Close
<1>18. CASE Serve
  <2>1. /\ up # <<>> /\ up' = Tail(up) /\ Head(up) = up[1] /\ Head(up) \in Up
        /\ UNCHANGED <<stale, connected, mqttStep, unannounced>>
    BY <1>18, HeadTailSeq DEF Serve
  <2>2. CASE Head(up) = "ON"
    BY <1>18, <2>1, <2>2 DEF Serve
  <2>3. CASE Head(up) = "CONNECT"
    <3>1. 1 \in 1 .. Len(up)
      BY <2>1, HeadTailSeq
    <3>. QED
      BY <2>1, <2>3, <3>1
  <2>4. CASE Head(up) = "SUBSCRIBE"
    <3>1. status' = status
      BY <1>18, <2>4 DEF Serve
    <3>2. Contains(up, "ON") => Contains(up', "ON")
      <4>1. SUFFICES ASSUME NEW i \in 1 .. Len(up), up[i] = "ON"
                     PROVE  \E j \in 1 .. Len(up') : up'[j] = "ON"
        OBVIOUS
      <4>2. i # 1
        BY <2>1, <2>4, <4>1
      <4>3. i - 1 \in 1 .. Len(up') /\ up'[i - 1] = up[i]
        BY <2>1, <4>2, HeadTailSeq
      <4>. QED
        BY <4>1, <4>3
    <3>. QED
      BY <2>1, <3>1, <3>2
  <2>. QED
    BY <2>1, <2>2, <2>3, <2>4 DEF Up
<1>19. CASE ServerSendsPlan
  BY <1>19 DEF ServerSendsPlan
<1>20. CASE UNCHANGED vars
  BY <1>20 DEF vars
<1>. QED
  BY <1>1, <1>2, <1>3, <1>4, <1>5, <1>6, <1>7, <1>8, <1>9, <1>10, <1>11, <1>12,
     <1>13, <1>14, <1>15, <1>16, <1>17, <1>18, <1>19, <1>20 DEF Next

-----------------------------------------------------------------------------
THEOREM SessionInvariant == Spec => []SessionInv
<1>1. SessionInv /\ [Next]_vars => SessionInv'
  BY NetworkFlagsStay, DeviceFlagsStay, DataFlagsStay, DiallingStays, TicksStay, ChannelsStay,
     PiecesStay, SaysOnAgainStays, OneConnectStays, AnnouncedStays, ErrorStays
  DEF SessionInv, FlagsOK
<1>. QED
  BY <1>1, SessionFirst, PTL DEF Spec

(* The types, and the bounds on attempts, pushed out connections and ticks,*)
(* for every number of faults: what piles up was let in by a fault.        *)
THEOREM SessionTypes == Spec => []TypeOK
  BY SessionInvariant, TypesOfSession, PTL

(* onWifiConnect, onMqttConnect, onMqttDisconnect: what the display says   *)
(* of the network is never left over.                                      *)
THEOREM ErrorAlwaysMeansOffline == Spec => []ErrorMeansOffline
  BY SessionInvariant, PTL DEF SessionInv

(* Func_Send_Info, onMqttConnect, bDisconnected: no counts in a connection *)
(* without ON, but for the two exceptions the property names.              *)
THEOREM AlwaysAnnounced == Spec => []Announced
  BY SessionInvariant, PTL DEF SessionInv
=============================================================================
