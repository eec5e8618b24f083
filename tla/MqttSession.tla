---------------------------- MODULE MqttSession -----------------------------
(***************************************************************************)
(* How the device gets and keeps its session with the server: WiFi, the    *)
(* TCP connections of AsyncClient, the MQTT connection of AsyncMqttClient, *)
(* the subscriptions of mqttSubscribe, the ON message that asks for date   *)
(* and plan, the messages that come back in pieces (mqttMessage), and the  *)
(* timer that subscribes again and finally restarts the device when date   *)
(* or plan do not come (t_60sCallback).                                    *)
(*                                                                         *)
(* AsyncClient keeps one pcb, but an attempt to connect only sets it when  *)
(* it succeeds: attempts can pile up, and each one that ends, well or ill, *)
(* takes hold of the connection in use.                                    *)
(*                                                                         *)
(* The broker is modelled from how the client uses it: clean sessions      *)
(* (setCleanSession is never called), one connection per client, and the   *)
(* will, OFF, when a connection falls.  What two connections of the device *)
(* carry at once arrives one connection after the other.  The counts that  *)
(* travel over the session are in Publisher.                               *)
(***************************************************************************)
EXTENDS Naturals, Sequences, SequencesExt

CONSTANTS
  Parts,        (* TCP segments that the "date" and the "plan" message take *)
  RESUBSCRIBE,  (* tick at which t_60sCallback subscribes again (2)        *)
  RESTART,      (* tick at which it restarts the device (11)               *)
  MAX_FAULTS,   (* bound on the faults of the network                      *)
  MAX_SENT      (* bound on the plans the server sends unasked             *)

ASSUME SessionAssumption ==
  /\ Parts \in [{"date", "plan"} -> Nat \ {0}]
  /\ RESUBSCRIBE \in Nat /\ RESTART \in Nat \ {0}
  /\ MAX_FAULTS \in Nat /\ MAX_SENT \in Nat

VARIABLES
  wifi,              (* WiFi.status() == WL_CONNECTED                      *)
  ucErr,             (* what the display says of the network               *)
  bDisconnected,
  bMqttSubscribe,    (* mqttSubscribe was called                           *)
  lookup,            (* the server's name is being looked up               *)
  attempts,          (* tcp_connect calls that have not ended              *)
  _pcb,              (* the TCP connection in use: is there one            *)
  peer,              (* its other end: "alive", "refused" or "gone"        *)
  stale,             (* older ones that were in use when it was made       *)
  connected,         (* mqttClient.connected(), and mqtt.bConnected        *)
  _disconnectFlagged,
  mqttStep,
  sMsg,              (* pieces received of a message; usLenMsg is its length *)
  bGetDatetime, bGetPlan,
  u8_cnt_restart_mqtt_reason,
  ucFlagESPRestart,
  up, down,          (* what is on its way to the broker, and to the device *)
  subscribed,        (* the broker has this connection's subscriptions     *)
  status,            (* what the server was last told: "ON" or "OFF"       *)
  unannounced,       (* history: this connection's ON found no room        *)
  tried,             (* WiFi came up or a connection was tried since T60s  *)
  faults, sent       (* counters for MAX_FAULTS and MAX_SENT               *)

dialling == <<lookup, attempts>>
tcp      == <<dialling, _pcb, peer, stale>>
mqtt     == <<connected, _disconnectFlagged, bDisconnected, bMqttSubscribe>>
screen   == <<wifi, ucErr>>
device   == <<bGetDatetime, bGetPlan, u8_cnt_restart_mqtt_reason, ucFlagESPRestart>>
broker   == <<subscribed, status>>
vars     == <<screen, tcp, mqtt, device, mqttStep, sMsg, up, down, broker, unannounced, tried,
              faults, sent>>

Online  == wifi /\ connected
Fault   == faults < MAX_FAULTS /\ faults' = faults + 1
Free    == UNCHANGED faults

Init ==
  /\ wifi = FALSE /\ ucErr = "NO_ERR"
  /\ lookup = FALSE /\ attempts = 0
  /\ _pcb = FALSE /\ peer = "alive" /\ stale = 0
  /\ connected = FALSE /\ _disconnectFlagged = FALSE
  /\ bDisconnected = FALSE /\ bMqttSubscribe = FALSE /\ mqttStep = "SEND_SYSCTRL"
  /\ sMsg = <<>> /\ bGetDatetime = FALSE /\ bGetPlan = FALSE
  /\ u8_cnt_restart_mqtt_reason = 0 /\ ucFlagESPRestart = FALSE
  /\ up = <<>> /\ down = <<>> /\ subscribed = FALSE /\ status = "OFF"
  /\ unannounced = FALSE
  /\ tried = FALSE /\ faults = 0 /\ sent = 0

-----------------------------------------------------------------------------
(* AsyncMqttClient::_clear, and the firmware's onMqttDisconnect.           *)
OnMqttDisconnect(ap) ==
  /\ connected' = FALSE /\ _disconnectFlagged' = FALSE
  /\ bDisconnected' = TRUE
  /\ ucErr' = IF ap THEN "ERR_MQTT" ELSE "ERR_AP"
  /\ UNCHANGED bMqttSubscribe

(* The connection in use is closed or given up, and the broker drops it.   *)
Close ==
  /\ _pcb' = FALSE /\ peer' = "alive"
  /\ up' = <<>> /\ down' = <<>>
  /\ subscribed' = FALSE /\ status' = "OFF"

others == <<device, mqttStep, sMsg, unannounced, sent>>

(* WiFi events.                                                            *)
OnWifiConnected ==
  /\ ~wifi
  /\ wifi' = TRUE
  /\ ucErr' = "NO_ERR"
  /\ tried' = TRUE
  /\ UNCHANGED <<tcp, mqtt, up, down, broker, others, faults>>

(* The client is told to disconnect; it does so later if the TCP buffer    *)
(* has no room for the packet.                                             *)
OnWifiDisconnected ==
  /\ wifi
  /\ Fault
  /\ wifi' = FALSE
  /\ \/ connected /\ Close /\ OnMqttDisconnect(FALSE)
     \/ /\ ucErr' = "ERR_AP"
        /\ _disconnectFlagged' = connected
        /\ UNCHANGED <<_pcb, peer, up, down, broker, connected, bDisconnected, bMqttSubscribe>>
  /\ UNCHANGED <<dialling, stale, others, tried>>

-----------------------------------------------------------------------------
(* AsyncClient::connect by address; it does nothing while there is a pcb.  *)
Dial == attempts' = IF _pcb THEN attempts ELSE attempts + 1

(* AsyncClient::connect by name.                                           *)
LookUp == lookup' = TRUE /\ UNCHANGED attempts

(* mqttCommunicateSvr, every 30 s while not connected, by address or by    *)
(* name.  That an earlier attempt has not ended by then is a fault.        *)
ConnectToMqtt ==
  /\ wifi
  /\ ~connected \/ bDisconnected
  /\ IF attempts > 0 \/ lookup THEN Fault ELSE Free
  /\ tried' = TRUE
  /\ \/ ~connected /\ Dial /\ UNCHANGED lookup
     \/ ~connected /\ LookUp
     \/ connected /\ UNCHANGED dialling
  /\ UNCHANGED <<screen, _pcb, peer, stale, mqtt, up, down, broker, others>>

(* _dns_found: the address, or none.                                       *)
DnsFound ==
  /\ wifi /\ lookup
  /\ lookup' = FALSE
  /\ Dial
  /\ UNCHANGED <<screen, _pcb, peer, stale, mqtt, up, down, broker, others, tried, faults>>

DnsFails ==
  /\ lookup
  /\ IF wifi THEN Fault ELSE Free
  /\ lookup' = FALSE
  /\ OnMqttDisconnect(wifi)
  /\ UNCHANGED <<wifi, attempts, _pcb, peer, stale, up, down, broker, others, tried>>

(* _onConnect: the packet in its fixed form.                               *)
OnConnect(packets) == Append(packets, "CONNECT")

(* _connected, which calls _onConnect: the new connection is the one in    *)
(* use from now on; of the old one's packets some are still under way.     *)
Connected ==
  /\ wifi /\ attempts > 0
  /\ attempts' = attempts - 1
  /\ _pcb' = TRUE /\ peer' = "alive"
  /\ stale' = IF _pcb THEN stale + 1 ELSE stale
  /\ \E n \in 0 .. Len(up) : up' = OnConnect(SubSeq(up, 1, n))
  /\ UNCHANGED <<screen, lookup, mqtt, down, broker, others, tried, faults>>

(* _error: an attempt gets no answer, and the connection in use goes.      *)
ConnectFails ==
  /\ attempts > 0
  /\ IF wifi THEN Fault ELSE Free
  /\ attempts' = attempts - 1
  /\ Close /\ OnMqttDisconnect(wifi)
  /\ UNCHANGED <<wifi, lookup, stale, others, tried>>

(* _recv: the broker ends an older connection, and _close closes the one   *)
(* in use.                                                                 *)
StaleCloses ==
  /\ stale > 0
  /\ stale' = stale - 1
  /\ IF _pcb THEN Close /\ OnMqttDisconnect(wifi)
     ELSE UNCHANGED <<ucErr, _pcb, peer, mqtt, up, down, broker>>
  /\ UNCHANGED <<wifi, dialling, others, tried, faults>>

(* The other end goes without a word; some packets are lost with it.       *)
Vanish ==
  /\ _pcb /\ peer = "alive"
  /\ Fault
  /\ peer' = "gone"
  /\ down' \in {down, <<>>}
  /\ UNCHANGED <<screen, dialling, _pcb, stale, mqtt, up, broker, others, tried>>

(* Why the connection in use ends: the broker closes one it refused, or    *)
(* one on which the device says nothing; no answer to a ping (_onPoll);    *)
(* TCP gives up on a packet; the DISCONNECT that had to wait goes out.     *)
(* A defect that Reconnects must catch: there are no pings.                *)
EndsNoPing == \/ peer = "refused"
              \/ ~connected /\ peer = "alive" /\ up = <<>> /\ down = <<>>
              \/ peer = "gone" /\ up # <<>>
              \/ _disconnectFlagged

Ends == \/ peer = "refused"
        \/ ~connected /\ peer = "alive" /\ up = <<>> /\ down = <<>>
        \/ peer = "gone" /\ (connected \/ up # <<>>)
        \/ _disconnectFlagged

Closed ==
  /\ _pcb
  /\ Close /\ OnMqttDisconnect(wifi)
  /\ UNCHANGED <<wifi, dialling, stale, others, tried>>

ConnectionEnds == Ends /\ Free /\ Closed

(* Without WiFi the pings and the packets get no answer either.            *)
ConnectionBreaks ==
  /\ IF wifi THEN Fault ELSE (connected \/ up # <<>>) /\ Free
  /\ Closed

-----------------------------------------------------------------------------
CONNACK == <<"connack", 1>>

MqttSubscribe == Append(up, "SUBSCRIBE")

(* onMqttConnect.  The topics are subscribed the first time only.          *)
Accepted(err, step) ==
  /\ wifi
  /\ down # <<>> /\ Head(down) = CONNACK
  /\ down' = Tail(down)
  /\ connected' = TRUE
  /\ bDisconnected' = FALSE
  /\ mqttStep' = step
  /\ bMqttSubscribe' = TRUE
  /\ up' = IF bMqttSubscribe THEN up ELSE MqttSubscribe
  /\ ucErr' = err
  /\ unannounced' = FALSE
  /\ UNCHANGED <<wifi, tcp, _disconnectFlagged, device, sMsg, broker, tried, faults, sent>>

StepOnConnect == IF bDisconnected THEN "SEND_SYSCTRL" ELSE mqttStep

(* Defects that Announced and ErrorMeansOffline must catch: the device     *)
(* does not say ON again in a new connection; ucErr is not cleared.        *)
OnMqttConnectSilent == Accepted("NO_ERR", mqttStep)
OnMqttConnectErr    == Accepted(ucErr, StepOnConnect)

OnMqttConnect == Accepted("NO_ERR", StepOnConnect)

(* _onConnAck with a return code: the TCP connection stays.                *)
Refused ==
  /\ wifi
  /\ down # <<>> /\ Head(down) = CONNACK
  /\ Fault
  /\ down' = Tail(down)
  /\ peer' = "refused"
  /\ OnMqttDisconnect(wifi)
  /\ UNCHANGED <<wifi, dialling, _pcb, stale, up, broker, others, tried>>

-----------------------------------------------------------------------------
(* ON is not sent again if it found no room.                               *)
FuncSendInfo ==
  /\ Online /\ ~bDisconnected
  /\ mqttStep = "SEND_SYSCTRL"
  /\ mqttStep' = "SEND_DATA"
  /\ \/ up' = Append(up, "ON") /\ unannounced' = FALSE /\ Free
     \/ Fault /\ unannounced' = TRUE /\ UNCHANGED up
  /\ UNCHANGED <<screen, tcp, mqtt, device, sMsg, down, broker, tried, sent>>

Pieces(m) == [k \in 1 .. Parts[m] |-> <<m, k>>]

(* The broker takes what the device sent, and the server answers ON.  A    *)
(* CONNECT ends the connection the client had before.                      *)
Serve ==
  /\ wifi /\ peer = "alive"
  /\ up # <<>>
  /\ up' = Tail(up)
  /\ CASE Head(up) = "CONNECT" ->
             down' = Append(down, CONNACK) /\ status' = "OFF" /\ subscribed' = FALSE
       [] Head(up) = "SUBSCRIBE" ->
             subscribed' = TRUE /\ UNCHANGED <<down, status>>
       [] Head(up) = "ON" ->
             /\ status' = "ON"
             /\ down' = IF subscribed THEN down \o Pieces("date") \o Pieces("plan") ELSE down
             /\ UNCHANGED subscribed
  /\ UNCHANGED <<screen, tcp, mqtt, others, tried, faults>>

ServerSendsPlan ==
  /\ sent < MAX_SENT
  /\ sent' = sent + 1
  /\ subscribed /\ peer = "alive"
  /\ down' = down \o Pieces("plan")
  /\ UNCHANGED <<screen, tcp, mqtt, device, mqttStep, sMsg, up, broker, unannounced, tried,
                 faults>>

(* getDateTime and getPlan; what does not parse is thrown away.            *)
Handle(m, whole) ==
  /\ bGetDatetime' = (bGetDatetime \/ (m = "date" /\ whole))
  /\ bGetPlan' = (bGetPlan \/ (m = "plan" /\ whole))
  /\ UNCHANGED <<u8_cnt_restart_mqtt_reason, ucFlagESPRestart>>

(* A piece arrives; the message is handled once enough bytes are there,    *)
(* whatever they are.                                                      *)
Receive(enough) ==
  /\ wifi
  /\ down # <<>> /\ Head(down) # CONNACK
  /\ down' = Tail(down)
  /\ LET m        == Head(down)[1]
         received == Append(sMsg, Head(down))
     IN  IF Len(received) >= enough[m]
         THEN sMsg' = <<>> /\ Handle(m, received = Pieces(m))
         ELSE sMsg' = received /\ UNCHANGED device
  /\ UNCHANGED <<screen, tcp, mqtt, mqttStep, up, broker, unannounced, tried, faults, sent>>

(* A defect that TypeOK must catch: > for >=.                              *)
MqttMessageLate == Receive([m \in DOMAIN Parts |-> Parts[m] + 1])

MqttMessage == Receive(Parts)

-----------------------------------------------------------------------------
(* Three minutes leave time for what is under way on the network, and for  *)
(* an attempt to connect (every 30 s); not always for the pings.           *)
Settled ==
  /\ connected \/ tried
  /\ peer = "alive" => up = <<>> /\ down = <<>>
  /\ attempts = 0 /\ ~lookup
  /\ ~(Online /\ mqttStep = "SEND_SYSCTRL")
  /\ ~ucFlagESPRestart

(* t_60sCallback, every third minute, with check_get_data_from_server.     *)
Tick(n) ==
  /\ Settled
  /\ wifi
  /\ ~bGetDatetime \/ ~bGetPlan
  /\ mqttStep' = "SEND_SYSCTRL"
  /\ tried' = FALSE
  /\ u8_cnt_restart_mqtt_reason' = n
  /\ ucFlagESPRestart' = (n >= RESTART)
  /\ bMqttSubscribe' = (bMqttSubscribe \/ n = RESUBSCRIBE)
  /\ up' = IF n = RESUBSCRIBE /\ connected THEN MqttSubscribe ELSE up
  /\ UNCHANGED <<screen, tcp, connected, _disconnectFlagged, bDisconnected, bGetDatetime,
                 bGetPlan, sMsg, down, broker, unannounced, faults, sent>>

(* A defect that Provisioned must catch: the ticks are not counted.        *)
T60sUncounted == Tick(u8_cnt_restart_mqtt_reason)

T60s == Tick(u8_cnt_restart_mqtt_reason + 1)

(* loop_etc restarts the device.                                           *)
LoopEtc ==
  /\ ucFlagESPRestart
  /\ wifi' = FALSE /\ ucErr' = "NO_ERR"
  /\ lookup' = FALSE /\ attempts' = 0 /\ stale' = 0
  /\ Close
  /\ connected' = FALSE /\ _disconnectFlagged' = FALSE
  /\ bDisconnected' = FALSE /\ bMqttSubscribe' = FALSE /\ mqttStep' = "SEND_SYSCTRL"
  /\ sMsg' = <<>> /\ bGetDatetime' = FALSE /\ bGetPlan' = FALSE
  /\ u8_cnt_restart_mqtt_reason' = 0 /\ ucFlagESPRestart' = FALSE
  /\ unannounced' = FALSE /\ tried' = FALSE
  /\ UNCHANGED <<faults, sent>>

Next == \/ OnWifiConnected \/ OnWifiDisconnected
        \/ ConnectToMqtt \/ DnsFound \/ DnsFails \/ Connected \/ ConnectFails
        \/ StaleCloses \/ Vanish \/ ConnectionEnds \/ ConnectionBreaks
        \/ OnMqttConnect \/ Refused
        \/ FuncSendInfo \/ MqttMessage \/ T60s \/ LoopEtc
        \/ Serve \/ ServerSendsPlan

Spec == Init /\ [][Next]_vars

(* loop() and the timers keep running, the access point, the name server   *)
(* and the broker answer once the faults are over.  The timer of T60s runs *)
(* whatever else happens, only its moments are chosen: hence SF.           *)
FairSpec ==
  /\ Spec
  /\ WF_vars(OnWifiConnected)
  /\ WF_vars(ConnectToMqtt) /\ WF_vars(DnsFound) /\ WF_vars(Connected)
  /\ WF_vars(ConnectionEnds) /\ WF_vars(OnMqttConnect)
  /\ WF_vars(FuncSendInfo) /\ WF_vars(Serve) /\ WF_vars(MqttMessage)
  /\ SF_vars(T60s) /\ WF_vars(LoopEtc)

-----------------------------------------------------------------------------
(* Every variable stays in its range; the client is never connected        *)
(* without a TCP connection; what is left of a message never reaches the   *)
(* length of the longest.                                                  *)
TypeOK ==
  /\ {wifi, lookup, _pcb, connected, _disconnectFlagged, bDisconnected, bMqttSubscribe,
      bGetDatetime, bGetPlan, ucFlagESPRestart, subscribed, unannounced, tried}
       \subseteq BOOLEAN
  /\ ucErr \in {"NO_ERR", "ERR_AP", "ERR_MQTT"}
  /\ peer \in {"alive", "refused", "gone"}
  /\ attempts \in 0 .. MAX_FAULTS + 1 /\ stale \in 0 .. MAX_FAULTS
  /\ mqttStep \in {"SEND_SYSCTRL", "SEND_DATA"}
  /\ status \in {"ON", "OFF"}
  /\ u8_cnt_restart_mqtt_reason \in 0 .. RESTART
  /\ faults \in 0 .. MAX_FAULTS /\ sent \in 0 .. MAX_SENT
  /\ up \in Seq({"CONNECT", "SUBSCRIBE", "ON"})
  /\ down \in Seq({"date", "plan", "connack"} \X Nat)
  /\ sMsg \in Seq({"date", "plan"} \X Nat)
  /\ \E m \in {"date", "plan"} : Len(sMsg) < Parts[m]
  /\ connected => _pcb

(* The error the display shows is never left over from an earlier state of *)
(* the network: while the device is online it shows none.                  *)
ErrorMeansOffline == Online => ucErr = "NO_ERR"

(* Counts are only sent in a connection in which the server was told that  *)
(* the device is ON, after the broker told it OFF for the one before,      *)
(* unless that ON found no room, or this connection pushed out an older    *)
(* one, whose end will end it too.                                         *)
Announced ==
  connected /\ mqttStep = "SEND_DATA" =>
    status = "ON" \/ unannounced \/ Contains(up, "ON") \/ stale > 0

(* README.md:57, "Real-time data synchronization": a connected device that *)
(* has subscribed hears the server.  Not so: the broker forgets the        *)
(* subscriptions with the connection, bMqttSubscribe is never cleared.     *)
HearsTheServer ==
  connected /\ bMqttSubscribe => subscribed \/ Contains(up, "SUBSCRIBE")

(* Once the network works, the device gets date and plan: by the ON it     *)
(* sends, its repetition, the second subscription, or the restart.         *)
Provisioned == <>[](bGetDatetime /\ bGetPlan)

(* The broker took CONNECT and was gone before its answer: there is a pcb, *)
(* so that nothing connects again, and no packet or ping that could tell.  *)
Limbo == _pcb /\ ~connected /\ peer = "gone" /\ up = <<>>

(* Once the network works the device is connected for good, and to a       *)
(* broker that is there, whatever attempts had piled up and whichever      *)
(* connections were half open; only Limbo lasts.                           *)
Reconnects == <>[]((connected /\ peer = "alive") \/ Limbo)
=============================================================================
