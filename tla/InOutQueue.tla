----------------------------- MODULE InOutQueue -----------------------------
(***************************************************************************)
(* The cards read in the in/out mode wait in a ring of ten places until    *)
(* they can be sent, one at a time.  The ring is not persistent and is     *)
(* never looked at for being full.  A card stands for its identifier, its  *)
(* time and the direction the LCD showed, which are stored together; here  *)
(* it is its number.  The operators are named for the queue, to live in    *)
(* one module with those of another component.                             *)
(***************************************************************************)
EXTENDS Naturals, Sequences

CONSTANTS
  INOUT_Q_LEN_BUFF,  (* places of the ring (10)                            *)
  MAX_CARDS          (* where the model stops reading cards                *)

ASSUME QueueAssumption == INOUT_Q_LEN_BUFF \in Nat \ {0} /\ MAX_CARDS \in Nat

VARIABLES
  uid,               (* inOut_mode.uid: what each place holds              *)
  qFont, qRear,      (* the place of the next card, and of the oldest one  *)
  read,              (* history: how many cards were read                  *)
  sent,              (* history: the cards the MQTT client took            *)
  refused            (* history: how many it did not take                  *)

queue == <<uid, qFont, qRear, read, sent, refused>>

Place    == 0 .. INOUT_Q_LEN_BUFF - 1
After(i) == (i + 1) % INOUT_Q_LEN_BUFF

QueueInit ==
  /\ uid = [i \in Place |-> 0]
  /\ qFont = 0 /\ qRear = 0
  /\ read = 0 /\ sent = <<>> /\ refused = 0

(* A defect that CardsReported must catch: the index moves first.          *)
HandleNfcBlankLate ==
  /\ read < MAX_CARDS
  /\ read' = read + 1
  /\ qFont' = After(qFont)
  /\ uid' = [uid EXCEPT ![qFont'] = read']
  /\ UNCHANGED <<qRear, sent, refused>>

(* handle_nfc_blank: a card is put at the front.                           *)
HandleNfcBlank ==
  /\ read < MAX_CARDS
  /\ read' = read + 1
  /\ uid' = [uid EXCEPT ![qFont] = read']
  /\ qFont' = After(qFont)
  /\ UNCHANGED <<qRear, sent, refused>>

(* mqttCommunicateSvr, send_uid_nfc_inout_iot_mode: the oldest is handed   *)
(* to the client.  Its publish may refuse, without a connection or without *)
(* room in the TCP buffer; mqtt_publish drops the result, and the card     *)
(* leaves the ring either way.                                             *)
SendUidNfcInOut ==
  /\ qFont # qRear
  /\ \/ sent' = Append(sent, uid[qRear]) /\ UNCHANGED refused
     \/ refused' = refused + 1 /\ UNCHANGED sent
  /\ qRear' = After(qRear)
  /\ UNCHANGED <<uid, qFont, read>>

QueueNext == HandleNfcBlank \/ SendUidNfcInOut

QueueSpec == QueueInit /\ [][QueueNext]_queue

(* How many cards the two indices tell of.                                 *)
InQueue == (qFont + INOUT_Q_LEN_BUFF - qRear) % INOUT_Q_LEN_BUFF

(* Whatever the order of cards and turns to send, and whatever the client *)
(* refuses: cards are reported in the order they were read and none twice; *)
(* those that wait are the last ones read; and a card is lost in one of    *)
(* two ways only, alone by a publish that was refused, or in a whole round *)
(* of the ring, when the tenth one in a row makes it look empty.           *)
CardsReported ==
  /\ \A i \in 1 .. Len(sent) - 1 : sent[i] < sent[i + 1]
  /\ \A i \in 0 .. InQueue - 1 :
       uid[(qRear + i) % INOUT_Q_LEN_BUFF] = read - InQueue + 1 + i
  /\ (read - Len(sent) - refused - InQueue) % INOUT_Q_LEN_BUFF = 0

=============================================================================
