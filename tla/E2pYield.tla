------------------------------ MODULE E2pYield ------------------------------
(***************************************************************************)
(* The ring of ProductQueue, taken apart where it really yields: every     *)
(* byte Fun_e2p writes comes with a delay(1), in which timer and MQTT      *)
(* callbacks run to completion.  loop() adds and takes records in steps    *)
(* from one delay to the next; updateCount, reset_production and the       *)
(* commit of control_e2p come in between.                                  *)
(*                                                                         *)
(* A record is a pair of halves, so that a mixture of two records shows;   *)
(* an index is two bytes, to base BASE.  kept is what the buffer should    *)
(* hold if every handler were atomic.                                      *)
(***************************************************************************)
EXTENDS Naturals, Sequences

CONSTANTS
  LEN_Q_BUFF,     (* slots of the ring (300)                               *)
  BASE,           (* values of a byte (256)                                *)
  MAX_RECORD,     (* bound on the records made                             *)
  MAX_BATCH,      (* records in one updateCount message (at most 4)        *)
  MAX_CALLBACKS,  (* bound on the callbacks that change the ring           *)
  MAX_LOSSES      (* bound on the power losses                             *)

ASSUME YieldAssumption ==
  /\ LEN_Q_BUFF \in Nat /\ LEN_Q_BUFF > 1
  /\ BASE \in Nat /\ BASE > 1 /\ LEN_Q_BUFF <= BASE * BASE
  /\ {MAX_RECORD, MAX_BATCH, MAX_CALLBACKS, MAX_LOSSES} \subseteq Nat

VARIABLES
  front, rear, slot,  (* the EEPROM image in RAM                           *)
  flash,              (* the sector as last committed                      *)
  pc,                 (* where loop() is: the write the next step makes    *)
  usQfront,           (* its copy of the front index: first the slot it    *)
                      (* writes, then the index it stores                  *)
  usQrear,            (* the rear index it stores                          *)
  made,               (* records made so far                               *)
  mine,               (* the one loop() adds                               *)
  kept,               (* history: what the buffer should hold              *)
  entries,            (* of an updateCount message, still to be added      *)
  raced,              (* history: a callback came at a bad moment          *)
  callbacks, losses   (* counters for MAX_CALLBACKS and MAX_LOSSES         *)

image == <<front, rear, slot>>
local == <<pc, usQfront, usQrear, mine>>
vars  == <<image, flash, local, made, kept, entries, raced, callbacks, losses>>

Whole(n) == <<n, n>>

(* A defect that TypeOK must catch: the index wraps one slot late.         *)
IncLateWrap(q) == (q + 1) % (LEN_Q_BUFF + 1)

Inc(q) == (q + 1) % LEN_Q_BUFF

(* The index before index q.                                               *)
Dec(q) == (q + LEN_Q_BUFF - 1) % LEN_Q_BUFF

(* What the buffer should hold after one more record: the oldest gives way *)
(* when all slots but one are taken.                                       *)
Keep(records, r) ==
  IF Len(records) = LEN_Q_BUFF - 1 THEN Append(Tail(records), r) ELSE Append(records, r)

Init ==
  /\ front = 0 /\ rear = 0 /\ slot = [q \in 0 .. LEN_Q_BUFF - 1 |-> Whole(0)]
  /\ flash = [front |-> 0, rear |-> 0, slot |-> slot, kept |-> <<>>, raced |-> FALSE]
  /\ pc = "idle" /\ usQfront = 0 /\ usQrear = 0 /\ mine = 0
  /\ made = 0 /\ kept = <<>> /\ entries = 0 /\ raced = FALSE
  /\ callbacks = 0 /\ losses = 0

-----------------------------------------------------------------------------
(* Fun_e2p::write_16 is two steps, the high byte first.                    *)
High(old, new) == (new \div BASE) * BASE + (old % BASE)
Low(old, new)  == (old \div BASE) * BASE + (new % BASE)

(* EEPROM.write ignores an address beyond the sector.                      *)
Put(s, q, half, n) ==
  IF q < LEN_Q_BUFF THEN [s EXCEPT ![q][half] = n] ELSE s

Unchanged == UNCHANGED <<flash, raced, callbacks, losses>>

(* addQueue_product_data: the index is read, then the record written.      *)
AddQueue ==
  /\ pc = "idle"
  /\ made < MAX_RECORD
  /\ made' = made + 1 /\ mine' = made + 1
  /\ usQfront' = front
  /\ pc' = "record1"
  /\ Unchanged /\ UNCHANGED <<image, usQrear, kept>>

WriteRecord1 ==
  /\ pc = "record1"
  /\ slot' = Put(slot, usQfront, 1, mine)
  /\ pc' = "record2"
  /\ Unchanged /\ UNCHANGED <<front, rear, usQfront, usQrear, mine, made, kept>>

WriteRecord2 ==
  /\ pc = "record2"
  /\ slot' = Put(slot, usQfront, 2, mine)
  /\ pc' = "counter"
  /\ Unchanged /\ UNCHANGED <<front, rear, usQfront, usQrear, mine, made, kept>>

(* After the counter's last byte, dev_IncQfontIdx reads the index again.   *)
WriteCounter ==
  /\ pc = "counter"
  /\ usQfront' = Inc(front)
  /\ pc' = "frontHigh"
  /\ Unchanged /\ UNCHANGED <<image, usQrear, mine, made, kept>>

WriteFrontHigh ==
  /\ pc = "frontHigh"
  /\ front' = High(front, usQfront)
  /\ pc' = "frontLow"
  /\ Unchanged /\ UNCHANGED <<rear, slot, usQfront, usQrear, mine, made, kept>>

FrontLow(overflow) ==
  /\ pc = "frontLow"
  /\ front' = Low(front, usQfront)
  /\ kept' = Keep(kept, Whole(mine))
  /\ IF overflow THEN usQrear' = Inc(rear) /\ pc' = "rearHigh"
                 ELSE pc' = "idle" /\ UNCHANGED usQrear
  /\ Unchanged /\ UNCHANGED <<rear, slot, usQfront, mine, made>>

(* A defect that BufferedUnlessRaced must catch: a full ring is compared   *)
(* before the front index has moved.                                       *)
WriteFrontLowEarly == FrontLow(front = rear)

(* The record is in the ring; the oldest gives way if the ring is full.    *)
WriteFrontLow == FrontLow(usQfront = rear)

(* SEND_DATA_OUTPUT: the record is read at once, dev_IncQrearIdx yields.   *)
Dequeue ==
  /\ pc = "idle"
  /\ front # rear
  /\ usQrear' = Inc(rear)
  /\ pc' = "rearHigh"
  /\ mine' = 0
  /\ Unchanged /\ UNCHANGED <<image, usQfront, made, kept>>

WriteRearHigh ==
  /\ pc = "rearHigh"
  /\ rear' = High(rear, usQrear)
  /\ pc' = "rearLow"
  /\ Unchanged /\ UNCHANGED <<front, slot, usQfront, usQrear, mine, made, kept>>

WriteRearLow ==
  /\ pc = "rearLow"
  /\ rear' = Low(rear, usQrear)
  /\ pc' = "idle"
  /\ kept' = IF mine = 0 /\ kept # <<>> THEN Tail(kept) ELSE kept
  /\ Unchanged /\ UNCHANGED <<front, slot, usQfront, usQrear, mine, made>>

Loop == \/ AddQueue \/ WriteRecord1 \/ WriteRecord2 \/ WriteCounter
        \/ WriteFrontHigh \/ WriteFrontLow
        \/ Dequeue \/ WriteRearHigh \/ WriteRearLow

-----------------------------------------------------------------------------
(* An index is half written, or a full ring looks empty: its front has     *)
(* moved up to the rear that is still to move.                             *)
Torn ==
  \/ pc = "frontLow" /\ front # Dec(usQfront)
  \/ pc = "rearLow" /\ rear # Dec(usQrear)
  \/ pc \in {"rearHigh", "rearLow"} /\ front = rear

CallbackMayRun == callbacks < MAX_CALLBACKS /\ callbacks' = callbacks + 1

(* updateCount comes with up to MAX_BATCH entries of the current process.  *)
UpdateCount ==
  /\ entries = 0
  /\ CallbackMayRun
  /\ entries' \in 1 .. MAX_BATCH
  /\ made + entries' <= MAX_RECORD
  /\ UNCHANGED <<image, flash, local, made, kept, raced, losses>>

(* Each is a whole addQueue_product_data; in a callback nothing yields.    *)
AddEntry ==
  /\ entries > 0
  /\ entries' = entries - 1
  /\ made' = made + 1
  /\ slot' = Put(Put(slot, front, 1, made'), front, 2, made')
  /\ front' = Inc(front)
  /\ rear' = IF front' = rear THEN Inc(rear) ELSE rear
  /\ kept' = Keep(kept, Whole(made'))
  /\ raced' = (raced \/ Torn \/ (pc # "idle" /\ (mine # 0 \/ rear' # rear)))
  /\ UNCHANGED <<local, flash, callbacks, losses>>

(* resetDataWhenNewDay at the t_300s timer: reset_production empties it.   *)
ResetProduction ==
  /\ CallbackMayRun
  /\ front' = 0 /\ rear' = 0 /\ kept' = <<>>
  /\ raced' = (raced \/ pc # "idle")
  /\ UNCHANGED <<slot, local, flash, made, losses>>

(* control_e2p commits the sector, whatever loop() is doing.               *)
CommitData ==
  /\ flash' = [front |-> front, rear |-> rear, slot |-> slot, kept |-> kept,
               raced |-> raced \/ Torn]
  /\ UNCHANGED <<image, local, made, kept, raced, callbacks, losses>>

PowerLoss ==
  /\ losses < MAX_LOSSES
  /\ losses' = losses + 1
  /\ front' = flash.front /\ rear' = flash.rear /\ slot' = flash.slot
  /\ kept' = flash.kept /\ raced' = flash.raced
  /\ pc' = "idle" /\ usQfront' = 0 /\ usQrear' = 0 /\ mine' = 0
  /\ UNCHANGED <<flash, made, callbacks>>

(* A message is dealt with to its last entry before anything else runs.    *)
Next ==
  \/ entries = 0 /\ (Loop \/ ResetProduction \/ CommitData \/ PowerLoss) /\ UNCHANGED entries
  \/ UpdateCount
  \/ AddEntry

Spec == Init /\ [][Next]_vars

-----------------------------------------------------------------------------
Sector == [front : 0 .. BASE * BASE - 1, rear : 0 .. BASE * BASE - 1,
           slot : [0 .. LEN_Q_BUFF - 1 -> (0 .. MAX_RECORD) \X (0 .. MAX_RECORD)]]

(* Every variable stays in its range: the indices fit into two bytes, but  *)
(* see IndicesInRing.                                                      *)
TypeOK ==
  /\ [front |-> front, rear |-> rear, slot |-> slot] \in Sector
  /\ [front |-> flash.front, rear |-> flash.rear, slot |-> flash.slot] \in Sector
  /\ pc \in {"idle", "record1", "record2", "counter", "frontHigh", "frontLow", "rearHigh",
            "rearLow"}
  /\ usQfront \in 0 .. BASE * BASE - 1 /\ usQrear \in 0 .. LEN_Q_BUFF - 1
  /\ made \in 0 .. MAX_RECORD /\ mine \in 0 .. MAX_RECORD /\ entries \in 0 .. MAX_BATCH
  /\ Len(kept) < LEN_Q_BUFF
  /\ callbacks \in 0 .. MAX_CALLBACKS /\ losses \in 0 .. MAX_LOSSES

IndicesInRing == front < LEN_Q_BUFF /\ rear < LEN_Q_BUFF

Contents ==
  [i \in 1 .. (front + LEN_Q_BUFF - rear) % LEN_Q_BUFF |-> slot[(rear + i - 1) % LEN_Q_BUFF]]

HoldsKept == pc = "idle" => IndicesInRing /\ Contents = kept

(* The buffer holds every record once, whole and in order, after any       *)
(* sequence of yields, callbacks, commits and power losses, unless a       *)
(* callback added a record under addQueue_product_data, moved the index    *)
(* that dev_IncQrearIdx is moving, or came, or committed, while an index   *)
(* was half written or a full ring looked empty.                           *)
BufferedUnlessRaced == ~raced => HoldsKept

=============================================================================
