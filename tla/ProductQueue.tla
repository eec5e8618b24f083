---------------------------- MODULE ProductQueue ----------------------------
(***************************************************************************)
(* The product-data sector of the device: the EEPROM ring of count records *)
(* (addQueue_product_data, delQueue_product_data, dev_IncQfontIdx,         *)
(* dev_IncQrearIdx, reset_production), the output/defect counters kept     *)
(* beside it, their RAM mirror oper.output / oper.defect, and the flash    *)
(* image that control_e2p commits and a restart loads (init_e2p).          *)
(*                                                                         *)
(* loop() writes every byte with a delay(1), in which callbacks run: a     *)
(* handler of loop() is taken apart where a callback or a commit can tell, *)
(* between the RAM counter, the record, the counter and the two indices.   *)
(* A callback runs to its end.  E2pYield has the bytes of the indices and  *)
(* of the record; the time stamp, and the renumbering of the records on a  *)
(* new day, are left to NewDay.                                            *)
(***************************************************************************)
EXTENDS Naturals, Sequences

CONSTANTS
  LEN_Q_BUFF,  (* E2PE_LEN_Q_BUFF, slots of the ring (300 in the firmware) *)
  MAX_PLAN,    (* LEN_JSON_OBJECT_PLAN, processes in a plan (4)            *)
  MAX_COUNT,   (* bound on a counter, so that TLC terminates               *)
  MAX_RECORD,  (* bound on the records ever queued, likewise               *)
  STEPS,       (* what one event adds: a plan's SCALE, or 1 or 5 by NFC    *)
  Blank        (* the content of a slot no record was ever written to      *)

OUTPUT == "OUTPUT"  \* Q_TYPE_OUTPUT
DEFECT == "DEFECT"  \* Q_TYPE_DEFECT

Type   == {OUTPUT, DEFECT}
Plan   == 0 .. MAX_PLAN - 1
Count  == 0 .. MAX_COUNT
Slot   == 0 .. LEN_Q_BUFF - 1
Record == [type : Type, data : Count, plan : Plan]

ASSUME ConstantsAssumption ==
  /\ LEN_Q_BUFF \in Nat /\ LEN_Q_BUFF > 1
  /\ MAX_PLAN \in Nat \ {0}
  /\ MAX_COUNT \in Nat
  /\ MAX_RECORD \in Nat
  /\ STEPS \subseteq Nat \ {0}
  /\ Blank \notin Record

VARIABLES
  front,       (* E2PE_ADR_DATA_Q_FRONT: the slot the next record goes to  *)
  rear,        (* E2PE_ADR_DATA_Q_REAR: the oldest record not yet taken    *)
  slot,        (* the ring itself                                          *)
  cnt,         (* the output and defect counter of every process           *)
  product,     (* oper.output and oper.defect, the current process's in RAM*)
  idx_plan,    (* oper.current_idx_plan, and its copy in the info sector   *)
  process_id,  (* oper.process_id: the process product was loaded for      *)
  len_plan,    (* oper.len_plan, 0 until the server sends the plan         *)
  resetting,   (* between reset_output() and reset_defect() of one key     *)
  flag_info,   (* e2p_info.commit_flag                                     *)
  flag_data,   (* e2p_data.commit_flag                                     *)
  flash,       (* the data sector as last committed                        *)
  flash_idx,   (* current_idx_plan in the info sector as last committed    *)
  pc,          (* where loop() is: what it writes next                     *)
  adding,      (* the record it adds                                       *)
  usQfront,    (* the slot it writes, then the front index it stores       *)
  usQrear,     (* the rear index it stores                                 *)
  corrected,   (* history: counters apart from their newest record, for    *)
               (* the server overwrote them or their record is being added *)
  overtaken,   (* history: types a callback reloaded or set while loop()   *)
               (* had yet to write their counter                           *)
  raced,       (* history: a callback came at a moment that spoils the ring*)
  queued       (* history: records queued so far, up to MAX_RECORD         *)

ring    == <<front, rear, slot>>
shown   == <<product, process_id, overtaken>>
plan    == <<idx_plan, len_plan>>
flags   == <<flag_info, flag_data>>
disk    == <<flash, flash_idx>>
local   == <<pc, adding, usQfront, usQrear>>
vars    == <<ring, cnt, shown, plan, resetting, flags, disk, local, corrected, raced, queued>>

-----------------------------------------------------------------------------
(* A defect that TypeOK must catch: the wrap tested one slot too late.     *)
IncIdxLateWrap(i) == IF i = LEN_Q_BUFF THEN 0 ELSE i + 1

IncIdx(i) == (i + 1) % LEN_Q_BUFF

NoCounts == [p \in Plan |-> [t \in Type |-> 0]]
NoRecord == [type |-> OUTPUT, data |-> 0, plan |-> 0, addr |-> 0, overwritten |-> FALSE]

(* A record is on its way to the ring, up to its front index.              *)
Adding == pc \in {"record", "counter", "counterLow", "front", "frontHalf"}

(* An index is half written, or a full ring looks empty: its front has     *)
(* moved up to the rear that is still to move.                             *)
Torn == pc \in {"frontHalf", "drop", "dropHalf", "takeHalf"}

Erased == [init |-> FALSE, front |-> 0, rear |-> 0, slot |-> [i \in Slot |-> Blank],
           cnt |-> NoCounts, corrected |-> {}, raced |-> FALSE]

Image == [init |-> TRUE, front |-> front, rear |-> rear, slot |-> slot,
          cnt |-> cnt, corrected |-> corrected, raced |-> raced \/ Torn]

Idle == pc' = "idle" /\ adding' = NoRecord /\ usQfront' = 0 /\ usQrear' = 0

(* What a boot makes of a flash image.  A sector without its init code is  *)
(* reset: counters and ring empty, the slots left as they were.            *)
Boot(img, i) ==
  /\ front'      = img.front
  /\ rear'       = img.rear
  /\ slot'       = img.slot
  /\ cnt'        = img.cnt
  /\ corrected'  = img.corrected
  /\ raced'      = img.raced
  /\ product'    = img.cnt[i]
  /\ overtaken'  = {}
  /\ idx_plan'   = i
  /\ process_id' = i
  /\ len_plan'   = 0
  /\ resetting'  = FALSE
  /\ flag_data'  = ~img.init
  /\ Idle

Init ==
  /\ front = 0 /\ rear = 0
  /\ slot = [i \in Slot |-> Blank]
  /\ cnt = NoCounts
  /\ product = [t \in Type |-> 0]
  /\ idx_plan = 0 /\ process_id = 0 /\ len_plan = 0
  /\ resetting = FALSE
  /\ flag_info = TRUE /\ flag_data = TRUE
  /\ flash = Erased /\ flash_idx = 0
  /\ pc = "idle" /\ adding = NoRecord /\ usQfront = 0 /\ usQrear = 0
  /\ corrected = {} /\ overtaken = {} /\ raced = FALSE
  /\ queued = 0

-----------------------------------------------------------------------------
(* loop() sets the RAM counter and begins a record of the new value.       *)
SetProduct(t, d) ==
  /\ pc = "idle"
  /\ d \in Count
  /\ queued < MAX_RECORD
  /\ product' = [product EXCEPT ![t] = d]
  /\ overtaken' = overtaken \ {t}
  /\ adding' = [NoRecord EXCEPT !.type = t, !.data = d]
  /\ usQfront' = front
  /\ pc' = "record"
  /\ UNCHANGED <<ring, cnt, process_id, plan, flags, disk, usQrear, corrected, raced, queued>>

(* The teaching sequence completed, the button, or an NFC tag.             *)
IncreaseOutput ==
  /\ ~resetting
  /\ \E s \in STEPS : SetProduct(OUTPUT, product[OUTPUT] + s)
  /\ UNCHANGED resetting

(* An NFC tag that takes one piece back.                                   *)
DecreaseOutput ==
  /\ ~resetting
  /\ product[OUTPUT] > 0
  /\ SetProduct(OUTPUT, product[OUTPUT] - 1)
  /\ UNCHANGED resetting

(* The set-up page resets the output, then the defects.                    *)
ResetOutput ==
  /\ ~resetting
  /\ SetProduct(OUTPUT, 0)
  /\ resetting' = TRUE

ResetDefect ==
  /\ resetting
  /\ SetProduct(DEFECT, 0)
  /\ resetting' = FALSE

InLoop == UNCHANGED <<plan, resetting, flags, disk, raced>>

(* addQueue_product_data: the slot is filled, its process last.            *)
WriteRecord ==
  /\ pc = "record"
  /\ slot' = [slot EXCEPT ![usQfront] =
                 [type |-> adding.type, data |-> adding.data, plan |-> idx_plan]]
  /\ adding' = [adding EXCEPT !.plan = idx_plan]
  /\ pc' = "counter"
  /\ InLoop /\ UNCHANGED <<front, rear, cnt, shown, usQfront, usQrear, corrected, queued>>

(* The address is that of the process current now; while the four bytes    *)
(* are written, the counter is any mixture.                                *)
WriteCounterHigh ==
  /\ pc = "counter"
  /\ adding' = [adding EXCEPT !.addr = idx_plan]
  /\ \E mixture \in Count : cnt' = [cnt EXCEPT ![idx_plan][adding.type] = mixture]
  /\ corrected' = corrected \cup {<<idx_plan, adding.type>>, <<adding.plan, adding.type>>}
  /\ pc' = "counterLow"
  /\ InLoop /\ UNCHANGED <<ring, shown, usQfront, usQrear, queued>>

(* Then dev_IncQfontIdx reads the front index again.                       *)
WriteCounterLow ==
  /\ pc = "counterLow"
  /\ \E d \in Count :
       /\ ~adding.overwritten => d = adding.data
       /\ cnt' = [cnt EXCEPT ![adding.addr][adding.type] = d]
  /\ usQfront' = IncIdx(front)
  /\ pc' = "front"
  /\ InLoop /\ UNCHANGED <<ring, shown, adding, usQrear, corrected, queued>>

(* write_16: between its bytes the index is neither the old nor the new    *)
(* one, when the high byte changes.                                        *)
WriteFrontHigh ==
  /\ pc = "front"
  /\ pc' = "frontHalf"
  /\ InLoop
  /\ UNCHANGED <<ring, cnt, shown, adding, usQfront, usQrear, corrected, queued>>

PutRecord ==
  /\ pc \in {"front", "frontHalf"}
  /\ queued' = queued + 1
  /\ front' = usQfront
  /\ corrected' = IF adding.plan = adding.addr /\ ~adding.overwritten
                    THEN corrected \ {<<adding.plan, adding.type>>} ELSE corrected
  /\ InLoop /\ UNCHANGED <<rear, slot, cnt, shown>>

(* A defect that ImplementsFifo must catch: a full ring that looks empty.  *)
WriteFrontNoDrop == PutRecord /\ Idle

(* The record is in the ring; the oldest gives way if the ring is full.    *)
WriteFront ==
  /\ PutRecord
  /\ IF usQfront = rear
       THEN pc' = "drop" /\ usQrear' = IncIdx(rear) /\ UNCHANGED <<adding, usQfront>>
       ELSE Idle

(* SEND_DATA_OUTPUT reads the oldest record and moves on.                  *)
Dequeue ==
  /\ pc = "idle"
  /\ ~resetting
  /\ len_plan > 0
  /\ front # rear
  /\ usQrear' = IncIdx(rear)
  /\ pc' = "take"
  /\ InLoop /\ UNCHANGED <<ring, cnt, shown, adding, usQfront, corrected, queued>>

WriteRearHigh ==
  /\ \/ pc = "drop" /\ pc' = "dropHalf"
     \/ pc = "take" /\ pc' = "takeHalf"
  /\ InLoop
  /\ UNCHANGED <<ring, cnt, shown, adding, usQfront, usQrear, corrected, queued>>

WriteRear ==
  /\ pc \in {"drop", "dropHalf", "take", "takeHalf"}
  /\ rear' = usQrear
  /\ Idle
  /\ InLoop /\ UNCHANGED <<front, slot, cnt, shown, corrected, queued>>

(* disp_changeProc: the next process of the plan, stored with a delay(1).  *)
ChangeProcess ==
  /\ pc = "idle"
  /\ ~resetting
  /\ len_plan > 0
  /\ idx_plan' = (idx_plan + 1) % len_plan
  /\ pc' = "reload"
  /\ UNCHANGED <<ring, cnt, shown, len_plan, resetting, flags, disk, adding, usQfront, usQrear,
                 corrected, raced, queued>>

(* What loop() has yet to write of the counters of process p, if p is the  *)
(* current one.                                                            *)
Pending(p) ==
  IF pc \in {"record", "counter"} \/ (pc = "counterLow" /\ p = adding.addr)
    THEN {adding.type} ELSE {}

(* update_product_current_process_id: the counters of the process are      *)
(* loaded into oper.output and oper.defect.                                *)
UpdateProduct ==
  /\ product' = cnt[idx_plan']
  /\ process_id' = idx_plan'
  /\ overtaken' = Pending(idx_plan')

(* A defect that DisplayMatchesMemory must catch: the counters not loaded. *)
ReloadNothing ==
  /\ pc = "reload"
  /\ Idle
  /\ flag_info' = TRUE
  /\ UNCHANGED <<ring, cnt, shown, plan, resetting, flag_data, disk, corrected, raced, queued>>

(* disp_changeProc goes on: its counters are shown.                        *)
Reload ==
  /\ pc = "reload"
  /\ idx_plan' = idx_plan
  /\ UpdateProduct
  /\ Idle
  /\ flag_info' = TRUE
  /\ UNCHANGED <<ring, cnt, len_plan, resetting, flag_data, disk, corrected, raced, queued>>

-----------------------------------------------------------------------------
(* Callbacks.  They find loop() at any point of its handlers.              *)

(* The counter a callback writes is the one loop() is writing, or wrote    *)
(* and has no record in the ring for.                                      *)
Under(p, t) ==
  pc \in {"counterLow", "front", "frontHalf"} /\ adding.addr = p /\ adding.type = t

Overwrite(p, t) == adding' = [adding EXCEPT !.overwritten = @ \/ Under(p, t)]

DevIncQfontIdx ==
  /\ front' = IncIdx(front)
  /\ rear'  = IF IncIdx(front) = rear THEN IncIdx(rear) ELSE rear

AddQueueProductData(t, d) ==
  /\ queued + (IF Adding THEN 1 ELSE 0) < MAX_RECORD
  /\ queued' = queued + 1
  /\ slot' = [slot EXCEPT ![front] = [type |-> t, data |-> d, plan |-> idx_plan]]
  /\ cnt'  = [cnt EXCEPT ![idx_plan][t] = d]
  /\ corrected' = corrected \ {<<idx_plan, t>>}
  /\ DevIncQfontIdx

(* The server sets a counter of the process shown.  A record added under   *)
(* the one of loop() shares its slot; while loop() takes a record it does  *)
(* no harm, unless the ring overflows and moves the index loop() moves.    *)
UpdateCount ==
  /\ len_plan > 0
  /\ \E t \in Type, d \in Count :
       /\ product' = [product EXCEPT ![t] = d]
       /\ AddQueueProductData(t, d)
       /\ Overwrite(idx_plan, t)
       /\ overtaken' = (overtaken \ {t}) \cup (Pending(idx_plan) \cap {t})
  /\ raced' = (raced \/ Adding \/ Torn \/ (pc = "take" /\ rear' # rear))
  /\ UNCHANGED <<process_id, plan, resetting, flags, disk, pc, usQfront, usQrear>>

(* The server sets a counter of another process.  Whatever its type, the   *)
(* value goes to the output counter, and the event is published at once    *)
(* instead of being queued.                                                *)
UpdateCountOther ==
  \E p \in Plan \ {process_id}, d \in Count :
    /\ p < len_plan
    /\ cnt' = [cnt EXCEPT ![p][OUTPUT] = d]
    /\ corrected' = corrected \cup {<<p, OUTPUT>>}
    /\ Overwrite(p, OUTPUT)
    /\ UNCHANGED <<ring, shown, plan, resetting, flags, disk, pc, usQfront, usQrear, raced,
                   queued>>

(* A plan; a process index it does not have becomes 0.                     *)
GetPlan ==
  \E n \in 1 .. MAX_PLAN :
    /\ len_plan' = n
    /\ idx_plan' = IF idx_plan >= n THEN 0 ELSE idx_plan
    /\ UpdateProduct
    /\ UNCHANGED <<ring, cnt, resetting, flags, disk, local, corrected, raced, queued>>

(* A defect that RingMatchesCounters must catch: the ring not emptied.     *)
EmptyRingNot == UNCHANGED <<front, rear>>

EmptyRing == rear' = 0 /\ front' = 0

(* A new day, or machine times that make no sense.                         *)
ResetProduction ==
  /\ product' = [t \in Type |-> 0]
  /\ overtaken' = Pending(idx_plan)
  /\ cnt' = NoCounts
  /\ EmptyRing
  /\ flag_info' = TRUE /\ flag_data' = TRUE
  /\ corrected' = {}
  /\ raced' = (pc \notin {"idle", "reload"})
  /\ adding' = [adding EXCEPT !.overwritten = @ \/ pc = "counterLow"]
  /\ UNCHANGED <<slot, process_id, plan, resetting, disk, pc, usQfront, usQrear, queued>>

(* Timer callback, every 60 s: everything is to be committed.              *)
RequestCommit ==
  /\ flag_info' = TRUE /\ flag_data' = TRUE
  /\ UNCHANGED <<ring, cnt, shown, plan, resetting, disk, local, corrected, raced, queued>>

(* Timer callback, every 1 s: one sector a time, info before data.  The    *)
(* flag is gone even if the commit fails.                                  *)
CommitInfo ==
  /\ flag_info
  /\ flag_info' = FALSE
  /\ flash_idx' \in {idx_plan, flash_idx}
  /\ UNCHANGED <<ring, cnt, shown, plan, resetting, flag_data, flash, local, corrected, raced,
                 queued>>

CommitData ==
  /\ ~flag_info
  /\ flag_data
  /\ flag_data' = FALSE
  /\ flash' \in {Image, flash}
  /\ UNCHANGED <<ring, cnt, shown, plan, resetting, flag_info, flash_idx, local, corrected,
                 raced, queued>>

(* Power fails, or the firmware restarts: only the flash survives.         *)
PowerLoss ==
  /\ Boot(flash, flash_idx)
  /\ flag_info' \in BOOLEAN
  /\ UNCHANGED <<disk, queued>>

(* Power fails while a sector, erased, is being rewritten.                 *)
PowerLossInCommit ==
  /\ \/ /\ flag_info
        /\ flash_idx' = 0
        /\ UNCHANGED flash
     \/ /\ ~flag_info
        /\ flag_data
        /\ flash' = Erased
        /\ UNCHANGED flash_idx
  /\ Boot(flash', flash_idx')
  /\ flag_info' \in BOOLEAN
  /\ UNCHANGED queued

LoopBegins   == IncreaseOutput \/ DecreaseOutput \/ ResetOutput \/ ResetDefect
                  \/ ChangeProcess \/ Dequeue
LoopGoesOn   == WriteRecord \/ WriteCounterHigh \/ WriteCounterLow \/ WriteFrontHigh
                  \/ WriteFront \/ WriteRearHigh \/ WriteRear \/ Reload
CallbackStep == UpdateCount \/ UpdateCountOther \/ GetPlan \/ ResetProduction
                  \/ RequestCommit \/ CommitInfo \/ CommitData

Next == LoopBegins \/ LoopGoesOn \/ CallbackStep \/ PowerLoss \/ PowerLossInCommit

Spec == Init /\ [][Next]_vars

-----------------------------------------------------------------------------
(* The records between rear and front, oldest first, of the ring in RAM or *)
(* of a flash image.                                                       *)
Used(f, r)     == IF f >= r THEN f - r ELSE f + LEN_Q_BUFF - r
Pos(r, i)      == IF r + i <= LEN_Q_BUFF THEN r + i - 1 ELSE r + i - 1 - LEN_Q_BUFF
Queue(f, r, s) == [i \in 1 .. Used(f, r) |-> s[Pos(r, i)]]

Pair == Plan \X Type

ImageType ==
  [init : BOOLEAN, front : Slot, rear : Slot, slot : [Slot -> Record \cup {Blank}],
   cnt : [Plan -> [Type -> Count]], corrected : SUBSET Pair, raced : BOOLEAN]

(* Every variable stays in its range: the indices inside the ring, the     *)
(* process index inside the plan.                                          *)
TypeOK ==
  /\ front \in Slot /\ rear \in Slot
  /\ slot \in [Slot -> Record \cup {Blank}]
  /\ cnt \in [Plan -> [Type -> Count]]
  /\ product \in [Type -> Count]
  /\ idx_plan \in Plan /\ process_id \in Plan /\ len_plan \in 0 .. MAX_PLAN
  /\ resetting \in BOOLEAN
  /\ flag_info \in BOOLEAN /\ flag_data \in BOOLEAN
  /\ flash \in ImageType /\ flash_idx \in Plan
  /\ pc \in {"idle", "record", "counter", "counterLow", "front", "frontHalf",
            "drop", "dropHalf", "take", "takeHalf", "reload"}
  /\ adding \in [type : Type, data : Count, plan : Plan, addr : Plan, overwritten : BOOLEAN]
  /\ usQfront \in Slot /\ usQrear \in Slot
  /\ corrected \in SUBSET Pair /\ overtaken \in SUBSET Type /\ raced \in BOOLEAN
  /\ queued \in 0 .. MAX_RECORD

(* What the display shows is what the EEPROM holds: oper.output and        *)
(* oper.defect equal the counters of the current process, through changes  *)
(* of process, new plans, server corrections and restarts, and with a      *)
(* callback at any yield.  Excepted are the counter loop() is about to     *)
(* write, and one that a plan, a correction or a reset overtook there,     *)
(* until it is counted or loaded anew.                                     *)
DisplayMatchesMemory ==
  \A t \in Type \ overtaken :
    \/ product[t] = cnt[idx_plan][t]
    \/ pc \in {"record", "counter", "counterLow"} /\ t = adding.type
    \/ pc = "reload"

(* Ring and counters tell one story: the newest queued record of a process *)
(* and type carries the value of that counter, unless the counter is known *)
(* to be apart.                                                            *)
NewestIsCounter(q, c, k) ==
  \A i \in DOMAIN q :
    \/ \E j \in DOMAIN q : /\ j > i
                           /\ q[j].plan = q[i].plan /\ q[j].type = q[i].type
    \/ q[i].data = c[q[i].plan][q[i].type]
    \/ <<q[i].plan, q[i].type>> \in k

(* They do in RAM, and they do in flash: whenever power fails, a restart   *)
(* finds no counter ahead of or behind its records, but the one whose      *)
(* record was being added at the commit, and those the server corrected    *)
(* without a record or a plan moved to another process half way.  No       *)
(* promise is made for a ring a callback raced with, nor for the image of  *)
(* a commit between the bytes of an index.                                 *)
RingMatchesCounters ==
  /\ raced \/ NewestIsCounter(Queue(front, rear, slot), cnt, corrected)
  /\ flash.raced \/ NewestIsCounter(Queue(flash.front, flash.rear, flash.slot),
                                    flash.cnt, flash.corrected)

(* The oldest record, once a newer one has pushed it out.                  *)
RearSeen == IF pc \in {"drop", "dropHalf"} THEN usQrear ELSE rear

(* The ring is a bounded FIFO that drops its oldest record when full, and  *)
(* whose committed copy is what a restart resumes from, as long as no      *)
(* callback and no commit came at a moment that spoils it.                 *)
Fifo == INSTANCE LossyFifo WITH
          Capacity   <- LEN_Q_BUFF - 1,
          fifo       <- Queue(front, RearSeen, slot),
          exact      <- ~raced,
          saved      <- Queue(flash.front, flash.rear, flash.slot),
          savedExact <- ~flash.raced,
          accepted   <- queued

ImplementsFifo == Fifo!Spec
=============================================================================
