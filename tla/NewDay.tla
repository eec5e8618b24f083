------------------------------- MODULE NewDay -------------------------------
(***************************************************************************)
(* The change of day.  A device without a battery-backed clock counts into *)
(* the EEPROM ring before it knows the date; when the server's date-time   *)
(* arrives (getDateTime) the records made since the boot are stamped anew  *)
(* (updateTimeEEPROM), and if the last reset was on an earlier day the     *)
(* ring and the counters start over (resetDataWhenNewDay), as they do when *)
(* a 300 s timer notices the day itself.  What a reset did is committed in *)
(* two steps, the day to the info sector and a second later the data.      *)
(*                                                                         *)
(* loop() adds a record in steps, with callbacks and commits in between:   *)
(* the date may arrive after the stamp was read and before the record is   *)
(* in the ring.  The bytes of a counter and of the indices, failing        *)
(* commits and erased sectors are in ProductQueue and E2pYield; here a     *)
(* commit or a date may find the index being written half written.         *)
(***************************************************************************)
EXTENDS Naturals, FiniteSets

CONSTANTS
  LEN_Q_BUFF,  (* E2PE_LEN_Q_BUFF                                          *)
  MAX_PLAN,    (* LEN_JSON_OBJECT_PLAN                                     *)
  TYPES,       (* Q_TYPE_OUTPUT, Q_TYPE_DEFECT                             *)
  VALUES,      (* the counts that records are made with                    *)
  MAX_RECORD,  (* bound on the records ever queued                         *)
  DAYS,        (* bound on the days that pass, counted from 1              *)
  START,       (* where the ring stands when the device is first observed  *)
  PLANS,       (* the lengths of the plans the server sends                *)
  CONFIGS,     (* what the server says of daily_product_reset              *)
  Blank        (* the content of a slot no record was ever written to      *)

Slot  == 0 .. LEN_Q_BUFF - 1
Plan  == 0 .. MAX_PLAN - 1
Count == VALUES \cup 0 .. LEN_Q_BUFF
Day   == 1 .. DAYS
Unset == 0     \* 1970
Pair  == Plan \X TYPES

Record == [type : TYPES, data : Count, plan : Plan,
           day : Day \cup {Unset},   \* the stamp in the record
           made : Day,               \* history: the day it was really made
           fresh : BOOLEAN]          \* history: made since the last boot

ASSUME ConstantsAssumption ==
  /\ LEN_Q_BUFF \in Nat /\ LEN_Q_BUFF > 1
  /\ MAX_PLAN \in Nat \ {0} /\ DAYS \in Nat \ {0}
  /\ MAX_RECORD \in Nat
  /\ START \in Slot
  /\ PLANS \subseteq 1 .. MAX_PLAN
  /\ CONFIGS \subseteq BOOLEAN /\ CONFIGS # {}
  /\ Blank \notin Record

ASSUME ValuesAssumption == \A v \in VALUES : v \in Nat /\ v < 65536

VARIABLES
  today, late,           (* the true day; is it past TIME_HOUR_RST_NEW_DAY *)
  bGetDatetime,          (* the device's clock has been set                *)
  len_plan,              (* oper.len_plan                                  *)
  idx_plan,              (* oper.current_idx_plan                          *)
  daily_product_reset,   (* the server's configuration                     *)
  check_data_machine,    (* a check of the machine times is due            *)
  day_reset,             (* E2PE_ADR_DAY_RESET, E2PE_ADR_MON_RESET         *)
  front, rear, slot, cnt,(* the data sector, as in ProductQueue            *)
  usQFontStart,          (* front at the boot                              *)
  flag_info, flag_data,  (* the sectors' commit flags                      *)
  flash_info, flash_data,(* the sectors as last committed                  *)
  pc,                    (* where loop() is: what it writes next           *)
  adding,                (* the record it adds, Blank if none              *)
  usQfront, usQrear,     (* the index it writes to, or stores              *)
  data_day,              (* history: the day of the reset the data reflect *)
  slipped,               (* history: front passed the end of the ring, or  *)
                         (* the ring was emptied, before the clock was set *)
  scrambled,             (* history: the counters were recomputed while    *)
                         (* front lay below usQFontStart                   *)
  apart,                 (* history: counters without their newest record  *)
  overtaken,             (* history: slots whose stamp may be wrong, for   *)
                         (* the date came, or changed, before their record *)
                         (* was in the ring                                *)
  raced,                 (* history: a callback changed the ring while     *)
                         (* loop() did, or met a half-written index        *)
  queued                 (* history: records queued so far                 *)

time   == <<today, late>>
config == <<len_plan, idx_plan, daily_product_reset>>
ring   == <<front, rear, slot>>
local  == <<pc, adding, usQfront, usQrear>>
data   == <<ring, cnt, data_day, scrambled, apart, raced>>
flags  == <<flag_info, flag_data>>
disk   == <<flash_info, flash_data>>
vars   == <<time, bGetDatetime, config, check_data_machine, day_reset, data, usQFontStart,
            flags, disk, local, slipped, overtaken, queued>>

-----------------------------------------------------------------------------
(* A defect that TypeOK must catch: the wrap tested one slot too late.     *)
IncIdxLateWrap(i) == IF i = LEN_Q_BUFF THEN 0 ELSE i + 1

IncIdx(i) == (i + 1) % LEN_Q_BUFF

NoCounts == [p \in Plan |-> [t \in TYPES |-> 0]]

Info == [day |-> day_reset, idx |-> idx_plan, daily |-> daily_product_reset]
Data == [front |-> front, rear |-> rear, slot |-> slot, cnt |-> cnt,
         day |-> data_day, scrambled |-> scrambled, apart |-> apart, raced |-> raced]

Aged(s) == [i \in Slot |-> IF s[i] = Blank THEN Blank ELSE [s[i] EXCEPT !.fresh = FALSE]]

(* A record is on its way to the ring, up to its front index.              *)
Adding == pc \in {"record", "counter", "front"}

Idle == pc' = "idle" /\ adding' = Blank /\ usQfront' = 0 /\ usQrear' = 0

(* A record of day 1, corrected to zero, and sent.                         *)
Sent(t) == [type |-> t, data |-> 0, plan |-> 0, day |-> 1, made |-> 1, fresh |-> FALSE]

(* A device that was restarted on day 1 with nothing left to send.         *)
Init ==
  /\ today = 1 /\ late = FALSE
  /\ bGetDatetime = FALSE
  /\ len_plan = 0 /\ idx_plan = 0
  /\ daily_product_reset \in CONFIGS
  /\ check_data_machine = FALSE
  /\ day_reset = 1 /\ data_day = 1
  /\ front = START /\ rear = START
  /\ \E t \in TYPES : slot = [i \in Slot |-> IF i < START THEN Sent(t) ELSE Blank]
  /\ cnt = NoCounts
  /\ usQFontStart = START
  /\ flag_info = FALSE /\ flag_data = FALSE
  /\ pc = "idle" /\ adding = Blank /\ usQfront = 0 /\ usQrear = 0
  /\ scrambled = FALSE /\ slipped = FALSE
  /\ apart = {} /\ overtaken = {} /\ raced = FALSE
  /\ flash_info = Info /\ flash_data = Data
  /\ queued = 0

(* The hours go by: the reset hour is reached, midnight is passed.         *)
TimePasses ==
  /\ \/ /\ ~late
        /\ late' = TRUE /\ UNCHANGED <<today, overtaken>>
     \/ /\ today < DAYS
        /\ today' = today + 1 /\ late' = FALSE
        /\ overtaken' = overtaken \cup (IF pc = "record" THEN {front} ELSE {})
  /\ UNCHANGED <<bGetDatetime, config, check_data_machine, day_reset, data, usQFontStart,
                 flags, disk, local, slipped, queued>>

-----------------------------------------------------------------------------
Stamp == IF bGetDatetime THEN today ELSE Unset

InLoop == UNCHANGED <<time, bGetDatetime, config, check_data_machine, day_reset, data_day,
                      scrambled, raced, usQFontStart, flags, disk>>

(* addQueue_product_data in loop(), for a piece more or a reset by the     *)
(* menu: the slot and the time are read, then the bytes are written.       *)
AddQueueProductData ==
  \E t \in TYPES, d \in VALUES :
    /\ pc = "idle"
    /\ queued < MAX_RECORD
    /\ adding' = [type |-> t, data |-> d, plan |-> 0, addr |-> 0, day |-> Stamp, made |-> today]
    /\ usQfront' = front
    /\ pc' = "record"
    /\ overtaken' = overtaken \ {front}
    /\ queued' = queued + 1
    /\ InLoop /\ UNCHANGED <<ring, cnt, slipped, apart, usQrear>>

(* The bytes of the stamp are of two times if the clock was read anew; the *)
(* process comes last.                                                     *)
WriteRecord ==
  /\ pc = "record"
  /\ \E d \in IF usQfront \in overtaken THEN Day \cup {Unset} ELSE {adding.day} :
       slot' = [slot EXCEPT ![usQfront] =
                  [type |-> adding.type, data |-> adding.data, plan |-> idx_plan, day |-> d,
                   made |-> adding.made, fresh |-> TRUE]]
  /\ adding' = [adding EXCEPT !.plan = idx_plan]
  /\ pc' = "counter"
  /\ InLoop
  /\ UNCHANGED <<front, rear, cnt, slipped, apart, overtaken, usQfront, usQrear, queued>>

(* The counter of the process current now; then the front index is read.   *)
WriteCounter ==
  /\ pc = "counter"
  /\ adding' = [adding EXCEPT !.addr = idx_plan]
  /\ cnt' = [cnt EXCEPT ![idx_plan][adding.type] = adding.data]
  /\ apart' = apart \cup {<<idx_plan, adding.type>>, <<adding.plan, adding.type>>}
  /\ usQfront' = IncIdx(front)
  /\ pc' = "front"
  /\ InLoop /\ UNCHANGED <<ring, slipped, overtaken, usQrear, queued>>

(* The record is in the ring; the oldest gives way if the ring is full.    *)
WriteFront ==
  /\ pc = "front"
  /\ front' = usQfront
  /\ apart' = IF adding.plan = adding.addr THEN apart \ {<<adding.plan, adding.type>>}
                                          ELSE apart
  /\ slipped' = (slipped \/ (~bGetDatetime /\ front' = 0))
  /\ IF front' = rear
       THEN pc' = "drop" /\ usQrear' = IncIdx(rear) /\ adding' = Blank /\ usQfront' = 0
       ELSE Idle
  /\ InLoop /\ UNCHANGED <<rear, slot, cnt, overtaken, queued>>

(* SEND_DATA_OUTPUT: the oldest record goes, once a plan is known.         *)
SendDataOutput ==
  /\ pc = "idle"
  /\ len_plan > 0
  /\ front # rear
  /\ usQrear' = IncIdx(rear)
  /\ pc' = "take"
  /\ InLoop
  /\ UNCHANGED <<ring, cnt, slipped, apart, overtaken, adding, usQfront, queued>>

WriteRear ==
  /\ pc \in {"drop", "take"}
  /\ rear' = usQrear
  /\ Idle
  /\ InLoop /\ UNCHANGED <<front, slot, cnt, slipped, apart, overtaken, queued>>

ChangeProcess ==
  /\ pc = "idle"
  /\ len_plan > 0
  /\ idx_plan' = (idx_plan + 1) % len_plan
  /\ flag_info' = TRUE
  /\ UNCHANGED <<time, bGetDatetime, len_plan, daily_product_reset, check_data_machine,
                 day_reset, data, usQFontStart, flag_data, disk, local, slipped, overtaken,
                 queued>>

-----------------------------------------------------------------------------
(* Callbacks.  They find loop() at any of its steps, and run to their end. *)

(* The server sets a counter of the current process.                       *)
UpdateCount ==
  \E t \in TYPES, d \in VALUES :
    /\ len_plan > 0
    /\ queued < MAX_RECORD
    /\ queued' = queued + 1
    /\ slot' = [slot EXCEPT ![front] =
                  [type |-> t, data |-> d, plan |-> idx_plan, day |-> Stamp,
                   made |-> today, fresh |-> TRUE]]
    /\ cnt' = [cnt EXCEPT ![idx_plan][t] = d]
    /\ apart' = apart \ {<<idx_plan, t>>}
    /\ overtaken' = overtaken \ {front}
    /\ front' = IncIdx(front)
    /\ rear' = IF front' = rear THEN IncIdx(rear) ELSE rear
    /\ slipped' = (slipped \/ (~bGetDatetime /\ front' = 0))
    /\ raced' = (raced \/ pc # "idle")
    /\ UNCHANGED <<time, bGetDatetime, config, check_data_machine, day_reset, data_day,
                   scrambled, usQFontStart, flags, disk, local>>

GetPlan ==
  \E n \in PLANS :
    /\ len_plan' = n
    /\ idx_plan' = IF idx_plan >= n THEN 0 ELSE idx_plan
    /\ UNCHANGED <<time, bGetDatetime, daily_product_reset, check_data_machine, day_reset,
                   data, usQFontStart, flags, disk, local, slipped, overtaken, queued>>

GetInfConfig ==
  /\ daily_product_reset' \in CONFIGS
  /\ UNCHANGED <<time, bGetDatetime, len_plan, idx_plan, check_data_machine, day_reset, data,
                 usQFontStart, flags, disk, local, slipped, overtaken, queued>>

-----------------------------------------------------------------------------
(* check_reset_newday: more than one day since the last reset, or one and  *)
(* the reset hour is past.                                                 *)
CheckResetNewDay ==
  \/ today > day_reset + 1
  \/ today = day_reset + 1 /\ late

(* The records the code runs through from a to front: none when front has  *)
(* passed the end of the ring.                                             *)
From(a) == {i \in Slot : a <= i /\ i < front /\ slot[i] # Blank}

(* A defect that StampIsPlausible must catch: the oldest record left out.  *)
UpdateTimeEEPROMButOldest ==
  [i \in Slot |-> IF i \in From(usQFontStart + 1) THEN [slot[i] EXCEPT !.day = today] ELSE slot[i]]

(* updateTimeEEPROM: the records made since the boot get today's date.     *)
UpdateTimeEEPROM ==
  [i \in Slot |-> IF i \in From(usQFontStart) THEN [slot[i] EXCEPT !.day = today] ELSE slot[i]]

ResetProduction ==
  /\ cnt' = NoCounts
  /\ front' = 0 /\ rear' = 0
  /\ scrambled' = FALSE /\ apart' = {}
  /\ raced' = (pc # "idle")
  /\ slipped' = (slipped \/ ~bGetDatetime)

(* A defect that KeptAreToday must catch: older records counted as well.   *)
NumberFromRear(s, t, upto) == Cardinality({j \in From(rear) : j <= upto /\ s[j].type = t})

Number(s, t, upto) == Cardinality({j \in From(usQFontStart) : j <= upto /\ s[j].type = t})

(* A defect that RingMatchesCounters must catch: only the value rewritten. *)
RenumberedSamePlan(s) ==
  [i \in Slot |-> IF i \in From(usQFontStart)
                    THEN [s[i] EXCEPT !.data = Number(s, s[i].type, i)]
                    ELSE s[i]]

(* updateOutputValueEEPROM: the records since the boot are numbered anew   *)
(* and given to the current process.                                       *)
Renumbered(s) ==
  [i \in Slot |-> IF i \in From(usQFontStart)
                    THEN [s[i] EXCEPT !.data = Number(s, s[i].type, i), !.plan = idx_plan]
                    ELSE s[i]]

(* The current process's counters become the numbers of records kept; for  *)
(* the others write_16 clears the upper half of a 32-bit counter.          *)
UpdateOutputValueEEPROM(s) ==
  IF front = usQFontStart
    THEN ResetProduction /\ slot' = s
    ELSE /\ slot' = Renumbered(s)
         /\ cnt' = [p \in Plan |-> [t \in TYPES |->
                      IF p = idx_plan THEN Number(s, t, LEN_Q_BUFF) ELSE cnt[p][t] % 65536]]
         /\ rear' = usQFontStart
         /\ scrambled' = (front < usQFontStart) /\ apart' = {}
         /\ raced' = (raced \/ pc # "idle")
         /\ UNCHANGED <<front, slipped>>

(* A defect that DayThenData must catch: the data never committed.         *)
RequestCommitInfoOnly == flag_info' = TRUE /\ UNCHANGED flag_data

RequestCommit == flag_info' = TRUE /\ flag_data' = TRUE

(* A callback that reads the front index may find it half written.         *)
MayRace == IF pc = "front" THEN {raced, TRUE} ELSE {raced}

(* resetDataWhenNewDay, on the ring s.                                     *)
ResetDataWhenNewDay(timer, s) ==
  /\ day_reset' = today
  /\ data_day' = today
  /\ IF daily_product_reset
       THEN IF timer THEN ResetProduction /\ slot' = s
                     ELSE UpdateOutputValueEEPROM(s)
       ELSE /\ slot' = s
            /\ raced' \in MayRace
            /\ UNCHANGED <<front, rear, cnt, scrambled, apart, slipped>>
  /\ RequestCommit

(* What may be stamped wrong: nothing the code ran through, but the record *)
(* on its way if its time was read before the clock was set; and, once a   *)
(* ring that was raced with is emptied, whatever was left in the slots.    *)
Overtakes(s, stamped, adds) ==
  (IF raced /\ ~raced' THEN Slot ELSE s \ stamped) \cup adds

(* MQTT callback: the server's date and time.                              *)
GetDateTime ==
  /\ bGetDatetime' = TRUE
  /\ check_data_machine' = TRUE
  /\ IF CheckResetNewDay
       THEN ResetDataWhenNewDay(FALSE, UpdateTimeEEPROM)
       ELSE /\ slot' = UpdateTimeEEPROM
            /\ flag_data' = (flag_data \/ front # usQFontStart)
            /\ raced' \in MayRace
            /\ UNCHANGED <<day_reset, front, rear, cnt, data_day, scrambled, apart, slipped,
                           flag_info>>
  /\ overtaken' = Overtakes(overtaken, From(usQFontStart),
                            IF Adding /\ ~bGetDatetime THEN {front} ELSE {})
  /\ UNCHANGED <<time, config, usQFontStart, disk, local, queued>>

(* Timer callback, every 300 s.                                            *)
T300s ==
  /\ bGetDatetime
  /\ CheckResetNewDay
  /\ ResetDataWhenNewDay(TRUE, slot)
  /\ overtaken' = Overtakes(overtaken, {}, {})
  /\ UNCHANGED <<time, bGetDatetime, config, check_data_machine, usQFontStart, disk, local,
                 queued>>

(* check_and_reset_data_machine, past the reset hour, when the machine     *)
(* times are longer than the day allows.                                   *)
CheckAndResetDataMachine == late /\ ResetProduction

(* Timer callback, every 60 s: commit; after a new date-time the machine   *)
(* times are checked, which may reset everything.                          *)
T60s ==
  /\ RequestCommit
  /\ check_data_machine' = FALSE
  /\ \/ UNCHANGED <<front, rear, cnt, scrambled, apart, raced, slipped>>
     \/ check_data_machine /\ CheckAndResetDataMachine
  /\ overtaken' = Overtakes(overtaken, {}, {})
  /\ UNCHANGED <<time, bGetDatetime, config, day_reset, slot, data_day, usQFontStart, disk,
                 local, queued>>

-----------------------------------------------------------------------------
(* Timer callback, every 1 s: one sector a time.                           *)
CommitInfo ==
  /\ flag_info
  /\ flag_info' = FALSE
  /\ flash_info' = Info
  /\ UNCHANGED <<time, bGetDatetime, config, check_data_machine, day_reset, data, usQFontStart,
                 flag_data, flash_data, local, slipped, overtaken, queued>>

(* The index being written may be half written; a full ring looks empty    *)
(* until its rear has moved too.                                           *)
Torn == IF pc \in {"front", "take"} THEN BOOLEAN ELSE {pc = "drop"}

CommitData ==
  /\ ~flag_info /\ flag_data
  /\ flag_data' = FALSE
  /\ \E torn \in Torn : flash_data' = [Data EXCEPT !.raced = @ \/ torn]
  /\ UNCHANGED <<time, bGetDatetime, config, check_data_machine, day_reset, data, usQFontStart,
                 flag_info, flash_info, local, slipped, overtaken, queued>>

(* Power fails; init_e2p loads the sectors, the clock is unset again.      *)
Boot ==
  /\ bGetDatetime' = FALSE /\ check_data_machine' = FALSE
  /\ len_plan' = 0
  /\ idx_plan' = flash_info.idx
  /\ daily_product_reset' = flash_info.daily
  /\ day_reset' = flash_info.day
  /\ front' = flash_data.front /\ rear' = flash_data.rear
  /\ slot' = Aged(flash_data.slot)
  /\ cnt' = flash_data.cnt
  /\ data_day' = flash_data.day
  /\ scrambled' = flash_data.scrambled
  /\ apart' = flash_data.apart /\ raced' = flash_data.raced
  /\ usQFontStart' = flash_data.front
  /\ flag_info' = FALSE /\ flag_data' = FALSE
  /\ slipped' = FALSE /\ overtaken' = {}
  /\ Idle
  /\ UNCHANGED <<time, disk, queued>>

Next ==
  \/ TimePasses
  \/ AddQueueProductData \/ WriteRecord \/ WriteCounter \/ WriteFront
  \/ SendDataOutput \/ WriteRear \/ ChangeProcess
  \/ UpdateCount \/ GetPlan \/ GetInfConfig
  \/ GetDateTime \/ T300s \/ T60s
  \/ CommitInfo \/ CommitData \/ Boot

Spec == Init /\ [][Next]_vars

-----------------------------------------------------------------------------
Waiting(f, r) == {i \in Slot : IF r <= f THEN r <= i /\ i < f ELSE r <= i \/ i < f}

DataType ==
  [front : Slot, rear : Slot, slot : [Slot -> Record \cup {Blank}],
   cnt : [Plan -> [TYPES -> Count]], day : Day, scrambled : BOOLEAN,
   apart : SUBSET Pair, raced : BOOLEAN]

Draft == [type : TYPES, data : Count, plan : Plan, addr : Plan, day : Day \cup {Unset},
          made : Day]

(* Every variable stays in its range.                                      *)
TypeOK ==
  /\ today \in Day /\ late \in BOOLEAN
  /\ bGetDatetime \in BOOLEAN /\ check_data_machine \in BOOLEAN
  /\ len_plan \in 0 .. MAX_PLAN /\ idx_plan \in Plan
  /\ daily_product_reset \in BOOLEAN
  /\ day_reset \in Day
  /\ Data \in DataType
  /\ usQFontStart \in Slot
  /\ flag_info \in BOOLEAN /\ flag_data \in BOOLEAN
  /\ flash_info \in [day : Day, idx : Plan, daily : BOOLEAN]
  /\ flash_data \in DataType
  /\ pc \in {"idle", "record", "counter", "front", "drop", "take"}
  /\ adding \in IF Adding THEN Draft ELSE {Blank}
  /\ usQfront \in Slot /\ usQrear \in Slot
  /\ slipped \in BOOLEAN /\ overtaken \in SUBSET Slot
  /\ queued \in 0 .. MAX_RECORD

(* Once the clock is set, every waiting record made since the boot carries *)
(* a date, and one between the day it was made and today: a record made    *)
(* before the clock was set is never overlooked, but for one that was on   *)
(* its way to the ring when the date came or midnight passed.  No promise  *)
(* is made once the ring went past its end, or was emptied, before the     *)
(* clock was set, nor for a ring that was raced with, or whose counters    *)
(* were recomputed while front lay below its place at the boot.            *)
StampIsPlausible ==
  bGetDatetime /\ ~slipped /\ ~scrambled /\ ~raced =>
    \A i \in Waiting(front, rear) \ overtaken :
      slot[i].fresh => slot[i].made <= slot[i].day /\ slot[i].day <= today

(* When the server's date-time starts a new day, the records kept are      *)
(* those of this boot, and the counters of the current process start at    *)
(* their number, unless front lies below its position at the boot or       *)
(* loop() is changing the ring.                                            *)
KeptAreToday ==
  [][ day_reset' # day_reset /\ ~bGetDatetime /\ bGetDatetime' /\ daily_product_reset
        /\ front >= usQFontStart /\ ~raced'
      => /\ \A i \in Waiting(front', rear') : slot'[i].fresh
         /\ \A t \in TYPES :
              cnt'[idx_plan][t] =
                Cardinality({i \in Waiting(front', rear') : slot'[i].type = t}) ]_vars

(* Ring and counters agree through restamping, renumbering, commits and    *)
(* restarts: the newest waiting record of a process and type has the       *)
(* counter's value, unless its record was on its way to the ring, or at    *)
(* the commit the restart came from, and no newer one was added since; or  *)
(* the ring was raced with, or committed with an index half written, or    *)
(* recomputed while front lay below its place at the boot.                 *)
RingMatchesCounters ==
  ~scrambled /\ ~raced =>
    \A i \in Waiting(front, rear) :
      \/ slot[i].data = cnt[slot[i].plan][slot[i].type]
      \/ <<slot[i].plan, slot[i].type>> \in apart
      \/ \E j \in Waiting(front, rear) :
           /\ slot[j].plan = slot[i].plan /\ slot[j].type = slot[i].type
           /\ (j - rear + LEN_Q_BUFF) % LEN_Q_BUFF > (i - rear + LEN_Q_BUFF) % LEN_Q_BUFF

(* The day in the info sector never runs ahead of the data sector for      *)
(* good: as long as the device holds a consistent day itself, a difference *)
(* in flash means that the commit of the data is still due.                *)
DayThenData ==
  day_reset = data_day /\ flash_info.day # flash_data.day => flag_data

=============================================================================
