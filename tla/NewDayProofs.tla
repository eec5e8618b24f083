---------------------------- MODULE NewDayProofs ----------------------------
(***************************************************************************)
(* Theorems about NewDay, for rings, plans, days and restart positions of  *)
(* every size: every variable keeps its type, the records waiting carry    *)
(* plausible dates and agree with the counters, what a new day keeps is    *)
(* what this boot counted, and the two sectors agree on the day.  At the   *)
(* end the theorem about Stamps, for hours, minutes and bytes of any       *)
(* length: a record keeps its distance from the clock.                     *)
(***************************************************************************)
EXTENDS NewDay, Stamps, FiniteSetTheorems, TLAPS

Slots  == [Slot -> Record \cup {Blank}]
Counts == [Plan -> [TYPES -> Count]]

(* How far slot i lies from the rear r.                                    *)
Dist(r, i) == IF r <= i THEN i - r ELSE i + LEN_Q_BUFF - r

(* Every waiting slot was written.                                         *)
Written(f, r, s) == \A i \in Waiting(f, r) : s[i] # Blank

(* The newest waiting record of a process and type shows the counter, but  *)
(* for the counters k.                                                     *)
Matches(f, r, s, c, k) ==
  \A i \in Waiting(f, r) :
    \/ s[i].data = c[s[i].plan][s[i].type]
    \/ <<s[i].plan, s[i].type>> \in k
    \/ \E j \in Waiting(f, r) :
         s[j].plan = s[i].plan /\ s[j].type = s[i].type /\ Dist(r, j) > Dist(r, i)

RingOK(f, r, s, c, k) == Written(f, r, s) /\ Matches(f, r, s, c, k)

(* The groups of steps: loop() at a record, what touches no record, and    *)
(* the callbacks that can start a new day.                                 *)
Loop   == \/ AddQueueProductData \/ WriteRecord \/ WriteCounter \/ WriteFront
          \/ SendDataOutput \/ WriteRear
Quiet  == \/ TimePasses \/ ChangeProcess \/ GetPlan \/ GetInfConfig
          \/ CommitInfo \/ CommitData \/ UNCHANGED vars
Resets == GetDateTime \/ T300s \/ T60s

-----------------------------------------------------------------------------
(* The inductive invariant.                                                *)

TimeTyped  == /\ today \in Day /\ late \in BOOLEAN
              /\ bGetDatetime \in BOOLEAN /\ check_data_machine \in BOOLEAN
PlanTyped  == /\ len_plan \in 0 .. MAX_PLAN /\ idx_plan \in Plan
              /\ daily_product_reset \in BOOLEAN /\ day_reset \in Day
RingTyped  == front \in Slot /\ rear \in Slot /\ usQFontStart \in Slot
SlotsTyped == slot \in Slots
CntTyped   == cnt \in Counts
DataTyped  == /\ data_day \in Day /\ scrambled \in BOOLEAN
              /\ apart \in SUBSET Pair /\ raced \in BOOLEAN
FlashTyped == /\ flash_info \in [day : Day, idx : Plan, daily : BOOLEAN]
              /\ flash_data \in DataType
FlagsTyped == /\ flag_info \in BOOLEAN /\ flag_data \in BOOLEAN
              /\ slipped \in BOOLEAN /\ overtaken \in SUBSET Slot
LocalTyped == /\ pc \in {"idle", "record", "counter", "front", "drop", "take"}
              /\ adding \in IF Adding THEN Draft ELSE {Blank}
              /\ usQfront \in Slot /\ usQrear \in Slot
QueuedTyped == queued \in 0 .. MAX_RECORD

Typed == /\ TimeTyped /\ PlanTyped /\ RingTyped /\ SlotsTyped /\ CntTyped /\ DataTyped
         /\ FlashTyped /\ FlagsTyped /\ LocalTyped /\ QueuedTyped

(* How far loop() has come: nobody else moved what it read.                *)
InStep ==
  /\ pc \in {"record", "counter"} => usQfront = front
  /\ pc \in {"counter", "front"} =>
       /\ slot[front] # Blank /\ slot[front].fresh
       /\ slot[front].type = adding.type /\ slot[front].data = adding.data
       /\ slot[front].plan = adding.plan
  /\ pc = "front" =>
       /\ usQfront = IncIdx(front)
       /\ cnt[adding.addr][adding.type] = adding.data
       /\ <<adding.plan, adding.type>> \in apart
  /\ pc = "drop" => front = rear /\ usQrear = IncIdx(rear)
  /\ pc = "take" => front # rear /\ usQrear = IncIdx(rear)

StepInv == ~raced => InStep

(* What updateTimeEEPROM and updateOutputValueEEPROM run through was       *)
(* written since the boot, and front has not fallen behind its place then  *)
(* as long as the clock is not set and nothing was emptied.                *)
BootRecords ==
  /\ \A i \in Slot : usQFontStart <= i /\ i < front => slot[i] # Blank /\ slot[i].fresh
  /\ ~bGetDatetime /\ ~slipped => usQFontStart <= front

SinceBoot == ~raced => BootRecords

(* No record of this boot is of a day to come.                             *)
MadeBefore ==
  /\ \A i \in Slot : slot[i] # Blank /\ slot[i].fresh => slot[i].made <= today
  /\ Adding => adding.made <= today

(* A record made since the boot lies where updateTimeEEPROM finds it, or   *)
(* is just on its way; once the clock is set it has a plausible date.      *)
Found(i) == i \in From(usQFontStart) \/ (i = front /\ pc \in {"counter", "front"})

Plausible(m, d) == m <= d /\ d <= today

SlotDated(i) ==
  slot[i] # Blank /\ slot[i].fresh /\ ~slipped =>
    /\ ~bGetDatetime => Found(i)
    /\ bGetDatetime => \/ Plausible(slot[i].made, slot[i].day)
                       \/ i \in overtaken
                       \/ i = front /\ pc = "record"

DraftDated ==
  pc = "record" /\ bGetDatetime /\ front \notin overtaken => Plausible(adding.made, adding.day)

Dated == ~raced => (\A i \in Slot : SlotDated(i)) /\ DraftDated

(* While an old record makes room the ring is read as it will be.          *)
RearSeen == IF pc = "drop" THEN usQrear ELSE rear

RingKept ==
  /\ ~scrambled /\ ~raced => RingOK(front, RearSeen, slot, cnt, apart)
  /\ ~flash_data.scrambled /\ ~flash_data.raced =>
       RingOK(flash_data.front, flash_data.rear, flash_data.slot, flash_data.cnt,
              flash_data.apart)

(* A sector that has nothing to commit is as committed; and the day in     *)
(* flash is the device's own unless the data are due as well.              *)
DaysKept ==
  /\ ~flag_info => flash_info.day = day_reset
  /\ ~flag_data => flash_data.day = data_day /\ flash_info.day = day_reset

NewDayInv ==
  Typed /\ StepInv /\ SinceBoot /\ MadeBefore /\ Dated /\ RingKept /\ DaysKept

-----------------------------------------------------------------------------
(* Indices, counts and records.                                            *)

LEMMA InSlot ==
  /\ LEN_Q_BUFF \in Nat /\ LEN_Q_BUFF > 1 /\ 0 \in Slot
  /\ \A i \in Slot : i \in Nat /\ 0 <= i /\ i < LEN_Q_BUFF /\ ~(i < 0)
<1>1. LEN_Q_BUFF \in Nat /\ LEN_Q_BUFF > 1
  BY ConstantsAssumption
<1>. QED
  BY <1>1 DEF Slot

LEMMA PlansFit == PLANS \subseteq 1 .. MAX_PLAN
BY ConstantsAssumption

LEMMA IndexSteps ==
  \A i \in Slot : /\ IncIdx(i) = IF i = LEN_Q_BUFF - 1 THEN 0 ELSE i + 1
                  /\ IncIdx(i) \in Slot
<1>0. LEN_Q_BUFF \in Nat /\ LEN_Q_BUFF > 1
  BY ConstantsAssumption
<1>1. TAKE i \in Slot
<1>2. CASE i = LEN_Q_BUFF - 1
  BY <1>0, <1>2 DEF IncIdx, Slot
<1>3. CASE i < LEN_Q_BUFF - 1
  BY <1>0, <1>3 DEF IncIdx, Slot
<1>. QED
  BY <1>0, <1>2, <1>3 DEF Slot

LEMMA SmallRemainder ==
  ASSUME NEW b \in Nat \ {0}, NEW c \in Nat
  PROVE  c % b \in 0 .. c /\ (c < b => c % b = c)
<1>1. CASE c < b
  BY <1>1
<1>2. CASE c >= b
  <2>1. c % b \in 0 .. b - 1
    OBVIOUS
  <2>. QED
    BY <1>2, <2>1
<1>. QED
  BY <1>1, <1>2

LEMMA CountFacts ==
  /\ 0 \in Count /\ VALUES \subseteq Count
  /\ NoCounts \in Counts
  /\ \A c \in Count : c % 65536 \in Count
<1>1. 0 \in Count /\ VALUES \subseteq Count
  BY ConstantsAssumption DEF Count
<1>2. NoCounts \in Counts
  BY <1>1 DEF NoCounts, Counts
<1>3. ASSUME NEW c \in Count PROVE c % 65536 \in Count
  <2>1. CASE c \in VALUES
    <3>1. c \in Nat /\ c < 65536
      BY <2>1, ValuesAssumption
    <3>2. 65536 \in Nat \ {0}
      OBVIOUS
    <3>3. c % 65536 = c
      BY <3>1, <3>2, SmallRemainder
    <3>. QED
      BY <3>3
  <2>2. CASE c \in 0 .. LEN_Q_BUFF
    <3>1. c \in Nat /\ c <= LEN_Q_BUFF /\ LEN_Q_BUFF \in Nat
      BY <2>2, ConstantsAssumption
    <3>2. c % 65536 \in Nat /\ c % 65536 <= c
      BY <3>1
    <3>. QED
      BY <3>1, <3>2 DEF Count
  <2>. QED
    BY <2>1, <2>2 DEF Count
<1>. QED
  BY <1>1, <1>2, <1>3

LEMMA BlankIsNoRecord == Blank \notin Record
BY ConstantsAssumption

LEMMA NewDate ==
  ASSUME NEW r \in Record, NEW d \in Day
  PROVE  LET n == [r EXCEPT !.day = d]
         IN  /\ n \in Record /\ n.day = d
             /\ n.type = r.type /\ n.data = r.data /\ n.plan = r.plan
             /\ n.made = r.made /\ n.fresh = r.fresh
BY DEF Record

LEMMA OldRecord ==
  ASSUME NEW r \in Record
  PROVE  LET n == [r EXCEPT !.fresh = FALSE]
         IN  /\ n \in Record /\ n.fresh = FALSE
             /\ n.type = r.type /\ n.data = r.data /\ n.plan = r.plan
             /\ n.day = r.day /\ n.made = r.made
BY DEF Record

(* The copy of the ring that a restart works with.                         *)
LEMMA AgedRing ==
  ASSUME NEW s \in Slots
  PROVE  /\ Aged(s) \in Slots
         /\ \A i \in Slot :
              /\ Aged(s)[i] = Blank <=> s[i] = Blank
              /\ s[i] # Blank => /\ Aged(s)[i].type = s[i].type
                                 /\ Aged(s)[i].data = s[i].data
                                 /\ Aged(s)[i].plan = s[i].plan
                                 /\ Aged(s)[i].fresh = FALSE
<1>1. ASSUME NEW i \in Slot, s[i] # Blank
      PROVE  /\ Aged(s)[i] \in Record
             /\ Aged(s)[i].type = s[i].type /\ Aged(s)[i].data = s[i].data
             /\ Aged(s)[i].plan = s[i].plan /\ Aged(s)[i].fresh = FALSE
  <2>1. s[i] \in Record /\ Aged(s)[i] = [s[i] EXCEPT !.fresh = FALSE]
    BY <1>1 DEF Slots, Aged
  <2>. QED
    BY <2>1, OldRecord
<1>2. ASSUME NEW i \in Slot, s[i] = Blank PROVE Aged(s)[i] = Blank
  BY <1>2 DEF Aged
<1>3. Blank \notin Record
  BY ConstantsAssumption
<1>4. Aged(s) = [i \in Slot |-> Aged(s)[i]]
  BY DEF Aged
<1>5. Aged(s) \in Slots
  BY <1>1, <1>2, <1>4 DEF Slots
<1>. QED
  BY <1>1, <1>2, <1>3, <1>5

(* The ring as the server's date-time leaves it.                           *)
LEMMA Restamped ==
  ASSUME SlotsTyped, TimeTyped
  PROVE  /\ UpdateTimeEEPROM \in Slots
         /\ \A i \in Slot :
              /\ UpdateTimeEEPROM[i] = Blank <=> slot[i] = Blank
              /\ i \in From(usQFontStart) => UpdateTimeEEPROM[i].day = today
              /\ i \notin From(usQFontStart) => UpdateTimeEEPROM[i].day = slot[i].day
              /\ slot[i] # Blank => /\ UpdateTimeEEPROM[i].type = slot[i].type
                                    /\ UpdateTimeEEPROM[i].data = slot[i].data
                                    /\ UpdateTimeEEPROM[i].plan = slot[i].plan
                                    /\ UpdateTimeEEPROM[i].made = slot[i].made
                                    /\ UpdateTimeEEPROM[i].fresh = slot[i].fresh
         /\ \A i \in From(usQFontStart) : UpdateTimeEEPROM[i] # Blank
<1>1. ASSUME NEW i \in Slot, i \in From(usQFontStart)
      PROVE  /\ slot[i] # Blank
             /\ UpdateTimeEEPROM[i] \in Record
             /\ UpdateTimeEEPROM[i].day = today
             /\ UpdateTimeEEPROM[i].type = slot[i].type
             /\ UpdateTimeEEPROM[i].data = slot[i].data
             /\ UpdateTimeEEPROM[i].plan = slot[i].plan
             /\ UpdateTimeEEPROM[i].made = slot[i].made
             /\ UpdateTimeEEPROM[i].fresh = slot[i].fresh
  <2>1. slot[i] # Blank
    BY <1>1 DEF From
  <2>2. slot[i] \in Record /\ today \in Day
    BY <2>1 DEF SlotsTyped, Slots, TimeTyped
  <2>3. UpdateTimeEEPROM[i] = [slot[i] EXCEPT !.day = today]
    BY <1>1 DEF UpdateTimeEEPROM
  <2>. QED
    BY <2>1, <2>2, <2>3, NewDate
<1>2. ASSUME NEW i \in Slot, i \notin From(usQFontStart)
      PROVE  UpdateTimeEEPROM[i] = slot[i]
  BY <1>2 DEF UpdateTimeEEPROM
<1>3. Blank \notin Record
  BY ConstantsAssumption
<1>4. UpdateTimeEEPROM = [i \in Slot |-> UpdateTimeEEPROM[i]]
  BY DEF UpdateTimeEEPROM
<1>5. ASSUME NEW i \in Slot PROVE UpdateTimeEEPROM[i] \in Record \cup {Blank}
  BY <1>1, <1>2 DEF SlotsTyped, Slots
<1>6. UpdateTimeEEPROM \in Slots
  BY <1>4, <1>5 DEF Slots
<1>7. From(usQFontStart) \subseteq Slot
  BY DEF From
<1>. QED
  BY <1>1, <1>2, <1>3, <1>6, <1>7

LEMMA NumberTyped ==
  ASSUME RingTyped, NEW s, NEW t, NEW n
  PROVE  /\ Number(s, t, n) \in 0 .. LEN_Q_BUFF
         /\ IsFiniteSet({j \in From(usQFontStart) : j <= n /\ s[j].type = t})
<1> DEFINE N == {j \in From(usQFontStart) : j <= n /\ s[j].type = t}
<1>1. 0 \in Int /\ LEN_Q_BUFF - 1 \in Int /\ LEN_Q_BUFF \in Nat /\ LEN_Q_BUFF > 1
  BY ConstantsAssumption
<1>2. IsFiniteSet(Slot) /\ Cardinality(Slot) = LEN_Q_BUFF
  BY <1>1, FS_Interval DEF Slot
<1>3. N \subseteq Slot
  BY DEF From
<1>4. IsFiniteSet(N) /\ Cardinality(N) <= LEN_Q_BUFF
  BY <1>2, <1>3, FS_Subset
<1>5. Cardinality(N) \in Nat
  BY <1>4, FS_CardinalityType
<1>. QED
  BY <1>1, <1>4, <1>5 DEF Number

(* The ring as updateOutputValueEEPROM leaves it.                          *)
LEMMA RenumberedRing ==
  ASSUME RingTyped, PlanTyped, NEW s \in Slots,
         \A i \in From(usQFontStart) : s[i] # Blank
  PROVE  /\ Renumbered(s) \in Slots
         /\ \A i \in Slot :
              /\ Renumbered(s)[i] = Blank <=> s[i] = Blank
              /\ s[i] # Blank => /\ Renumbered(s)[i].type = s[i].type
                                 /\ Renumbered(s)[i].day = s[i].day
                                 /\ Renumbered(s)[i].made = s[i].made
                                 /\ Renumbered(s)[i].fresh = s[i].fresh
              /\ i \in From(usQFontStart) =>
                   /\ Renumbered(s)[i].data = Number(s, s[i].type, i)
                   /\ Renumbered(s)[i].plan = idx_plan
<1>1. ASSUME NEW i \in Slot, i \in From(usQFontStart)
      PROVE  /\ s[i] # Blank
             /\ Renumbered(s)[i] \in Record
             /\ Renumbered(s)[i].type = s[i].type
             /\ Renumbered(s)[i].day = s[i].day
             /\ Renumbered(s)[i].made = s[i].made
             /\ Renumbered(s)[i].fresh = s[i].fresh
             /\ Renumbered(s)[i].data = Number(s, s[i].type, i)
             /\ Renumbered(s)[i].plan = idx_plan
  <2>1. s[i] # Blank /\ s[i] \in Record /\ idx_plan \in Plan
    BY <1>1 DEF Slots, PlanTyped
  <2>2. Number(s, s[i].type, i) \in Count
    BY NumberTyped DEF Count
  <2>3. Renumbered(s)[i] = [s[i] EXCEPT !.data = Number(s, s[i].type, i), !.plan = idx_plan]
    BY <1>1 DEF Renumbered
  <2>. DEFINE d == Number(s, s[i].type, i)
  <2>4. d \in Count /\ Renumbered(s)[i] = [s[i] EXCEPT !.data = d, !.plan = idx_plan]
    BY <2>2, <2>3
  <2>. HIDE DEF d
  <2>. DEFINE n == Renumbered(s)[i]
  <2>. HIDE DEF n
  <2>6. n = [s[i] EXCEPT !.data = d, !.plan = idx_plan]
    BY <2>4 DEF n
  <2>5. /\ n \in Record /\ n.data = d /\ n.plan = idx_plan
        /\ n.type = s[i].type /\ n.day = s[i].day
        /\ n.made = s[i].made /\ n.fresh = s[i].fresh
    BY <2>1, <2>4, <2>6 DEF Record
  <2>. QED
    BY <2>1, <2>5 DEF d, n
<1>2. ASSUME NEW i \in Slot, i \notin From(usQFontStart)
      PROVE  Renumbered(s)[i] = s[i]
  BY <1>2 DEF Renumbered
<1>3. Blank \notin Record
  BY ConstantsAssumption
<1>4. Renumbered(s) = [i \in Slot |-> Renumbered(s)[i]]
  BY DEF Renumbered
<1>5. ASSUME NEW i \in Slot PROVE Renumbered(s)[i] \in Record \cup {Blank}
  BY <1>1, <1>2 DEF Slots
<1>6. Renumbered(s) \in Slots
  BY <1>4, <1>5 DEF Slots
<1>. QED
  BY <1>1, <1>2, <1>3, <1>6

-----------------------------------------------------------------------------
(* What the steps leave alone, and what a new day can do to the ring.      *)

LEMMA Groups == [Next]_vars => Loop \/ Quiet \/ UpdateCount \/ Resets \/ Boot
BY DEF Next, Loop, Quiet, Resets

LEMMA QuietLeaves ==
  ASSUME Quiet
  PROVE  /\ UNCHANGED <<front, rear, slot, cnt, data_day, scrambled, apart, raced>>
         /\ UNCHANGED <<usQFontStart, pc, adding, usQfront, usQrear, slipped, queued>>
         /\ UNCHANGED <<bGetDatetime, check_data_machine, day_reset>>
<1>1. CASE TimePasses
  BY <1>1 DEF TimePasses, data, ring, local
<1>2. CASE ChangeProcess
  BY <1>2 DEF ChangeProcess, data, ring, local
<1>3. CASE GetPlan
  BY <1>3 DEF GetPlan, data, ring, local
<1>4. CASE GetInfConfig
  BY <1>4 DEF GetInfConfig, data, ring, local
<1>5. CASE CommitInfo
  BY <1>5 DEF CommitInfo, data, ring, local
<1>6. CASE CommitData
  BY <1>6 DEF CommitData, data, ring, local
<1>7. CASE UNCHANGED vars
  BY <1>7 DEF vars, data, ring, local
<1>. QED
  BY <1>1, <1>2, <1>3, <1>4, <1>5, <1>6, <1>7 DEF Quiet

LEMMA LoopLeaves ==
  ASSUME Loop
  PROVE  /\ UNCHANGED <<today, late, bGetDatetime, check_data_machine, day_reset>>
         /\ UNCHANGED <<len_plan, idx_plan, daily_product_reset, data_day, scrambled, raced>>
         /\ UNCHANGED <<usQFontStart, flag_info, flag_data, flash_info, flash_data>>
<1>1. InLoop
  BY DEF Loop, AddQueueProductData, WriteRecord, WriteCounter, WriteFront, SendDataOutput,
         WriteRear
<1>. QED
  BY <1>1 DEF InLoop, time, config, flags, disk

Restamps == /\ slot' = UpdateTimeEEPROM
            /\ raced' \in MayRace
            /\ UNCHANGED <<front, rear, cnt, scrambled, apart, slipped>>

Empties == /\ slot' \in {slot, UpdateTimeEEPROM}
           /\ ResetProduction

Renumbers ==
  LET s == UpdateTimeEEPROM
  IN  /\ front # usQFontStart
      /\ slot' = Renumbered(s)
      /\ cnt' = [p \in Plan |-> [t \in TYPES |->
                   IF p = idx_plan THEN Number(s, t, LEN_Q_BUFF) ELSE cnt[p][t] % 65536]]
      /\ rear' = usQFontStart
      /\ scrambled' = (front < usQFontStart) /\ apart' = {}
      /\ raced' = (raced \/ pc # "idle")
      /\ UNCHANGED <<front, slipped>>

Leaves == /\ raced' \in MayRace
          /\ UNCHANGED <<front, rear, slot, cnt, scrambled, apart, slipped>>

LEMMA DateTimeOutcomes ==
  ASSUME GetDateTime
  PROVE  Restamps \/ Empties \/ Renumbers
<1>1. CASE CheckResetNewDay
  <2>1. CASE daily_product_reset
    <3>1. CASE front = usQFontStart
      BY <1>1, <2>1, <3>1
      DEF GetDateTime, ResetDataWhenNewDay, UpdateOutputValueEEPROM, Empties
    <3>2. CASE front # usQFontStart
      BY <1>1, <2>1, <3>2
      DEF GetDateTime, ResetDataWhenNewDay, UpdateOutputValueEEPROM, Renumbers
    <3>. QED
      BY <3>1, <3>2
  <2>2. CASE ~daily_product_reset
    BY <1>1, <2>2 DEF GetDateTime, ResetDataWhenNewDay, Restamps
  <2>. QED
    BY <2>1, <2>2
<1>2. CASE ~CheckResetNewDay
  BY <1>2 DEF GetDateTime, Restamps
<1>. QED
  BY <1>1, <1>2

LEMMA TimerOutcomes ==
  ASSUME T300s \/ T60s
  PROVE  slot' = slot /\ (Leaves \/ Empties)
<1>1. CASE T300s
  BY <1>1 DEF T300s, ResetDataWhenNewDay, Leaves, Empties
<1>2. CASE T60s
  BY <1>2 DEF T60s, CheckAndResetDataMachine, Leaves, Empties, MayRace
<1>. QED
  BY <1>1, <1>2

LEMMA ResetOutcomes ==
  ASSUME Resets
  PROVE  Restamps \/ Empties \/ Renumbers \/ Leaves
BY DateTimeOutcomes, TimerOutcomes DEF Resets

LEMMA ResetsLeave ==
  ASSUME Resets
  PROVE  /\ UNCHANGED <<today, late, len_plan, idx_plan, daily_product_reset, usQFontStart>>
         /\ UNCHANGED <<flash_info, flash_data, pc, adding, usQfront, usQrear, queued>>
         /\ bGetDatetime' = bGetDatetime \/ bGetDatetime' = TRUE
         /\ GetDateTime \/ bGetDatetime' = bGetDatetime
BY DEF Resets, GetDateTime, T300s, T60s, time, config, disk, local

(* A ring that was raced with is one again only when loop() is idle, after *)
(* it was emptied.                                                         *)
LEMMA RacedNoMore ==
  ASSUME Typed, Resets, ~raced'
  PROVE  pc' = pc /\ (raced => Empties /\ pc = "idle")
         /\ (~raced => Restamps \/ Leaves \/ pc = "idle")
<1>0. raced \in BOOLEAN /\ pc' = pc
  BY ResetsLeave DEF Typed, DataTyped
<1>1. raced' \in MayRace => ~raced
  BY <1>0 DEF MayRace
<1>2. CASE Restamps
  BY <1>0, <1>1, <1>2 DEF Restamps
<1>3. CASE Empties
  <2>1. raced' = (pc # "idle")
    BY <1>3 DEF Empties, ResetProduction
  <2>2. pc = "idle"
    BY <2>1
  <2>. QED
    BY <1>0, <1>3, <2>2
<1>4. CASE Renumbers
  <2>1. raced' = (raced \/ pc # "idle")
    BY <1>4 DEF Renumbers
  <2>2. ~raced /\ pc = "idle"
    BY <1>0, <2>1
  <2>. QED
    BY <1>0, <2>2
<1>5. CASE Leaves
  BY <1>0, <1>1, <1>5 DEF Leaves
<1>. QED
  BY <1>2, <1>3, <1>4, <1>5, ResetOutcomes

LEMMA NewCounts ==
  ASSUME RingTyped, CntTyped, Renumbers
  PROVE  cnt' \in Counts
<1> DEFINE s == UpdateTimeEEPROM
<1> HIDE DEF s
<1>1. ASSUME NEW p \in Plan, NEW t \in TYPES
      PROVE  /\ Number(s, t, LEN_Q_BUFF) \in Count
             /\ cnt[p][t] % 65536 \in Count
  <2>1. cnt[p][t] \in Count
    BY DEF CntTyped, Counts
  <2>2. Number(s, t, LEN_Q_BUFF) \in Count
    BY NumberTyped DEF Count
  <2>3. cnt[p][t] % 65536 \in Count
    BY <2>1, CountFacts
  <2>. QED
    BY <2>2, <2>3
<1>2. cnt' = [p \in Plan |-> [t \in TYPES |->
                IF p = idx_plan THEN Number(s, t, LEN_Q_BUFF) ELSE cnt[p][t] % 65536]]
  BY DEF Renumbers, s
<1>. QED
  BY <1>1, <1>2 DEF Counts

-----------------------------------------------------------------------------
(* Every variable keeps its type.                                          *)

LEMMA QuietTyped ==
  ASSUME Typed, Quiet
  PROVE  Typed'
<1>1. RingTyped' /\ SlotsTyped' /\ CntTyped' /\ DataTyped' /\ LocalTyped' /\ QueuedTyped'
  BY QuietLeaves
  DEF Typed, RingTyped, SlotsTyped, CntTyped, DataTyped, LocalTyped, QueuedTyped, Adding
<1>2. TimeTyped'
  <2>1. CASE TimePasses
    <3>1. late' \in BOOLEAN /\ (today' = today \/ (today < DAYS /\ today' = today + 1))
      BY <2>1 DEF TimePasses
    <3>2. today' \in Day
      BY <3>1, ConstantsAssumption DEF Typed, TimeTyped, Day
    <3>. QED
      BY <3>1, <3>2, QuietLeaves DEF Typed, TimeTyped
  <2>2. CASE ~TimePasses
    <3>1. UNCHANGED <<today, late>>
      BY <2>2 DEF Quiet, ChangeProcess, GetPlan, GetInfConfig, CommitInfo, CommitData, vars, time
    <3>. QED
      BY <3>1, QuietLeaves DEF Typed, TimeTyped
  <2>. QED
    BY <2>1, <2>2
<1>3. PlanTyped'
  <2>1. CASE ChangeProcess
    <3>1. MAX_PLAN \in Nat \ {0} /\ len_plan \in Nat \ {0} /\ idx_plan + 1 \in Nat
      BY <2>1, ConstantsAssumption DEF ChangeProcess, Plan, Typed, PlanTyped
    <3>2. (idx_plan + 1) % len_plan \in 0 .. len_plan - 1
      BY <3>1
    <3>. QED
      BY <2>1, <3>1, <3>2 DEF ChangeProcess, Plan, Typed, PlanTyped
  <2>2. CASE GetPlan
    <3>1. MAX_PLAN \in Nat \ {0}
      BY ConstantsAssumption
    <3>2. \A n \in PLANS : n \in Nat /\ n <= MAX_PLAN /\ n > 0
      BY <3>1, PlansFit
    <3>. QED
      BY <2>2, <3>1, <3>2 DEF GetPlan, Plan, Typed, PlanTyped
  <2>3. CASE GetInfConfig
    <3>1. CONFIGS \in SUBSET BOOLEAN
      BY ConstantsAssumption
    <3>. QED
      BY <2>3, <3>1 DEF GetInfConfig, Typed, PlanTyped
  <2>4. CASE TimePasses \/ CommitInfo \/ CommitData \/ UNCHANGED vars
    BY <2>4 DEF TimePasses, CommitInfo, CommitData, vars, config, Typed, PlanTyped
  <2>. QED
    BY <2>1, <2>2, <2>3, <2>4 DEF Quiet
<1>4. FlashTyped'
  <2>1. CASE CommitInfo
    BY <2>1 DEF CommitInfo, Info, Typed, PlanTyped, FlashTyped
  <2>2. CASE CommitData
    <3>1. PICK torn \in BOOLEAN : flash_data' = [Data EXCEPT !.raced = @ \/ torn]
      BY <2>2 DEF CommitData, Torn
    <3>2. Data \in DataType
      BY DEF Data, DataType, Typed, RingTyped, SlotsTyped, Slots, CntTyped, Counts, DataTyped
    <3>3. flash_data' \in DataType
      <4>1. flash_data' = [Data EXCEPT !.raced = (raced \/ torn)]
        BY <3>1 DEF Data
      <4>2. (raced \/ torn) \in BOOLEAN
        OBVIOUS
      <4>3. \A b \in BOOLEAN : [Data EXCEPT !.raced = b] \in DataType
        BY <3>2 DEF DataType
      <4>. QED
        BY <4>1, <4>2, <4>3
    <3>. QED
      BY <2>2, <3>3 DEF CommitData, Typed, FlashTyped
  <2>3. CASE TimePasses \/ ChangeProcess \/ GetPlan \/ GetInfConfig \/ UNCHANGED vars
    BY <2>3 DEF TimePasses, ChangeProcess, GetPlan, GetInfConfig, vars, disk, Typed, FlashTyped
  <2>. QED
    BY <2>1, <2>2, <2>3 DEF Quiet
<1>5. FlagsTyped'
  <2>1. CASE TimePasses
    <3>1. overtaken' = overtaken \/ overtaken' = overtaken \cup {front}
                 \/ overtaken' = overtaken \cup {}
      BY <2>1 DEF TimePasses
    <3>. QED
      BY <2>1, <3>1 DEF TimePasses, flags, Typed, FlagsTyped, RingTyped
  <2>2. CASE ~TimePasses
    BY <2>2
    DEF Quiet, ChangeProcess, GetPlan, GetInfConfig, CommitInfo, CommitData, vars, flags,
        Typed, FlagsTyped
  <2>. QED
    BY <2>1, <2>2
<1>. QED
  BY <1>1, <1>2, <1>3, <1>4, <1>5 DEF Typed

LEMMA LoopTyped ==
  ASSUME Typed, Loop
  PROVE  Typed'
<1>1. TimeTyped' /\ PlanTyped' /\ FlashTyped'
  BY LoopLeaves DEF Typed, TimeTyped, PlanTyped, FlashTyped
<1>2. front \in Slot /\ rear \in Slot /\ IncIdx(front) \in Slot /\ IncIdx(rear) \in Slot
      /\ 0 \in Slot /\ usQfront \in Slot /\ usQrear \in Slot /\ usQFontStart \in Slot
      /\ idx_plan \in Plan /\ today \in Day /\ Stamp \in Day \cup {Unset}
  BY IndexSteps, InSlot DEF Typed, RingTyped, LocalTyped, PlanTyped, TimeTyped, Stamp
<1>3. usQFontStart' = usQFontStart /\ data_day' = data_day /\ scrambled' = scrambled
      /\ raced' = raced /\ flag_info' = flag_info /\ flag_data' = flag_data
  BY LoopLeaves
<1>4. Adding => /\ adding \in Draft /\ adding.type \in TYPES /\ adding.data \in Count
                /\ adding.plan \in Plan /\ adding.addr \in Plan
                /\ adding.day \in Day \cup {Unset} /\ adding.made \in Day
  BY DEF Typed, LocalTyped, Draft
<1>. USE DEF Typed, RingTyped, SlotsTyped, CntTyped, DataTyped, FlagsTyped, LocalTyped,
             QueuedTyped, Adding
<1>5. CASE AddQueueProductData
  <2>1. PICK t \in TYPES, d \in VALUES :
          adding' = [type |-> t, data |-> d, plan |-> 0, addr |-> 0, day |-> Stamp,
                     made |-> today]
    BY <1>5 DEF AddQueueProductData
  <2>2. 0 \in Plan /\ d \in Count
    BY ConstantsAssumption, CountFacts DEF Plan
  <2>3. adding' \in Draft
    BY <1>2, <2>1, <2>2 DEF Draft
  <2>4. queued' \in 0 .. MAX_RECORD
    BY <1>5, ConstantsAssumption DEF AddQueueProductData
  <2>. QED
    BY <1>1, <1>2, <1>3, <1>5, <2>3, <2>4 DEF AddQueueProductData, ring
<1>6. CASE WriteRecord
  <2>1. PICK d \in (IF usQfront \in overtaken THEN Day \cup {Unset} ELSE {adding.day}) :
          slot' = [slot EXCEPT ![usQfront] =
                    [type |-> adding.type, data |-> adding.data, plan |-> idx_plan, day |-> d,
                     made |-> adding.made, fresh |-> TRUE]]
    BY <1>6 DEF WriteRecord
  <2>2. [type |-> adding.type, data |-> adding.data, plan |-> idx_plan, day |-> d,
         made |-> adding.made, fresh |-> TRUE] \in Record
    BY <1>2, <1>4, <1>6, <2>1 DEF WriteRecord, Record
  <2>3. slot' \in Slots
    BY <2>1, <2>2 DEF Slots
  <2>4. adding' \in Draft
    BY <1>2, <1>4, <1>6 DEF WriteRecord, Draft
  <2>. QED
    BY <1>1, <1>2, <1>3, <1>6, <2>3, <2>4 DEF WriteRecord
<1>7. CASE WriteCounter
  <2>1. adding' \in Draft
    BY <1>2, <1>4, <1>7 DEF WriteCounter, Draft
  <2>2. cnt' \in Counts
    BY <1>2, <1>4, <1>7 DEF WriteCounter, Counts
  <2>3. apart' \in SUBSET Pair
    BY <1>2, <1>4, <1>7 DEF WriteCounter, Pair
  <2>. QED
    BY <1>1, <1>2, <1>3, <1>7, <2>1, <2>2, <2>3 DEF WriteCounter, ring
<1>8. CASE WriteFront
  <2>1. apart' \in SUBSET Pair /\ slipped' \in BOOLEAN
    BY <1>8 DEF WriteFront, TimeTyped
  <2>2. LocalTyped'
    BY <1>2, <1>8 DEF WriteFront, Idle
  <2>. QED
    BY <1>1, <1>2, <1>3, <1>8, <2>1, <2>2 DEF WriteFront
<1>9. CASE SendDataOutput
  BY <1>1, <1>2, <1>3, <1>9 DEF SendDataOutput, ring
<1>10. CASE WriteRear
  BY <1>1, <1>2, <1>3, <1>10 DEF WriteRear, Idle
<1>. QED
  BY <1>5, <1>6, <1>7, <1>8, <1>9, <1>10 DEF Loop

LEMMA UpdateCountTyped ==
  ASSUME Typed, UpdateCount
  PROVE  Typed'
<1>. USE DEF Typed
<1>1. PICK t \in TYPES, d \in VALUES :
        /\ slot' = [slot EXCEPT ![front] =
                      [type |-> t, data |-> d, plan |-> idx_plan, day |-> Stamp,
                       made |-> today, fresh |-> TRUE]]
        /\ cnt' = [cnt EXCEPT ![idx_plan][t] = d]
        /\ apart' = apart \ {<<idx_plan, t>>}
  BY DEF UpdateCount
<1>2. front \in Slot /\ rear \in Slot /\ IncIdx(front) \in Slot /\ IncIdx(rear) \in Slot
      /\ idx_plan \in Plan /\ today \in Day /\ Stamp \in Day \cup {Unset} /\ d \in Count
  BY IndexSteps, CountFacts DEF RingTyped, PlanTyped, TimeTyped, Stamp
<1>3. [type |-> t, data |-> d, plan |-> idx_plan, day |-> Stamp,
       made |-> today, fresh |-> TRUE] \in Record
  BY <1>2 DEF Record
<1>4. SlotsTyped' /\ CntTyped'
  BY <1>1, <1>2, <1>3 DEF SlotsTyped, Slots, CntTyped, Counts
<1>5. TimeTyped' /\ PlanTyped' /\ FlashTyped'
  BY DEF UpdateCount, time, config, disk, TimeTyped, PlanTyped, FlashTyped
<1>6. RingTyped' /\ LocalTyped'
  BY <1>2 DEF UpdateCount, RingTyped, LocalTyped, local, Adding
<1>7. DataTyped' /\ FlagsTyped'
  BY <1>1 DEF UpdateCount, DataTyped, FlagsTyped, TimeTyped, flags
<1>8. QueuedTyped'
  BY ConstantsAssumption DEF UpdateCount, QueuedTyped
<1>. QED
  BY <1>4, <1>5, <1>6, <1>7, <1>8

LEMMA ResetsTyped ==
  ASSUME Typed, Resets
  PROVE  Typed'
<1>. USE DEF Typed
<1>0. Restamps \/ Empties \/ Renumbers \/ Leaves
  BY ResetOutcomes
<1>1. TimeTyped'
  BY DEF Resets, GetDateTime, T300s, T60s, time, TimeTyped
<1>2. PlanTyped'
  <2>1. day_reset' = day_reset \/ day_reset' = today
    BY DEF Resets, GetDateTime, T300s, T60s, ResetDataWhenNewDay
  <2>. QED
    BY <2>1, ResetsLeave DEF PlanTyped, TimeTyped
<1>3. FlashTyped' /\ LocalTyped' /\ QueuedTyped'
  BY ResetsLeave DEF FlashTyped, LocalTyped, QueuedTyped, Adding
<1>4. RingTyped' /\ CntTyped'
  BY <1>0, ResetsLeave, NewCounts, CountFacts, InSlot
  DEF RingTyped, CntTyped, Restamps, Empties, Renumbers, Leaves, ResetProduction
<1>5. SlotsTyped'
  <2>1. UpdateTimeEEPROM \in Slots /\ Renumbered(UpdateTimeEEPROM) \in Slots
    BY Restamped, RenumberedRing
  <2>. QED
    BY <1>0, <2>1 DEF Restamps, Empties, Renumbers, Leaves, SlotsTyped
<1>6. DataTyped'
  <2>1. data_day' \in Day
    <3>1. data_day' = data_day \/ data_day' = today
      BY DEF Resets, GetDateTime, T300s, T60s, ResetDataWhenNewDay
    <3>. QED
      BY <3>1 DEF DataTyped, TimeTyped
  <2>2. scrambled' \in BOOLEAN /\ raced' \in BOOLEAN /\ apart' \in SUBSET Pair
    <3>1. CASE Restamps \/ Leaves
      BY <3>1 DEF Restamps, Leaves, MayRace, DataTyped
    <3>2. CASE Empties
      BY <3>2 DEF Empties, ResetProduction
    <3>3. CASE Renumbers
      <4>1. /\ scrambled' = (front < usQFontStart) /\ apart' = {}
            /\ raced' = (raced \/ pc # "idle")
        BY <3>3 DEF Renumbers
      <4>2. (front < usQFontStart) \in BOOLEAN /\ (raced \/ pc # "idle") \in BOOLEAN
        OBVIOUS
      <4>. QED
        BY <4>1, <4>2
    <3>. QED
      BY <1>0, <3>1, <3>2, <3>3
  <2>. QED
    BY <2>1, <2>2 DEF DataTyped
<1>7. FlagsTyped'
  <2>1. flag_info' \in BOOLEAN /\ flag_data' \in BOOLEAN
    BY DEF Resets, GetDateTime, T300s, T60s, ResetDataWhenNewDay, RequestCommit, FlagsTyped
  <2>2. slipped' \in BOOLEAN
    <3>1. slipped' = slipped \/ slipped' = (slipped \/ ~bGetDatetime)
      BY <1>0 DEF Restamps, Empties, Renumbers, Leaves, ResetProduction
    <3>. QED
      BY <3>1, Zenon DEF FlagsTyped
  <2>3. overtaken' \in SUBSET Slot
    <3>1. front \in Slot /\ overtaken \in SUBSET Slot
      BY DEF RingTyped, FlagsTyped
    <3>2. PICK a, b \in SUBSET Slot : overtaken' = Overtakes(overtaken, a, b)
      <4>1. From(usQFontStart) \in SUBSET Slot /\ {} \in SUBSET Slot /\ {front} \in SUBSET Slot
        BY <3>1 DEF From
      <4>. QED
        BY <4>1 DEF Resets, GetDateTime, T300s, T60s
    <3>. QED
      BY <3>1, <3>2 DEF Overtakes
  <2>. QED
    BY <2>1, <2>2, <2>3 DEF FlagsTyped
<1>. QED
  BY <1>1, <1>2, <1>3, <1>4, <1>5, <1>6, <1>7

LEMMA BootTyped ==
  ASSUME Typed, Boot
  PROVE  Typed'
<1>. USE DEF Typed
<1>1. flash_data \in DataType /\ flash_info \in [day : Day, idx : Plan, daily : BOOLEAN]
  BY DEF FlashTyped
<1>2. flash_data.slot \in Slots /\ flash_data.cnt \in Counts
  BY <1>1 DEF DataType, Slots, Counts
<1>3. SlotsTyped' /\ CntTyped'
  BY <1>2, AgedRing DEF Boot, SlotsTyped, CntTyped
<1>4. RingTyped' /\ DataTyped'
  BY <1>1 DEF Boot, RingTyped, DataTyped, DataType
<1>5. TimeTyped' /\ PlanTyped'
  <2>1. 0 \in 0 .. MAX_PLAN
    BY ConstantsAssumption
  <2>. QED
    BY <1>1, <2>1 DEF Boot, TimeTyped, PlanTyped, time
<1>6. FlashTyped' /\ FlagsTyped' /\ QueuedTyped'
  BY DEF Boot, FlashTyped, FlagsTyped, QueuedTyped, disk
<1>7. LocalTyped'
  BY InSlot DEF Boot, Idle, LocalTyped, Adding
<1>. QED
  BY <1>3, <1>4, <1>5, <1>6, <1>7

LEMMA TypedStays == Typed /\ [Next]_vars => Typed'
BY Groups, QuietTyped, LoopTyped, UpdateCountTyped, ResetsTyped, BootTyped

-----------------------------------------------------------------------------
(* What the writing steps write.                                           *)

LEMMA RecordWritten ==
  ASSUME Typed, WriteRecord
  PROVE  /\ pc = "record" /\ pc' = "counter" /\ usQfront \in Slot
         /\ UNCHANGED <<front, rear, cnt, apart, slipped, overtaken, usQfront, usQrear>>
         /\ \A i \in Slot : i # usQfront => slot'[i] = slot[i]
         /\ slot'[usQfront] # Blank /\ slot'[usQfront].fresh
         /\ slot'[usQfront].type = adding.type /\ slot'[usQfront].data = adding.data
         /\ slot'[usQfront].plan = idx_plan /\ slot'[usQfront].made = adding.made
         /\ usQfront \notin overtaken => slot'[usQfront].day = adding.day
         /\ adding'.type = adding.type /\ adding'.data = adding.data
         /\ adding'.plan = idx_plan /\ adding'.made = adding.made
<1>1. PICK d \in (IF usQfront \in overtaken THEN Day \cup {Unset} ELSE {adding.day}) :
        slot' = [slot EXCEPT ![usQfront] =
                  [type |-> adding.type, data |-> adding.data, plan |-> idx_plan, day |-> d,
                   made |-> adding.made, fresh |-> TRUE]]
  BY DEF WriteRecord
<1> DEFINE new == [type |-> adding.type, data |-> adding.data, plan |-> idx_plan, day |-> d,
                   made |-> adding.made, fresh |-> TRUE]
<1>2. adding \in Draft /\ usQfront \in Slot /\ slot \in Slots
  BY DEF WriteRecord, Typed, LocalTyped, SlotsTyped, Adding
<1>3. new \in Record
  BY <1>1, <1>2 DEF Draft, Record, Typed, PlanTyped
<1>4. /\ new.type = adding.type /\ new.data = adding.data /\ new.plan = idx_plan
      /\ new.day = d /\ new.made = adding.made /\ new.fresh
  OBVIOUS
<1>5. slot'[usQfront] = new /\ \A i \in Slot : i # usQfront => slot'[i] = slot[i]
  BY <1>1, <1>2 DEF Slots
<1>6. /\ adding'.type = adding.type /\ adding'.data = adding.data
      /\ adding'.plan = idx_plan /\ adding'.made = adding.made
  BY <1>2 DEF WriteRecord, Draft
<1> HIDE DEF new
<1>7. slot'[usQfront] # Blank
  BY <1>3, <1>5, BlankIsNoRecord
<1>8. usQfront \notin overtaken => d = adding.day
  BY <1>1
<1>. QED
  BY <1>2, <1>4, <1>5, <1>6, <1>7, <1>8 DEF WriteRecord

LEMMA CounterWritten ==
  ASSUME Typed, WriteCounter
  PROVE  /\ pc = "counter" /\ pc' = "front" /\ usQfront' = IncIdx(front)
         /\ UNCHANGED <<front, rear, slot, slipped, overtaken, usQrear>>
         /\ adding'.type = adding.type /\ adding'.data = adding.data
         /\ adding'.plan = adding.plan /\ adding'.made = adding.made
         /\ adding'.addr = idx_plan
         /\ cnt'[idx_plan][adding.type] = adding.data
         /\ <<adding.plan, adding.type>> \in apart' /\ apart \subseteq apart'
         /\ \A p \in Plan, t \in TYPES : <<p, t>> \in apart' \/ cnt'[p][t] = cnt[p][t]
<1>1. /\ adding \in Draft /\ idx_plan \in Plan /\ cnt \in Counts
      /\ adding.type \in TYPES
  BY DEF WriteCounter, Typed, LocalTyped, PlanTyped, CntTyped, Adding, Draft
<1>2. /\ cnt' = [cnt EXCEPT ![idx_plan][adding.type] = adding.data]
      /\ apart' = apart \cup {<<idx_plan, adding.type>>, <<adding.plan, adding.type>>}
      /\ adding' = [adding EXCEPT !.addr = idx_plan]
  BY DEF WriteCounter
<1>3. /\ cnt'[idx_plan][adding.type] = adding.data
      /\ \A p \in Plan, t \in TYPES : (p = idx_plan /\ t = adding.type) \/ cnt'[p][t] = cnt[p][t]
  BY <1>1, <1>2 DEF Counts
<1>4. /\ adding'.type = adding.type /\ adding'.data = adding.data
      /\ adding'.plan = adding.plan /\ adding'.made = adding.made /\ adding'.addr = idx_plan
  BY <1>1, <1>2 DEF Draft
<1>. QED
  BY <1>2, <1>3, <1>4 DEF WriteCounter, ring

LEMMA CountUpdated ==
  ASSUME Typed, UpdateCount
  PROVE  /\ front' = IncIdx(front)
         /\ rear' = IF IncIdx(front) = rear THEN IncIdx(rear) ELSE rear
         /\ \A i \in Slot : i # front => slot'[i] = slot[i]
         /\ slot'[front] # Blank /\ slot'[front].fresh
         /\ slot'[front].type \in TYPES /\ slot'[front].plan = idx_plan
         /\ slot'[front].made = today /\ slot'[front].day = Stamp
         /\ cnt'[idx_plan][slot'[front].type] = slot'[front].data
         /\ \A p \in Plan, t \in TYPES :
              (p = idx_plan /\ t = slot'[front].type) \/ cnt'[p][t] = cnt[p][t]
         /\ apart' = apart \ {<<idx_plan, slot'[front].type>>}
         /\ slipped' = (slipped \/ (~bGetDatetime /\ front' = 0))
         /\ overtaken' = overtaken \ {front}
         /\ raced' = (raced \/ pc # "idle")
         /\ UNCHANGED <<today, bGetDatetime, idx_plan, scrambled, usQFontStart, flash_data>>
         /\ UNCHANGED <<pc, adding, usQfront, usQrear>>
<1>1. PICK t \in TYPES, d \in VALUES :
        /\ slot' = [slot EXCEPT ![front] =
                      [type |-> t, data |-> d, plan |-> idx_plan, day |-> Stamp,
                       made |-> today, fresh |-> TRUE]]
        /\ cnt' = [cnt EXCEPT ![idx_plan][t] = d]
        /\ apart' = apart \ {<<idx_plan, t>>}
        /\ front' = IncIdx(front)
        /\ rear' = IF front' = rear THEN IncIdx(rear) ELSE rear
  BY DEF UpdateCount
<1> DEFINE new == [type |-> t, data |-> d, plan |-> idx_plan, day |-> Stamp,
                   made |-> today, fresh |-> TRUE]
<1>2. new \in Record
  <2>1. Stamp \in Day \cup {Unset}
    BY DEF Stamp, Typed, TimeTyped
  <2>. QED
    BY <2>1, CountFacts DEF Record, Typed, TimeTyped, PlanTyped
<1>3. /\ new.type = t /\ new.data = d /\ new.plan = idx_plan /\ new.day = Stamp
      /\ new.made = today /\ new.fresh
  OBVIOUS
<1>4. slot'[front] = new /\ \A i \in Slot : i # front => slot'[i] = slot[i]
  BY <1>1 DEF Typed, RingTyped, SlotsTyped, Slots
<1>5. /\ cnt'[idx_plan][t] = d
      /\ \A p \in Plan, u \in TYPES : (p = idx_plan /\ u = t) \/ cnt'[p][u] = cnt[p][u]
  BY <1>1 DEF Typed, PlanTyped, CntTyped, Counts
<1> HIDE DEF new
<1>6. slot'[front] # Blank
  BY <1>2, <1>4, BlankIsNoRecord
<1>7. /\ slipped' = (slipped \/ (~bGetDatetime /\ front' = 0))
      /\ overtaken' = overtaken \ {front}
      /\ raced' = (raced \/ pc # "idle")
      /\ UNCHANGED <<today, bGetDatetime, idx_plan, scrambled, usQFontStart, flash_data>>
      /\ UNCHANGED <<pc, adding, usQfront, usQrear>>
  BY DEF UpdateCount, time, config, disk, local
<1>. QED
  BY <1>1, <1>3, <1>4, <1>5, <1>6, <1>7

-----------------------------------------------------------------------------
(* The parts of the invariant.                                             *)

LEMMA LoopInStep ==
  ASSUME Typed, InStep, Loop
  PROVE  InStep'
<1>. USE DEF InStep
<1>1. CASE AddQueueProductData
  BY <1>1 DEF AddQueueProductData, ring
<1>2. CASE WriteRecord
  BY <1>2, RecordWritten
<1>3. CASE WriteCounter
  BY <1>3, CounterWritten
<1>4. CASE WriteFront
  BY <1>4 DEF WriteFront, Idle
<1>5. CASE SendDataOutput
  BY <1>5 DEF SendDataOutput, ring
<1>6. CASE WriteRear
  BY <1>6 DEF WriteRear, Idle
<1>. QED
  BY <1>1, <1>2, <1>3, <1>4, <1>5, <1>6 DEF Loop

LEMMA IdleInStep == ASSUME pc = "idle" PROVE InStep
BY DEF InStep

LEMMA StepStays ==
  ASSUME Typed, StepInv, [Next]_vars
  PROVE  StepInv'
<1> SUFFICES ASSUME ~raced' PROVE InStep'
  BY DEF StepInv
<1>1. CASE Loop
  BY <1>1, LoopLeaves, LoopInStep DEF StepInv
<1>2. CASE Quiet
  <2>1. /\ UNCHANGED <<front, rear, slot, cnt, apart, raced>>
        /\ UNCHANGED <<pc, adding, usQfront, usQrear>>
    BY <1>2, QuietLeaves
  <2>2. InStep
    BY <2>1 DEF StepInv
  <2>. QED
    BY <2>1, <2>2 DEF InStep
<1>3. CASE UpdateCount
  <2>1. raced' = (raced \/ pc # "idle") /\ pc' = pc
    BY <1>3, CountUpdated
  <2>2. pc' = "idle"
    BY <2>1
  <2>. QED
    BY <2>2 DEF InStep
<1>4. CASE Resets
  <2>1. pc' = pc /\ (raced => pc = "idle") /\ (~raced => Restamps \/ Leaves \/ pc = "idle")
    BY <1>4, RacedNoMore
  <2>2. CASE pc = "idle"
    BY <2>1, <2>2 DEF InStep
  <2>3. CASE pc # "idle" /\ Leaves
    <3>1. InStep
      BY <2>1, <2>3 DEF StepInv
    <3>. QED
      BY <1>4, <2>3, <3>1, ResetsLeave DEF Leaves, InStep
  <2>4. CASE pc # "idle" /\ Restamps
    <3>1. InStep
      BY <2>1, <2>4 DEF StepInv
    <3>2. front \in Slot /\ slot' = UpdateTimeEEPROM
      BY <2>4 DEF Restamps, Typed, RingTyped
    <3>3. pc \in {"counter", "front"} =>
            /\ slot'[front] # Blank /\ slot'[front].fresh
            /\ slot'[front].type = adding.type /\ slot'[front].data = adding.data
            /\ slot'[front].plan = adding.plan
      BY <3>1, <3>2, Restamped DEF InStep, Typed
    <3>. QED
      BY <1>4, <2>4, <3>1, <3>3, ResetsLeave DEF Restamps, InStep
  <2>. QED
    BY <2>1, <2>2, <2>3, <2>4
<1>5. CASE Boot
  BY <1>5 DEF Boot, Idle, InStep
<1>. QED
  BY <1>1, <1>2, <1>3, <1>4, <1>5, Groups

(* A record put into the ring is one since the boot.                       *)
LEMMA OneMoreSinceBoot ==
  ASSUME RingTyped, BootRecords, front' = IncIdx(front),
         \A i \in Slot : i # front => slot'[i] = slot[i],
         slot'[front] # Blank /\ slot'[front].fresh,
         slipped' = (slipped \/ (~bGetDatetime /\ front' = 0)),
         UNCHANGED <<bGetDatetime, usQFontStart>>
  PROVE  BootRecords'
<1>1. front \in Nat /\ usQFontStart \in Nat /\ front \in Slot /\ \A i \in Slot : i \in Nat
  BY InSlot DEF RingTyped
<1>2. front' = 0 \/ front' = front + 1
  BY <1>1, IndexSteps
<1>3. ASSUME NEW i \in Slot, usQFontStart <= i, i < front'
      PROVE  slot'[i] # Blank /\ slot'[i].fresh
  <2>1. i < front \/ i = front
    BY <1>1, <1>2, <1>3
  <2>2. CASE i = front
    BY <2>2
  <2>3. CASE i # front
    <3>1. i < front /\ slot'[i] = slot[i]
      BY <2>1, <2>3
    <3>. QED
      BY <1>3, <3>1 DEF BootRecords
  <2>. QED
    BY <2>2, <2>3
<1>4. ~bGetDatetime' /\ ~slipped' => usQFontStart' <= front'
  <2>1. CASE front' = 0
    BY <2>1
  <2>2. CASE front' = front + 1
    <3>1. ~bGetDatetime /\ ~slipped => usQFontStart <= front
      BY DEF BootRecords
    <3>2. usQFontStart <= front => usQFontStart' <= front'
      BY <1>1, <2>2
    <3>. QED
      BY <3>1, <3>2
  <2>. QED
    BY <1>2, <2>1, <2>2
<1>. QED
  BY <1>3, <1>4 DEF BootRecords

LEMMA SinceBootStays ==
  ASSUME Typed, StepInv, SinceBoot, [Next]_vars
  PROVE  SinceBoot'
<1> SUFFICES ASSUME ~raced' PROVE BootRecords'
  BY DEF SinceBoot
<1>1. CASE Loop
  <2>1. BootRecords /\ InStep
    BY <1>1, LoopLeaves DEF SinceBoot, StepInv
  <2>2. UNCHANGED <<bGetDatetime, usQFontStart>>
    BY <1>1, LoopLeaves
  <2>3. CASE WriteRecord
    <3>1. usQfront = front /\ front \in Slot
      BY <2>1, <2>3 DEF InStep, WriteRecord, Typed, RingTyped
    <3>2. \A i \in Slot : i < front => i # front
      BY <3>1, InSlot
    <3>. QED
      BY <2>1, <2>2, <2>3, <3>1, <3>2, RecordWritten DEF BootRecords
  <2>4. CASE WriteFront
    <3>1. /\ front' = IncIdx(front) /\ slot' = slot
          /\ slipped' = (slipped \/ (~bGetDatetime /\ front' = 0))
          /\ slot[front] # Blank /\ slot[front].fresh
      BY <2>1, <2>4 DEF InStep, WriteFront
    <3>. QED
      BY <2>1, <2>2, <3>1, OneMoreSinceBoot DEF Typed
  <2>5. CASE AddQueueProductData \/ WriteCounter \/ SendDataOutput \/ WriteRear
    <3>1. UNCHANGED <<front, slot, slipped>>
      BY <2>5 DEF AddQueueProductData, WriteCounter, SendDataOutput, WriteRear, ring
    <3>. QED
      BY <2>1, <2>2, <3>1 DEF BootRecords
  <2>. QED
    BY <1>1, <2>3, <2>4, <2>5 DEF Loop
<1>2. CASE Quiet
  BY <1>2, QuietLeaves DEF SinceBoot, BootRecords
<1>3. CASE UpdateCount
  <2>1. ~raced
    <3>1. raced' = (raced \/ pc # "idle")
      BY <1>3, CountUpdated
    <3>. QED
      BY <3>1
  <2>2. RingTyped /\ BootRecords
    BY <2>1 DEF SinceBoot, Typed
  <2>. QED
    BY <1>3, <2>2, CountUpdated, OneMoreSinceBoot
<1>4. CASE Resets
  <2>0. usQFontStart' = usQFontStart /\ (bGetDatetime' = bGetDatetime \/ bGetDatetime' = TRUE)
    BY <1>4, ResetsLeave
  <2>1. \A i \in Slot : i \in Nat
    BY InSlot
  <2>2. CASE Empties
    <3>1. front' = 0 /\ slipped' = (slipped \/ ~bGetDatetime)
      BY <2>2 DEF Empties, ResetProduction
    <3>2. ~(~bGetDatetime' /\ ~slipped')
      BY <2>0, <3>1
    <3>3. \A i \in Slot : ~(i < front')
      BY <2>1, <3>1
    <3>. QED
      BY <3>2, <3>3 DEF BootRecords
  <2>3. CASE ~Empties
    <3>1. ~raced
      BY <1>4, <2>3, RacedNoMore
    <3>2. BootRecords
      BY <3>1 DEF SinceBoot
    <3>3. front' = front /\ slipped' = slipped
      BY <1>4, <2>3, ResetOutcomes DEF Restamps, Renumbers, Leaves
    <3>4. \A i \in Slot : slot[i] # Blank => slot'[i] # Blank /\ slot'[i].fresh = slot[i].fresh
      <4>1. /\ UpdateTimeEEPROM \in Slots
            /\ \A i \in From(usQFontStart) : UpdateTimeEEPROM[i] # Blank
            /\ \A i \in Slot : slot[i] # Blank => /\ UpdateTimeEEPROM[i] # Blank
                                                 /\ UpdateTimeEEPROM[i].fresh = slot[i].fresh
        BY Restamped DEF Typed
      <4>2. \A i \in Slot : UpdateTimeEEPROM[i] # Blank =>
              /\ Renumbered(UpdateTimeEEPROM)[i] # Blank
              /\ Renumbered(UpdateTimeEEPROM)[i].fresh = UpdateTimeEEPROM[i].fresh
        BY <4>1, RenumberedRing DEF Typed
      <4>3. slot' \in {slot, UpdateTimeEEPROM, Renumbered(UpdateTimeEEPROM)}
        BY <1>4, <2>3, ResetOutcomes DEF Restamps, Renumbers, Leaves
      <4>. QED
        BY <4>1, <4>2, <4>3
    <3>. QED
      BY <2>0, <3>2, <3>3, <3>4 DEF BootRecords
  <2>. QED
    BY <2>2, <2>3
<1>5. CASE Boot
  <2>1. front' = usQFontStart' /\ front' \in Nat
    BY <1>5, InSlot DEF Boot, Typed, FlashTyped, DataType
  <2>2. \A i \in Slot : i \in Nat
    BY InSlot
  <2>. QED
    BY <2>1, <2>2 DEF BootRecords
<1>. QED
  BY <1>1, <1>2, <1>3, <1>4, <1>5, Groups

LEMMA DaysKeptStays ==
  ASSUME DaysKept, [Next]_vars
  PROVE  DaysKept'
<1>. USE DEF DaysKept, flags, disk, data
<1>1. CASE Loop
  BY <1>1, LoopLeaves
<1>2. CASE CommitInfo
  BY <1>2, QuietLeaves DEF CommitInfo, Info, Quiet
<1>3. CASE CommitData
  <2>1. PICK torn \in Torn : flash_data' = [Data EXCEPT !.raced = @ \/ torn]
    BY <1>3 DEF CommitData
  <2>2. flash_data'.day = data_day
    BY <2>1 DEF Data
  <2>. QED
    BY <1>3, <2>2 DEF CommitData
<1>4. CASE TimePasses \/ ChangeProcess \/ GetPlan \/ GetInfConfig \/ UNCHANGED vars
  BY <1>4 DEF TimePasses, ChangeProcess, GetPlan, GetInfConfig, vars
<1>5. CASE UpdateCount
  BY <1>5 DEF UpdateCount
<1>6. CASE GetDateTime
  BY <1>6 DEF GetDateTime, ResetDataWhenNewDay, RequestCommit
<1>7. CASE T300s
  BY <1>7 DEF T300s, ResetDataWhenNewDay, RequestCommit
<1>8. CASE T60s
  BY <1>8 DEF T60s, RequestCommit
<1>9. CASE Boot
  BY <1>9 DEF Boot
<1>. QED
  BY <1>1, <1>2, <1>3, <1>4, <1>5, <1>6, <1>7, <1>8, <1>9, Groups DEF Quiet, Resets

LEMMA DayNumbers ==
  ASSUME Typed
  PROVE  /\ today \in Nat /\ today <= today
         /\ \A i \in Slot : slot[i] # Blank => slot[i].made \in Nat /\ slot[i].day \in Nat
         /\ Adding => adding.made \in Nat /\ adding.day \in Nat
<1>1. \A d \in Day \cup {Unset} : d \in Nat
  BY ConstantsAssumption DEF Day, Unset
<1>2. today \in Day
  BY DEF Typed, TimeTyped
<1>3. \A i \in Slot : slot[i] # Blank => slot[i].made \in Day /\ slot[i].day \in Day \cup {Unset}
  BY DEF Typed, SlotsTyped, Slots, Record
<1>4. Adding => adding.made \in Day /\ adding.day \in Day \cup {Unset}
  BY DEF Typed, LocalTyped, Draft
<1>5. today \in Nat
  BY <1>1, <1>2
<1>. QED
  BY <1>1, <1>3, <1>4, <1>5

(* Time goes on.                                                           *)
LEMMA QuietTime ==
  ASSUME Typed, Quiet
  PROVE  /\ \A n \in Nat : n <= today => n <= today'
         /\ overtaken \subseteq overtaken'
<1>1. today \in Nat
  BY DayNumbers
<1>2. CASE TimePasses
  <2>1. /\ today' = today \/ today' = today + 1
        /\ overtaken \subseteq overtaken'
    BY <1>2 DEF TimePasses
  <2>2. \A n \in Nat : n <= today => n <= today + 1
    BY <1>1
  <2>. QED
    BY <2>1, <2>2
<1>3. CASE ~TimePasses
  BY <1>3 DEF Quiet, ChangeProcess, GetPlan, GetInfConfig, CommitInfo, CommitData, vars, time
<1>. QED
  BY <1>2, <1>3

(* What a new day makes of the records, and of the stamps in doubt.        *)
LEMMA ResetsKeepMade ==
  ASSUME Typed, Resets
  PROVE  /\ \A i \in Slot : slot'[i] # Blank /\ slot'[i].fresh =>
              /\ slot[i] # Blank /\ slot[i].fresh /\ slot'[i].made = slot[i].made
              /\ i \notin From(usQFontStart) => slot'[i].day = slot[i].day
              /\ i \in From(usQFontStart) /\ GetDateTime => slot'[i].day = today
         /\ T300s \/ T60s => slot' = slot
<1>. DEFINE s == UpdateTimeEEPROM
            r == Renumbered(s)
<1>. HIDE DEF s, r
<1>1. /\ s \in Slots
      /\ \A i \in From(usQFontStart) : s[i] # Blank
      /\ \A i \in Slot :
           /\ s[i] = Blank <=> slot[i] = Blank
           /\ i \in From(usQFontStart) => s[i].day = today
           /\ i \notin From(usQFontStart) => s[i].day = slot[i].day
           /\ slot[i] # Blank => s[i].made = slot[i].made /\ s[i].fresh = slot[i].fresh
  BY Restamped DEF Typed, s
<1>2. \A i \in Slot :
        /\ r[i] = Blank <=> s[i] = Blank
        /\ s[i] # Blank => r[i].made = s[i].made /\ r[i].fresh = s[i].fresh /\ r[i].day = s[i].day
  BY <1>1, RenumberedRing DEF Typed, r
<1>3. T300s \/ T60s => slot' = slot
  BY TimerOutcomes
<1>4. CASE GetDateTime
  <2>1. slot' = s \/ slot' = r
    BY <1>4 DEF GetDateTime, ResetDataWhenNewDay, UpdateOutputValueEEPROM, s, r
  <2>2. ASSUME NEW i \in Slot, slot'[i] # Blank, slot'[i].fresh
        PROVE  /\ s[i] # Blank /\ s[i].fresh
               /\ slot'[i].made = s[i].made /\ slot'[i].day = s[i].day
    BY <1>2, <2>1, <2>2
  <2>3. ASSUME NEW i \in Slot, slot'[i] # Blank, slot'[i].fresh
        PROVE  /\ slot[i] # Blank /\ slot[i].fresh /\ slot'[i].made = slot[i].made
               /\ i \notin From(usQFontStart) => slot'[i].day = slot[i].day
               /\ i \in From(usQFontStart) => slot'[i].day = today
    BY <1>1, <2>2, <2>3
  <2>. QED
    BY <1>3, <2>3
<1>5. CASE ~GetDateTime
  BY <1>3, <1>5 DEF Resets
<1>. QED
  BY <1>4, <1>5

LEMMA ResetsOvertake ==
  ASSUME Typed, Resets
  PROVE  /\ raced /\ ~raced' => Slot \subseteq overtaken'
         /\ T300s \/ T60s => overtaken \subseteq overtaken'
         /\ GetDateTime => overtaken \ From(usQFontStart) \subseteq overtaken'
         /\ GetDateTime /\ Adding /\ ~bGetDatetime => front \in overtaken'
<1>1. overtaken \subseteq Slot
  BY DEF Typed, FlagsTyped
<1>2. CASE T300s \/ T60s
  <2>1. overtaken' = Overtakes(overtaken, {}, {})
    BY <1>2 DEF T300s, T60s
  <2>2. raced /\ ~raced' => Slot \subseteq overtaken'
    BY <2>1 DEF Overtakes
  <2>3. overtaken \subseteq overtaken'
    BY <1>1, <2>1 DEF Overtakes
  <2>4. ~GetDateTime \/ (overtaken \ From(usQFontStart) \subseteq overtaken')
    BY <2>3
  <2>5. GetDateTime /\ Adding /\ ~bGetDatetime => front \in overtaken'
    BY DEF GetDateTime, Overtakes
  <2>. QED
    BY <2>2, <2>3, <2>4, <2>5
<1>3. CASE GetDateTime
  <2>1. overtaken' = Overtakes(overtaken, From(usQFontStart),
                               IF Adding /\ ~bGetDatetime THEN {front} ELSE {})
    BY <1>3 DEF GetDateTime
  <2>2. raced /\ ~raced' => Slot \subseteq overtaken'
    BY <2>1 DEF Overtakes
  <2>3. overtaken \ From(usQFontStart) \subseteq overtaken'
    BY <1>1, <2>1 DEF Overtakes
  <2>4. Adding /\ ~bGetDatetime => front \in overtaken'
    BY <2>1 DEF Overtakes
  <2>5. T300s \/ T60s => overtaken \subseteq overtaken'
    BY <1>1 DEF T300s, T60s, Overtakes
  <2>. QED
    BY <2>2, <2>3, <2>4, <2>5
<1>. QED
  BY <1>2, <1>3 DEF Resets

LEMMA MadeBeforeStays ==
  ASSUME Typed, MadeBefore, [Next]_vars
  PROVE  MadeBefore'
<1>. USE DEF MadeBefore
<1>1. CASE AddQueueProductData
  <2>1. adding'.made = today /\ slot' = slot /\ today' = today
    BY <1>1, LoopLeaves DEF AddQueueProductData, ring, Loop
  <2>. QED
    BY <2>1, DayNumbers
<1>2. CASE WriteRecord
  <2>1. Adding /\ today' = today
    BY <1>2, RecordWritten, LoopLeaves DEF Adding, Loop
  <2>. QED
    BY <1>2, <2>1, RecordWritten
<1>3. CASE WriteCounter
  <2>1. Adding /\ today' = today
    BY <1>3, CounterWritten, LoopLeaves DEF Adding, Loop
  <2>. QED
    BY <1>3, <2>1, CounterWritten
<1>4. CASE WriteFront \/ SendDataOutput \/ WriteRear
  <2>1. slot' = slot /\ today' = today
    BY <1>4, LoopLeaves DEF WriteFront, SendDataOutput, WriteRear, ring, Loop
  <2>2. ~Adding'
    BY <1>4 DEF WriteFront, SendDataOutput, WriteRear, Idle, Adding
  <2>. QED
    BY <2>1, <2>2
<1>5. CASE Quiet
  <2>1. slot' = slot /\ adding' = adding /\ pc' = pc
    BY <1>5, QuietLeaves
  <2>. QED
    BY <1>5, <2>1, QuietTime, DayNumbers DEF Adding
<1>6. CASE UpdateCount
  <2>1. /\ slot'[front].made = today /\ \A i \in Slot : i # front => slot'[i] = slot[i]
        /\ today' = today /\ adding' = adding /\ pc' = pc
    BY <1>6, CountUpdated
  <2>. QED
    BY <2>1, DayNumbers DEF Adding
<1>7. CASE Resets
  <2>1. today' = today /\ adding' = adding /\ pc' = pc
    BY <1>7, ResetsLeave
  <2>. QED
    BY <1>7, <2>1, ResetsKeepMade DEF Adding
<1>8. CASE Boot
  <2>1. flash_data.slot \in Slots /\ slot' = Aged(flash_data.slot) /\ pc' = "idle"
    BY <1>8 DEF Boot, Idle, Typed, FlashTyped, DataType, Slots
  <2>. QED
    BY <2>1, AgedRing DEF Adding
<1>. QED
  BY <1>1, <1>2, <1>3, <1>4, <1>5, <1>6, <1>7, <1>8, Groups DEF Loop

(* A record put into the ring lies where updateTimeEEPROM finds it.        *)
LEMMA OneMoreFound ==
  ASSUME RingTyped, BootRecords, front' = IncIdx(front),
         slot'[front] # Blank, UNCHANGED usQFontStart,
         \A i \in Slot : i # front => slot'[i] = slot[i],
         ~bGetDatetime, ~slipped, front' # 0,
         NEW i \in Slot, i = front \/ i \in From(usQFontStart)
  PROVE  i \in From(usQFontStart)'
<1>1. front \in Nat /\ usQFontStart \in Nat /\ front \in Slot /\ \A j \in Slot : j \in Nat
  BY InSlot DEF RingTyped
<1>2. front' = front + 1 /\ usQFontStart <= front
  BY <1>1, IndexSteps DEF BootRecords
<1>3. CASE i = front
  BY <1>1, <1>2, <1>3 DEF From
<1>4. CASE i # front
  BY <1>1, <1>2, <1>4 DEF From
<1>. QED
  BY <1>3, <1>4

LEMMA LoopDated ==
  ASSUME Typed, InStep, BootRecords, MadeBefore, \A i \in Slot : SlotDated(i), DraftDated, Loop
  PROVE  (\A i \in Slot : SlotDated(i))' /\ DraftDated'
<1>0. UNCHANGED <<today, bGetDatetime, usQFontStart>>
  BY LoopLeaves
<1>1. CASE AddQueueProductData
  <2>1. /\ pc = "idle" /\ pc' = "record" /\ UNCHANGED <<front, slot, slipped>>
        /\ overtaken' = overtaken \ {front}
        /\ adding'.made = today /\ adding'.day = Stamp
    BY <1>1 DEF AddQueueProductData, ring
  <2>2. From(usQFontStart)' = From(usQFontStart)
    BY <1>0, <2>1 DEF From
  <2>3. ASSUME NEW i \in Slot PROVE SlotDated(i)'
    <3>1. SlotDated(i)
      OBVIOUS
    <3>. QED
      BY <1>0, <2>1, <2>2, <3>1 DEF SlotDated, Found, Plausible
  <2>4. DraftDated'
    BY <1>0, <2>1, DayNumbers DEF DraftDated, Plausible, Stamp
  <2>. QED
    BY <2>3, <2>4
<1>2. CASE WriteRecord
  <2>1. /\ pc = "record" /\ pc' = "counter" /\ UNCHANGED <<front, slipped, overtaken>>
        /\ \A i \in Slot : i # front => slot'[i] = slot[i]
        /\ slot'[front].made = adding.made
        /\ front \notin overtaken => slot'[front].day = adding.day
    BY <1>2, RecordWritten DEF InStep
  <2>2. \A i \in Slot : i # front => (i \in From(usQFontStart)' <=> i \in From(usQFontStart))
    BY <1>0, <2>1 DEF From
  <2>3. ASSUME NEW i \in Slot PROVE SlotDated(i)'
    <3>1. CASE i = front
      BY <1>0, <2>1, <3>1 DEF SlotDated, Found, Plausible, DraftDated
    <3>2. CASE i # front
      <4>1. SlotDated(i)
        OBVIOUS
      <4>. QED
        BY <1>0, <2>1, <2>2, <3>2, <4>1 DEF SlotDated, Found, Plausible
    <3>. QED
      BY <3>1, <3>2
  <2>. QED
    BY <2>1, <2>3 DEF DraftDated
<1>3. CASE WriteFront
  <2>1. /\ pc = "front" /\ front' = IncIdx(front) /\ UNCHANGED <<slot, overtaken>>
        /\ slipped' = (slipped \/ (~bGetDatetime /\ front' = 0))
        /\ slot[front] # Blank /\ pc' # "record"
    BY <1>3 DEF WriteFront, InStep, Idle
  <2>2. ASSUME NEW i \in Slot, ~bGetDatetime, ~slipped', Found(i)
        PROVE  i \in From(usQFontStart)'
    BY <1>0, <2>1, <2>2, OneMoreFound DEF Found, Typed
  <2>3. ASSUME NEW i \in Slot PROVE SlotDated(i)'
    <3>1. SlotDated(i) /\ (~slipped' => ~slipped)
      BY <2>1
    <3>. QED
      BY <1>0, <2>1, <2>2, <3>1 DEF SlotDated, Found, Plausible
  <2>. QED
    BY <2>1, <2>3 DEF DraftDated
<1>4. CASE WriteCounter \/ SendDataOutput \/ WriteRear
  <2>1. /\ UNCHANGED <<front, slot, slipped, overtaken>>
        /\ pc' # "record" /\ pc # "record"
        /\ pc \in {"counter", "front"} => pc' \in {"counter", "front"}
    BY <1>4 DEF WriteCounter, SendDataOutput, WriteRear, Idle, ring
  <2>2. From(usQFontStart)' = From(usQFontStart)
    BY <1>0, <2>1 DEF From
  <2>3. ASSUME NEW i \in Slot PROVE SlotDated(i)'
    <3>1. SlotDated(i)
      OBVIOUS
    <3>. QED
      BY <1>0, <2>1, <2>2, <3>1 DEF SlotDated, Found, Plausible
  <2>. QED
    BY <2>1, <2>3 DEF DraftDated
<1>. QED
  BY <1>1, <1>2, <1>3, <1>4 DEF Loop

LEMMA DateTimeDated ==
  ASSUME Typed, MadeBefore, \A i \in Slot : SlotDated(i), DraftDated, GetDateTime, ~raced, ~raced'
  PROVE  (\A i \in Slot : SlotDated(i))' /\ DraftDated'
<1>0. Resets
  BY DEF Resets
<1>1. /\ bGetDatetime' /\ UNCHANGED <<today, usQFontStart, pc, adding>>
      /\ pc # "idle" => front' = front
      /\ ~slipped' => ~slipped
  <2>1. Restamps \/ Empties \/ Renumbers
    BY DateTimeOutcomes
  <2>2. ~slipped' => ~slipped
    <3>1. slipped' = slipped \/ slipped' = (slipped \/ ~bGetDatetime)
      BY <2>1 DEF Restamps, Empties, Renumbers, ResetProduction
    <3>. QED
      BY <3>1, Zenon
  <2>3. pc # "idle" => Restamps \/ Leaves
    BY <1>0, RacedNoMore
  <2>4. bGetDatetime' = TRUE
    BY DEF GetDateTime
  <2>. QED
    BY <1>0, <2>2, <2>3, <2>4, ResetsLeave DEF Restamps, Leaves
<1>2. /\ overtaken \ From(usQFontStart) \subseteq overtaken'
      /\ Adding /\ ~bGetDatetime => front \in overtaken'
  BY <1>0, ResetsOvertake
<1>3. ASSUME NEW i \in Slot, slot'[i] # Blank, slot'[i].fresh, ~slipped'
      PROVE  \/ Plausible(slot'[i].made, slot'[i].day)
             \/ i \in overtaken'
             \/ i = front /\ pc = "record"
  <2>1. slot[i] # Blank /\ slot[i].fresh /\ slot'[i].made = slot[i].made /\ ~slipped
    BY <1>0, <1>1, <1>3, ResetsKeepMade
  <2>2. CASE i \in From(usQFontStart)
    <3>1. slot'[i].day = today
      BY <1>0, <1>3, <2>2, ResetsKeepMade
    <3>. QED
      BY <2>1, <3>1, DayNumbers DEF Plausible, MadeBefore
  <2>3. CASE i \notin From(usQFontStart)
    <3>1. slot'[i].day = slot[i].day /\ SlotDated(i)
      BY <1>0, <1>3, <2>3, ResetsKeepMade
    <3>2. CASE bGetDatetime
      BY <1>2, <2>1, <2>3, <3>1, <3>2 DEF SlotDated
    <3>3. CASE ~bGetDatetime
      <4>1. i = front /\ pc \in {"counter", "front"}
        BY <2>1, <2>3, <3>1, <3>3 DEF SlotDated, Found
      <4>. QED
        BY <1>2, <3>3, <4>1 DEF Adding
    <3>. QED
      BY <3>2, <3>3
  <2>. QED
    BY <2>2, <2>3
<1>4. ASSUME NEW i \in Slot PROVE SlotDated(i)'
  BY <1>1, <1>3 DEF SlotDated, Plausible
<1>5. DraftDated'
  <2>1. SUFFICES ASSUME pc = "record", front \notin overtaken'
                 PROVE  Plausible(adding.made, adding.day)
    BY <1>1 DEF DraftDated, Plausible
  <2>2. bGetDatetime
    BY <1>2, <2>1 DEF Adding
  <2>3. front \notin From(usQFontStart)
    <3>1. ~(front < front)
      BY InSlot DEF Typed, RingTyped
    <3>. QED
      BY <3>1 DEF From
  <2>. QED
    BY <1>2, <2>1, <2>2, <2>3 DEF DraftDated
<1>. QED
  BY <1>4, <1>5

LEMMA DatedStays ==
  ASSUME Typed, StepInv, SinceBoot, MadeBefore, Dated, [Next]_vars
  PROVE  Dated'
<1> SUFFICES ASSUME ~raced' PROVE (\A i \in Slot : SlotDated(i))' /\ DraftDated'
  BY DEF Dated
<1>1. CASE Loop
  <2>1. ~raced
    BY <1>1, LoopLeaves
  <2>2. InStep /\ BootRecords /\ (\A i \in Slot : SlotDated(i)) /\ DraftDated
    BY <2>1 DEF StepInv, SinceBoot, Dated
  <2>. QED
    BY <1>1, <2>2, LoopDated
<1>2. CASE Quiet
  <2>1. /\ UNCHANGED <<front, slot, usQFontStart, pc, adding, slipped, bGetDatetime, raced>>
        /\ From(usQFontStart)' = From(usQFontStart)
    BY <1>2, QuietLeaves DEF From
  <2>2. (\A i \in Slot : SlotDated(i)) /\ DraftDated
    BY <2>1 DEF Dated
  <2>3. \A m, d \in Nat : Plausible(m, d) => Plausible(m, d)'
    BY <1>2, QuietTime DEF Plausible
  <2>4. overtaken \subseteq overtaken'
    BY <1>2, QuietTime
  <2>5. ASSUME NEW i \in Slot PROVE SlotDated(i)'
    <3>1. SlotDated(i)
      BY <2>2
    <3>2. slot[i] # Blank => slot[i].made \in Nat /\ slot[i].day \in Nat
      BY DayNumbers
    <3>3. slot[i] # Blank /\ Plausible(slot[i].made, slot[i].day)
            => Plausible(slot[i].made, slot[i].day)'
      BY <2>1, <2>3, <3>2 DEF Plausible
    <3>. QED
      BY <2>1, <2>4, <3>1, <3>3 DEF SlotDated, Found, Plausible
  <2>6. DraftDated'
    <3>1. pc = "record" => adding.made \in Nat /\ adding.day \in Nat
      BY DayNumbers DEF Adding
    <3>2. pc = "record" /\ Plausible(adding.made, adding.day)
            => Plausible(adding.made, adding.day)'
      BY <2>1, <2>3, <3>1 DEF Plausible
    <3>. QED
      BY <2>1, <2>2, <2>4, <3>2 DEF DraftDated, Plausible
  <2>. QED
    BY <2>5, <2>6
<1>3. CASE UpdateCount
  <2>1. ~raced /\ pc = "idle" /\ pc' = "idle"
    <3>1. raced' = (raced \/ pc # "idle") /\ pc' = pc
      BY <1>3, CountUpdated
    <3>. QED
      BY <3>1
  <2>2. BootRecords /\ \A i \in Slot : SlotDated(i)
    BY <2>1 DEF SinceBoot, Dated
  <2>3. /\ front' = IncIdx(front) /\ \A i \in Slot : i # front => slot'[i] = slot[i]
        /\ slot'[front] # Blank /\ slot'[front].made = today /\ slot'[front].day = Stamp
        /\ slipped' = (slipped \/ (~bGetDatetime /\ front' = 0))
        /\ overtaken' = overtaken \ {front}
        /\ UNCHANGED <<today, bGetDatetime, usQFontStart>>
    BY <1>3, CountUpdated
  <2>4. ASSUME NEW i \in Slot, ~bGetDatetime, ~slipped', i = front \/ i \in From(usQFontStart)
        PROVE  i \in From(usQFontStart)'
    BY <2>2, <2>3, <2>4, OneMoreFound DEF Typed
  <2>5. ASSUME NEW i \in Slot PROVE SlotDated(i)'
    <3>1. CASE i = front
      <4>1. bGetDatetime => Plausible(today, Stamp)
        BY DayNumbers DEF Plausible, Stamp
      <4>. QED
        BY <2>3, <2>4, <3>1, <4>1 DEF SlotDated, Found, Plausible
    <3>2. CASE i # front
      <4>1. SlotDated(i) /\ (~slipped' => ~slipped)
        BY <2>2, <2>3
      <4>. QED
        BY <2>1, <2>3, <2>4, <3>2, <4>1 DEF SlotDated, Found, Plausible
    <3>. QED
      BY <3>1, <3>2
  <2>. QED
    BY <2>1, <2>5 DEF DraftDated
<1>4. CASE Resets
  <2>1. /\ pc' = pc /\ (raced => Empties /\ pc = "idle")
        /\ (~raced => Restamps \/ Leaves \/ pc = "idle")
    BY <1>4, RacedNoMore
  <2>2. Empties => slipped' = (slipped \/ ~bGetDatetime)
    BY DEF Empties, ResetProduction
  <2>3. CASE raced
    <3>1. Slot \subseteq overtaken'
      BY <1>4, <2>3, ResetsOvertake
    <3>2. ~bGetDatetime' => slipped'
      <4>1. bGetDatetime' = bGetDatetime \/ bGetDatetime' = TRUE
        BY <1>4, ResetsLeave
      <4>2. slipped' = (slipped \/ ~bGetDatetime)
        BY <2>1, <2>2, <2>3
      <4>. QED
        BY <4>1, <4>2, Zenon
    <3>3. pc' = "idle"
      BY <2>1, <2>3
    <3>. QED
      BY <3>1, <3>2, <3>3 DEF SlotDated, DraftDated
  <2>4. CASE ~raced /\ GetDateTime
    <3>1. (\A i \in Slot : SlotDated(i)) /\ DraftDated
      BY <2>4 DEF Dated
    <3>. QED
      BY <2>4, <3>1, DateTimeDated
  <2>5. CASE ~raced /\ (T300s \/ T60s)
    <3>1. (\A i \in Slot : SlotDated(i)) /\ DraftDated
      BY <2>5 DEF Dated
    <3>2. /\ slot' = slot /\ overtaken \subseteq overtaken'
          /\ UNCHANGED <<today, usQFontStart, adding, pc, bGetDatetime>>
      <4>1. bGetDatetime' = bGetDatetime
        BY <2>5 DEF T300s, T60s
      <4>. QED
        BY <1>4, <2>5, <4>1, ResetsLeave, ResetsOvertake, ResetsKeepMade
    <3>3. CASE Leaves
      <4>1. front' = front /\ slipped' = slipped /\ From(usQFontStart)' = From(usQFontStart)
        BY <3>2, <3>3 DEF Leaves, From
      <4>2. ASSUME NEW i \in Slot PROVE SlotDated(i)'
        <5>1. SlotDated(i)
          BY <3>1
        <5>. QED
          BY <3>2, <4>1, <5>1 DEF SlotDated, Found, Plausible
      <4>3. DraftDated'
        BY <3>1, <3>2, <4>1 DEF DraftDated, Plausible
      <4>. QED
        BY <4>2, <4>3
    <3>4. CASE Empties
      <4>1. pc = "idle"
        <5>1. raced' = (pc # "idle")
          BY <3>4 DEF Empties, ResetProduction
        <5>. QED
          BY <5>1
      <4>2. ASSUME NEW i \in Slot PROVE SlotDated(i)'
        <5>1. SlotDated(i) /\ (~slipped' => ~slipped /\ bGetDatetime)
          BY <2>2, <3>1, <3>4
        <5>. QED
          BY <3>2, <4>1, <5>1 DEF SlotDated, Found, Plausible
      <4>. QED
        BY <3>2, <4>1, <4>2 DEF DraftDated
    <3>. QED
      BY <2>5, <3>3, <3>4, TimerOutcomes
  <2>. QED
    BY <1>4, <2>3, <2>4, <2>5 DEF Resets
<1>5. CASE Boot
  <2>1. flash_data.slot \in Slots /\ slot' = Aged(flash_data.slot) /\ pc' = "idle"
    BY <1>5 DEF Boot, Idle, Typed, FlashTyped, DataType, Slots
  <2>. QED
    BY <2>1, AgedRing DEF SlotDated, DraftDated
<1>. QED
  BY <1>1, <1>2, <1>3, <1>4, <1>5, Groups

(* Distances around the ring.                                              *)

LEMMA Distances ==
  ASSUME NEW r \in Slot
  PROVE  /\ \A i \in Slot : /\ Dist(r, i) \in Slot
                            /\ (i - r + LEN_Q_BUFF) % LEN_Q_BUFF = Dist(r, i)
                            /\ i # r => Dist(IncIdx(r), i) = Dist(r, i) - 1
         /\ Dist(r, r) = 0
         /\ Dist(IncIdx(r), r) = LEN_Q_BUFF - 1
<1>0. r \in Nat /\ r < LEN_Q_BUFF /\ LEN_Q_BUFF \in Nat /\ LEN_Q_BUFF > 1
  BY InSlot
<1>1. IncIdx(r) = IF r = LEN_Q_BUFF - 1 THEN 0 ELSE r + 1
  BY IndexSteps
<1>2. ASSUME NEW i \in Slot
      PROVE  /\ Dist(r, i) \in Slot
             /\ (i - r + LEN_Q_BUFF) % LEN_Q_BUFF = Dist(r, i)
             /\ i # r => Dist(IncIdx(r), i) = Dist(r, i) - 1
  <2>0. i \in Nat /\ i < LEN_Q_BUFF
    BY InSlot
  <2>1. Dist(r, i) \in Slot
    BY <1>0, <2>0 DEF Dist, Slot
  <2>2. (i - r + LEN_Q_BUFF) % LEN_Q_BUFF = Dist(r, i)
    <3>1. CASE r <= i
      <4>1. i - r \in Nat /\ i - r < LEN_Q_BUFF
        BY <1>0, <2>0, <3>1
      <4>2. (i - r + LEN_Q_BUFF) % LEN_Q_BUFF = i - r
        BY <1>0, <4>1
      <4>. QED
        BY <3>1, <4>2 DEF Dist
    <3>2. CASE ~(r <= i)
      <4>1. i - r + LEN_Q_BUFF \in Nat /\ i - r + LEN_Q_BUFF < LEN_Q_BUFF
        BY <1>0, <2>0, <3>2
      <4>2. (i - r + LEN_Q_BUFF) % LEN_Q_BUFF = i - r + LEN_Q_BUFF
        BY <1>0, <4>1, SmallRemainder
      <4>3. i - r + LEN_Q_BUFF = i + LEN_Q_BUFF - r
        BY <1>0, <2>0
      <4>. QED
        BY <3>2, <4>2, <4>3 DEF Dist
    <3>. QED
      BY <3>1, <3>2
  <2>3. ASSUME i # r PROVE Dist(IncIdx(r), i) = Dist(r, i) - 1
    BY <1>0, <1>1, <2>0, <2>3 DEF Dist
  <2>. QED
    BY <2>1, <2>2, <2>3
<1>3. Dist(r, r) = 0 /\ Dist(IncIdx(r), r) = LEN_Q_BUFF - 1
  BY <1>0, <1>1 DEF Dist
<1>. QED
  BY <1>2, <1>3

LEMMA WaitingByDistance ==
  ASSUME NEW f \in Slot, NEW r \in Slot
  PROVE  Waiting(f, r) = {i \in Slot : Dist(r, i) < Dist(r, f)}
<1>1. /\ f \in Nat /\ r \in Nat /\ f < LEN_Q_BUFF /\ r < LEN_Q_BUFF /\ LEN_Q_BUFF \in Nat
      /\ \A i \in Slot : i \in Nat /\ i < LEN_Q_BUFF
  BY InSlot
<1>2. ASSUME NEW i \in Slot
      PROVE  (IF r <= f THEN r <= i /\ i < f ELSE r <= i \/ i < f) <=> Dist(r, i) < Dist(r, f)
  BY <1>1 DEF Dist
<1>. QED
  BY <1>2 DEF Waiting

(* A record taken off the ring leaves the others in their order.           *)
LEMMA Popped ==
  ASSUME NEW f \in Slot, NEW r \in Slot, f # r
  PROVE  /\ Waiting(f, IncIdx(r)) \subseteq Waiting(f, r)
         /\ \A i \in Waiting(f, IncIdx(r)), j \in Waiting(f, r) :
              Dist(r, j) > Dist(r, i) =>
                j \in Waiting(f, IncIdx(r)) /\ Dist(IncIdx(r), j) > Dist(IncIdx(r), i)
<1> DEFINE q == IncIdx(r)
<1>1. q \in Slot
  BY IndexSteps
<1>2. /\ Dist(r, r) = 0 /\ Dist(q, r) = LEN_Q_BUFF - 1
      /\ \A i \in Slot : /\ Dist(r, i) \in Nat /\ Dist(q, i) \in Nat
                         /\ Dist(q, i) < LEN_Q_BUFF
                         /\ i # r => Dist(q, i) = Dist(r, i) - 1
  BY <1>1, Distances, InSlot
<1>3. /\ Waiting(f, q) = {i \in Slot : Dist(q, i) < Dist(q, f)}
      /\ Waiting(f, r) = {i \in Slot : Dist(r, i) < Dist(r, f)}
  BY <1>1, WaitingByDistance
<1> HIDE DEF q
<1>4. Dist(q, f) = Dist(r, f) - 1
  BY <1>2
<1>5. ASSUME NEW i \in Waiting(f, q) PROVE i \in Slot /\ i # r /\ i \in Waiting(f, r)
  <2>1. i \in Slot /\ Dist(q, i) < Dist(q, f)
    BY <1>3
  <2>2. i # r
    BY <1>2, <2>1, InSlot
  <2>. QED
    BY <1>2, <1>3, <1>4, <2>1, <2>2
<1>6. ASSUME NEW i \in Waiting(f, q), NEW j \in Waiting(f, r), Dist(r, j) > Dist(r, i)
      PROVE  j \in Waiting(f, q) /\ Dist(q, j) > Dist(q, i)
  <2>1. i \in Slot /\ i # r /\ j \in Slot
    BY <1>3, <1>5
  <2>2. j # r
    BY <1>2, <1>6, <2>1
  <2>3. Dist(r, j) < Dist(r, f) /\ Dist(q, j) = Dist(r, j) - 1 /\ Dist(q, i) = Dist(r, i) - 1
    BY <1>2, <1>3, <2>1, <2>2
  <2>4. Dist(q, j) < Dist(q, f) /\ Dist(q, j) > Dist(q, i)
    BY <1>2, <1>4, <1>6, <2>1, <2>3
  <2>. QED
    BY <1>3, <2>1, <2>4
<1>. QED
  BY <1>5, <1>6 DEF q

(* A record put on the ring is the newest; on a full ring the oldest goes. *)
LEMMA Pushed ==
  ASSUME NEW f \in Slot, NEW r \in Slot,
         NEW q, q = IF IncIdx(f) = r THEN IncIdx(r) ELSE r
  PROVE  /\ \A i \in Waiting(IncIdx(f), q) :
              i = f \/ (i \in Waiting(f, r) /\ Dist(q, f) > Dist(q, i))
         /\ f \in Waiting(IncIdx(f), q)
         /\ \A i \in Waiting(IncIdx(f), q), j \in Waiting(f, r) :
              i # f /\ Dist(r, j) > Dist(r, i) =>
                j \in Waiting(IncIdx(f), q) /\ Dist(q, j) > Dist(q, i)
<1> DEFINE g == IncIdx(f)
<1>1. g \in Slot /\ q \in Slot
  BY IndexSteps
<1>2. /\ f \in Nat /\ r \in Nat /\ f < LEN_Q_BUFF /\ r < LEN_Q_BUFF
      /\ LEN_Q_BUFF \in Nat /\ LEN_Q_BUFF > 1
      /\ \A i \in Slot : i \in Nat /\ i < LEN_Q_BUFF
  BY InSlot
<1>3. /\ g = IF f = LEN_Q_BUFF - 1 THEN 0 ELSE f + 1
      /\ q = IF g = r THEN (IF r = LEN_Q_BUFF - 1 THEN 0 ELSE r + 1) ELSE r
  BY IndexSteps
<1>4. /\ Waiting(g, q) = {i \in Slot : Dist(q, i) < Dist(q, g)}
      /\ Waiting(f, r) = {i \in Slot : Dist(r, i) < Dist(r, f)}
  BY <1>1, WaitingByDistance
<1> HIDE DEF g
<1>5. ASSUME NEW i \in Slot, Dist(q, i) < Dist(q, g), i # f
      PROVE  Dist(r, i) < Dist(r, f) /\ Dist(q, f) > Dist(q, i)
  BY <1>2, <1>3, <1>5 DEF Dist
<1>6. Dist(q, f) < Dist(q, g)
  BY <1>2, <1>3 DEF Dist
<1>7. ASSUME NEW i \in Slot, NEW j \in Slot, Dist(q, i) < Dist(q, g), i # f,
             Dist(r, j) < Dist(r, f), Dist(r, j) > Dist(r, i)
      PROVE  Dist(q, j) < Dist(q, g) /\ Dist(q, j) > Dist(q, i)
  BY <1>2, <1>3, <1>7 DEF Dist
<1>. QED
  BY <1>4, <1>5, <1>6, <1>7 DEF g

(* Ring and counters agree whatever becomes of the dates.                  *)
LEMMA SameRing ==
  ASSUME NEW f \in Slot, NEW r \in Slot, NEW s \in Slots, NEW z, NEW c, NEW k,
         RingOK(f, r, s, c, k),
         \A i \in Slot : /\ z[i] = Blank <=> s[i] = Blank
                         /\ s[i] # Blank => /\ z[i].type = s[i].type
                                            /\ z[i].data = s[i].data
                                            /\ z[i].plan = s[i].plan
  PROVE  RingOK(f, r, z, c, k)
<1>1. Waiting(f, r) \subseteq Slot
  BY DEF Waiting
<1>2. \A i \in Waiting(f, r) : s[i] # Blank
  BY DEF RingOK, Written
<1>3. \A i \in Waiting(f, r) : /\ z[i] # Blank /\ z[i].type = s[i].type
                              /\ z[i].data = s[i].data /\ z[i].plan = s[i].plan
  BY <1>1, <1>2
<1>4. Matches(f, r, z, c, k)
  <2>1. SUFFICES ASSUME NEW i \in Waiting(f, r), z[i].data # c[z[i].plan][z[i].type],
                        <<z[i].plan, z[i].type>> \notin k
                 PROVE  \E j \in Waiting(f, r) : /\ z[j].plan = z[i].plan /\ z[j].type = z[i].type
                                                 /\ Dist(r, j) > Dist(r, i)
    BY DEF Matches
  <2>2. s[i].data # c[s[i].plan][s[i].type] /\ <<s[i].plan, s[i].type>> \notin k
    BY <1>3, <2>1
  <2>3. PICK j \in Waiting(f, r) : /\ s[j].plan = s[i].plan /\ s[j].type = s[i].type
                                   /\ Dist(r, j) > Dist(r, i)
    BY <2>2 DEF RingOK, Matches
  <2>. QED
    BY <1>3, <2>3
<1>. QED
  BY <1>3, <1>4 DEF RingOK, Written

(* ... whatever is written beside it, and to counters set apart.           *)
LEMMA RingBeside ==
  ASSUME NEW f \in Slot, NEW r \in Slot, NEW s \in Slots, NEW z, NEW c, NEW d, NEW k, NEW l,
         RingOK(f, r, s, c, k), k \subseteq l,
         \A i \in Slot : i # f => z[i] = s[i],
         \A p \in Plan, t \in TYPES : <<p, t>> \in l \/ d[p][t] = c[p][t]
  PROVE  RingOK(f, r, z, d, l)
<1>1. Waiting(f, r) \subseteq Slot /\ f \notin Waiting(f, r)
  BY InSlot DEF Waiting
<1>2. \A i \in Waiting(f, r) : z[i] = s[i] /\ s[i] # Blank
  BY <1>1 DEF RingOK, Written
<1>3. \A i \in Waiting(f, r) : s[i].plan \in Plan /\ s[i].type \in TYPES
  <2>1. \A i \in Waiting(f, r) : s[i] \in Record
    BY <1>1, <1>2 DEF Slots
  <2>. QED
    BY <2>1 DEF Record
<1>4. Matches(f, r, z, d, l)
  <2>1. SUFFICES ASSUME NEW i \in Waiting(f, r), z[i].data # d[z[i].plan][z[i].type],
                        <<z[i].plan, z[i].type>> \notin l
                 PROVE  \E j \in Waiting(f, r) : /\ z[j].plan = z[i].plan /\ z[j].type = z[i].type
                                                 /\ Dist(r, j) > Dist(r, i)
    BY DEF Matches
  <2>2. s[i].data # c[s[i].plan][s[i].type] /\ <<s[i].plan, s[i].type>> \notin k
    BY <1>2, <1>3, <2>1
  <2>3. PICK j \in Waiting(f, r) : /\ s[j].plan = s[i].plan /\ s[j].type = s[i].type
                                   /\ Dist(r, j) > Dist(r, i)
    BY <2>2 DEF RingOK, Matches
  <2>. QED
    BY <1>2, <2>3
<1>. QED
  BY <1>2, <1>4 DEF RingOK, Written

-----------------------------------------------------------------------------
(* Ring and counters after each step.                                      *)

LEMMA RingPushed ==
  ASSUME NEW f \in Slot, NEW r \in Slot, NEW s \in Slots, NEW z, NEW c, NEW d, NEW k, NEW l,
         RingOK(f, r, s, c, k),
         \A i \in Slot : i # f => z[i] = s[i],
         z[f] # Blank,
         z[f].data = d[z[f].plan][z[f].type] \/ <<z[f].plan, z[f].type>> \in l,
         \A p \in Plan, t \in TYPES :
           \/ p = z[f].plan /\ t = z[f].type
           \/ <<p, t>> \in l
           \/ <<p, t>> \notin k /\ d[p][t] = c[p][t],
         NEW q, q = IF IncIdx(f) = r THEN IncIdx(r) ELSE r
  PROVE  RingOK(IncIdx(f), q, z, d, l)
<1> DEFINE W  == Waiting(f, r)
           V  == Waiting(IncIdx(f), q)
<1>1. /\ \A i \in V : i = f \/ (i \in W /\ Dist(q, f) > Dist(q, i))
      /\ f \in V
      /\ \A i \in V, j \in W : i # f /\ Dist(r, j) > Dist(r, i) =>
           j \in V /\ Dist(q, j) > Dist(q, i)
  BY Pushed
<1>2. V \subseteq Slot /\ W \subseteq Slot /\ f \notin W
  BY InSlot DEF Waiting
<1>3. \A i \in W : s[i] # Blank
  BY DEF RingOK, Written
<1>4. \A i \in W : \/ s[i].data = c[s[i].plan][s[i].type]
                   \/ <<s[i].plan, s[i].type>> \in k
                   \/ \E j \in W : /\ s[j].plan = s[i].plan /\ s[j].type = s[i].type
                                   /\ Dist(r, j) > Dist(r, i)
  BY DEF RingOK, Matches
<1>5. \A i \in W : s[i].plan \in Plan /\ s[i].type \in TYPES
  <2>1. \A i \in W : s[i] \in Record
    BY <1>2, <1>3 DEF Slots
  <2>. QED
    BY <2>1 DEF Record
<1> HIDE DEF V, W
<1>6. \A i \in V : z[i] # Blank
  BY <1>1, <1>2, <1>3
<1>7. ASSUME NEW i \in V, z[i].data # d[z[i].plan][z[i].type], <<z[i].plan, z[i].type>> \notin l
      PROVE  \E j \in V : /\ z[j].plan = z[i].plan /\ z[j].type = z[i].type
                          /\ Dist(q, j) > Dist(q, i)
  <2>1. i # f
    BY <1>7
  <2>2. i \in W /\ Dist(q, f) > Dist(q, i) /\ z[i] = s[i]
    BY <1>1, <1>2, <2>1
  <2>3. CASE s[i].plan = z[f].plan /\ s[i].type = z[f].type
    BY <1>1, <2>2, <2>3
  <2>4. CASE ~(s[i].plan = z[f].plan /\ s[i].type = z[f].type)
    <3>1. <<s[i].plan, s[i].type>> \notin k /\ s[i].data # c[s[i].plan][s[i].type]
      BY <1>5, <1>7, <2>2, <2>4
    <3>2. PICK j \in W : /\ s[j].plan = s[i].plan /\ s[j].type = s[i].type
                         /\ Dist(r, j) > Dist(r, i)
      BY <1>4, <2>2, <3>1
    <3>3. j \in V /\ Dist(q, j) > Dist(q, i)
      BY <1>1, <2>1, <3>2
    <3>4. z[j] = s[j]
      BY <1>2
    <3>. QED
      BY <2>2, <3>2, <3>3, <3>4
  <2>. QED
    BY <2>3, <2>4
<1>. QED
  BY <1>6, <1>7 DEF RingOK, Written, Matches, V

LEMMA RingPopped ==
  ASSUME NEW f \in Slot, NEW r \in Slot, NEW s, NEW c, NEW k, f # r, RingOK(f, r, s, c, k)
  PROVE  RingOK(f, IncIdx(r), s, c, k)
<1> DEFINE W  == Waiting(f, r)
           q  == IncIdx(r)
           V  == Waiting(f, q)
<1>1. /\ V \subseteq W
      /\ \A i \in V, j \in W : Dist(r, j) > Dist(r, i) => j \in V /\ Dist(q, j) > Dist(q, i)
  BY Popped
<1>2. /\ \A i \in W : s[i] # Blank
      /\ \A i \in W : \/ s[i].data = c[s[i].plan][s[i].type]
                      \/ <<s[i].plan, s[i].type>> \in k
                      \/ \E j \in W : /\ s[j].plan = s[i].plan /\ s[j].type = s[i].type
                                      /\ Dist(r, j) > Dist(r, i)
  BY DEF RingOK, Written, Matches
<1> HIDE DEF V, W, q
<1>3. \A i \in V : s[i] # Blank
  BY <1>1, <1>2
<1>4. \A i \in V : \/ s[i].data = c[s[i].plan][s[i].type]
                   \/ <<s[i].plan, s[i].type>> \in k
                   \/ \E j \in V : /\ s[j].plan = s[i].plan /\ s[j].type = s[i].type
                                   /\ Dist(q, j) > Dist(q, i)
  BY <1>1, <1>2
<1>. QED
  BY <1>3, <1>4 DEF RingOK, Written, Matches, V, q

(* An empty ring agrees with anything.                                     *)
LEMMA RingEmpty == \A i \in Slot : \A s, c, k : RingOK(i, i, s, c, k)
<1>1. ASSUME NEW i \in Slot PROVE Waiting(i, i) = {}
  <2>1. \A j \in Slot : j \in Nat
    BY InSlot
  <2>. QED
    BY <2>1 DEF Waiting
<1>. QED
  BY <1>1 DEF RingOK, Written, Matches

(* The records kept on a new day are exactly those since the boot.         *)
LEMMA KeptWaiting ==
  ASSUME RingTyped, BootRecords, usQFontStart <= front
  PROVE  Waiting(front, usQFontStart) = From(usQFontStart)
BY DEF Waiting, From, RingTyped, BootRecords

LEMMA RingRenumbered ==
  ASSUME Typed, BootRecords, Renumbers, ~scrambled'
  PROVE  RingOK(front', rear', slot', cnt', apart')
<1> DEFINE s == UpdateTimeEEPROM
           K == From(usQFontStart)
           N(t, n) == {j \in K : j <= n /\ s[j].type = t}
<1>1. /\ slot' = Renumbered(s) /\ rear' = usQFontStart /\ front' = front
      /\ cnt' = [p \in Plan |-> [t \in TYPES |->
                   IF p = idx_plan THEN Number(s, t, LEN_Q_BUFF) ELSE cnt[p][t] % 65536]]
      /\ scrambled' = (front < usQFontStart)
  BY DEF Renumbers
<1>2. s \in Slots /\ \A i \in K : s[i] # Blank
  BY Restamped DEF Typed
<1> HIDE DEF s
<1>3. Waiting(front', rear') = K
  <2>1. front \in Nat /\ usQFontStart \in Nat
    BY InSlot DEF Typed, RingTyped
  <2>2. usQFontStart <= front
    <3>1. ASSUME front < usQFontStart PROVE FALSE
      <4>1. (front < usQFontStart) = TRUE
        BY <3>1
      <4>2. scrambled' = (front < usQFontStart)
        BY DEF Renumbers
      <4>3. scrambled' = TRUE
        BY <4>1, <4>2, Zenon
      <4>. QED
        BY <4>3
    <3>. QED
      BY <2>1, <3>1
  <2>. QED
    BY <1>1, <2>2, KeptWaiting DEF Typed
<1>4. /\ K \subseteq Slot
      /\ \A i \in K : /\ i \in Nat /\ usQFontStart <= i /\ i < LEN_Q_BUFF
                      /\ Dist(usQFontStart, i) = i - usQFontStart
  BY InSlot DEF From, Dist
<1>5. \A i \in K : /\ slot'[i] # Blank
                   /\ slot'[i].type = s[i].type
                   /\ slot'[i].data = Number(s, s[i].type, i)
                   /\ slot'[i].plan = idx_plan
  BY <1>1, <1>2, <1>4, RenumberedRing DEF Typed
<1>6. \A t \in TYPES : cnt'[idx_plan][t] = Number(s, t, LEN_Q_BUFF)
  BY <1>1 DEF Typed, PlanTyped
<1>7. ASSUME NEW i \in K,
             ~ \E j \in K : /\ slot'[j].plan = slot'[i].plan /\ slot'[j].type = slot'[i].type
                            /\ Dist(rear', j) > Dist(rear', i)
      PROVE  slot'[i].data = cnt'[slot'[i].plan][slot'[i].type]
  <2>1. s[i].type \in TYPES
    BY <1>2, <1>4 DEF Slots, Record
  <2>2. ASSUME NEW j \in K, s[j].type = s[i].type PROVE j <= i
    <3>1. ~(Dist(usQFontStart, j) > Dist(usQFontStart, i))
      BY <1>1, <1>5, <1>7, <2>2
    <3>2. usQFontStart \in Nat /\ i \in Nat /\ j \in Nat
      BY <1>4, InSlot DEF Typed, RingTyped
    <3>. QED
      BY <1>4, <3>1, <3>2
  <2>3. N(s[i].type, i) = N(s[i].type, LEN_Q_BUFF)
    <3>1. \A j \in K : j <= LEN_Q_BUFF
      BY <1>4, InSlot
    <3>. QED
      BY <2>2, <3>1
  <2>4. Number(s, s[i].type, i) = Number(s, s[i].type, LEN_Q_BUFF)
    BY <2>3 DEF Number
  <2>. QED
    BY <1>5, <1>6, <2>1, <2>4
<1> HIDE DEF K
<1>8. Written(front', rear', slot')
  BY <1>3, <1>5 DEF Written
<1>9. Matches(front', rear', slot', cnt', apart')
  BY <1>3, <1>7 DEF Matches
<1>. QED
  BY <1>8, <1>9 DEF RingOK

RingNow   == RingOK(front, RearSeen, slot, cnt, apart)
RingFlash == RingOK(flash_data.front, flash_data.rear, flash_data.slot, flash_data.cnt,
                    flash_data.apart)

LEMMA LoopRing ==
  ASSUME Typed, InStep, RingNow, Loop
  PROVE  RingNow'
<1>0. front \in Slot /\ rear \in Slot /\ usQrear \in Slot /\ slot \in Slots /\ RearSeen \in Slot
  BY DEF Typed, RingTyped, LocalTyped, SlotsTyped, RearSeen
<1>1. CASE AddQueueProductData \/ SendDataOutput
  <2>1. UNCHANGED <<front, rear, slot, cnt, apart>> /\ pc # "drop" /\ pc' # "drop"
    BY <1>1 DEF AddQueueProductData, SendDataOutput, ring
  <2>. QED
    BY <2>1 DEF RingNow, RearSeen
<1>2. CASE WriteRecord
  <2>1. /\ UNCHANGED <<front, rear, cnt, apart>> /\ pc # "drop" /\ pc' # "drop"
        /\ \A i \in Slot : i # front => slot'[i] = slot[i]
    BY <1>2, RecordWritten DEF InStep
  <2>2. RingOK(front, rear, slot', cnt, apart)
    BY <1>0, <2>1, RingBeside DEF RingNow, RearSeen
  <2>. QED
    BY <2>1, <2>2 DEF RingNow, RearSeen
<1>3. CASE WriteCounter
  <2>1. /\ UNCHANGED <<front, rear, slot>> /\ pc # "drop" /\ pc' # "drop"
        /\ apart \subseteq apart'
        /\ \A p \in Plan, t \in TYPES : <<p, t>> \in apart' \/ cnt'[p][t] = cnt[p][t]
    BY <1>3, CounterWritten
  <2>2. RingOK(front, rear, slot, cnt', apart')
    BY <1>0, <2>1, RingBeside DEF RingNow, RearSeen
  <2>. QED
    BY <2>1, <2>2 DEF RingNow, RearSeen
<1>4. CASE WriteFront
  <2>1. /\ pc = "front" /\ front' = IncIdx(front) /\ UNCHANGED <<rear, slot, cnt>>
        /\ slot[front] # Blank
        /\ slot[front].type = adding.type /\ slot[front].data = adding.data
        /\ slot[front].plan = adding.plan
        /\ cnt[adding.addr][adding.type] = adding.data
        /\ <<adding.plan, adding.type>> \in apart
        /\ apart' = IF adding.plan = adding.addr THEN apart \ {<<adding.plan, adding.type>>}
                                                 ELSE apart
    BY <1>4 DEF WriteFront, InStep
  <2>2. RearSeen' = IF IncIdx(front) = rear THEN IncIdx(rear) ELSE rear
    BY <1>4, <2>1 DEF WriteFront, Idle, RearSeen
  <2>3. /\ \/ slot[front].data = cnt[slot[front].plan][slot[front].type]
           \/ <<slot[front].plan, slot[front].type>> \in apart'
        /\ \A p \in Plan, t \in TYPES :
             \/ p = slot[front].plan /\ t = slot[front].type
             \/ <<p, t>> \in apart'
             \/ <<p, t>> \notin apart /\ cnt[p][t] = cnt[p][t]
    BY <2>1
  <2>4. RingOK(front, rear, slot, cnt, apart)
    BY <2>1 DEF RingNow, RearSeen
  <2>5. RingOK(IncIdx(front), RearSeen', slot, cnt, apart')
    BY <1>0, <2>1, <2>2, <2>3, <2>4, RingPushed
  <2>. QED
    BY <2>1, <2>5 DEF RingNow
<1>5. CASE WriteRear
  <2>1. /\ rear' = usQrear /\ RearSeen' = rear' /\ UNCHANGED <<front, slot, cnt, apart>>
        /\ pc = "drop" \/ pc = "take"
    BY <1>5 DEF WriteRear, Idle, RearSeen
  <2>2. CASE pc = "drop"
    BY <2>1, <2>2 DEF RingNow, RearSeen
  <2>3. CASE pc = "take"
    <3>1. front # rear /\ usQrear = IncIdx(rear) /\ RearSeen = rear
      BY <2>3 DEF InStep, RearSeen
    <3>2. RingOK(front, usQrear, slot, cnt, apart)
      BY <1>0, <3>1, RingPopped DEF RingNow
    <3>. QED
      BY <2>1, <3>2 DEF RingNow
  <2>. QED
    BY <2>1, <2>2, <2>3
<1>. QED
  BY <1>1, <1>2, <1>3, <1>4, <1>5 DEF Loop

LEMMA UpdateCountRing ==
  ASSUME Typed, RingNow, UpdateCount, pc = "idle"
  PROVE  RingNow'
<1>0. front \in Slot /\ rear \in Slot /\ slot \in Slots
  BY DEF Typed, RingTyped, SlotsTyped
<1>1. /\ front' = IncIdx(front)
      /\ rear' = IF IncIdx(front) = rear THEN IncIdx(rear) ELSE rear
      /\ \A i \in Slot : i # front => slot'[i] = slot[i]
      /\ slot'[front] # Blank /\ slot'[front].plan = idx_plan
      /\ cnt'[idx_plan][slot'[front].type] = slot'[front].data
      /\ \A p \in Plan, t \in TYPES :
           (p = idx_plan /\ t = slot'[front].type) \/ cnt'[p][t] = cnt[p][t]
      /\ apart' = apart \ {<<idx_plan, slot'[front].type>>}
      /\ pc' = pc
  BY CountUpdated
<1>2. RingOK(front, rear, slot, cnt, apart)
  BY DEF RingNow, RearSeen
<1>3. \A p \in Plan, t \in TYPES :
        \/ p = slot'[front].plan /\ t = slot'[front].type
        \/ <<p, t>> \in apart'
        \/ <<p, t>> \notin apart /\ cnt'[p][t] = cnt[p][t]
  BY <1>1
<1>4. slot'[front].data = cnt'[slot'[front].plan][slot'[front].type]
  BY <1>1
<1>. DEFINE z == slot'
            d == cnt'
            l == apart'
            q == rear'
<1>5. /\ \A i \in Slot : i # front => z[i] = slot[i]
      /\ z[front] # Blank
      /\ q = IF IncIdx(front) = rear THEN IncIdx(rear) ELSE rear
  BY <1>1
<1>7. z[front].data = d[z[front].plan][z[front].type] \/ <<z[front].plan, z[front].type>> \in l
  BY <1>4
<1>8. \A p \in Plan, t \in TYPES :
        \/ p = z[front].plan /\ t = z[front].type
        \/ <<p, t>> \in l
        \/ <<p, t>> \notin apart /\ d[p][t] = cnt[p][t]
  BY <1>3
<1>. HIDE DEF z, d, l, q
<1>6. RingOK(IncIdx(front), q, z, d, l)
  BY <1>0, <1>2, <1>5, <1>7, <1>8, RingPushed
<1>. QED
  BY <1>1, <1>6 DEF RingNow, RearSeen, z, d, l, q

LEMMA ResetsRing ==
  ASSUME Typed, SinceBoot, ~scrambled /\ ~raced => RingNow, Resets, ~scrambled', ~raced'
  PROVE  RingNow'
<1>0. /\ front \in Slot /\ rear \in Slot /\ usQrear \in Slot /\ slot \in Slots
      /\ RearSeen \in Slot
  BY DEF Typed, RingTyped, LocalTyped, SlotsTyped, RearSeen
<1>1. /\ pc' = pc /\ usQrear' = usQrear /\ (raced => Empties)
      /\ (~raced => Restamps \/ Leaves \/ pc = "idle")
  BY ResetsLeave, RacedNoMore
<1>2. CASE Empties
  <2>1. front' = 0 /\ rear' = 0 /\ pc = "idle"
    <3>1. raced' = (pc # "idle")
      BY <1>2 DEF Empties, ResetProduction
    <3>. QED
      BY <1>2, <3>1 DEF Empties, ResetProduction
  <2>2. RearSeen' = 0 /\ 0 \in Slot
    BY <1>1, <2>1, InSlot DEF RearSeen
  <2>. QED
    BY <2>1, <2>2, RingEmpty DEF RingNow
<1>3. CASE ~raced /\ Renumbers
  <2>1. pc = "idle"
    <3>1. raced' = (raced \/ pc # "idle")
      BY <1>3 DEF Renumbers
    <3>. QED
      BY <3>1
  <2>2. RingOK(front', rear', slot', cnt', apart')
    BY <1>3, RingRenumbered DEF SinceBoot
  <2>. QED
    BY <1>1, <2>1, <2>2 DEF RingNow, RearSeen
<1>4. CASE ~raced /\ Leaves
  BY <1>1, <1>4 DEF Leaves, RingNow, RearSeen
<1>5. CASE ~raced /\ Restamps
  <2>1. RingNow /\ UNCHANGED <<front, rear, cnt, apart>> /\ slot' = UpdateTimeEEPROM
    BY <1>5 DEF Restamps
  <2>2. \A i \in Slot :
          /\ slot'[i] = Blank <=> slot[i] = Blank
          /\ slot[i] # Blank => /\ slot'[i].type = slot[i].type
                                /\ slot'[i].data = slot[i].data
                                /\ slot'[i].plan = slot[i].plan
    BY <2>1, Restamped DEF Typed
  <2>3. RingOK(front, RearSeen, slot', cnt, apart)
    BY <1>0, <2>1, <2>2, SameRing DEF RingNow
  <2>. QED
    BY <1>1, <2>1, <2>3 DEF RingNow, RearSeen
<1>. QED
  BY <1>1, <1>2, <1>3, <1>4, <1>5, ResetOutcomes

LEMMA RingKeptStays ==
  ASSUME Typed, StepInv, SinceBoot, RingKept, [Next]_vars
  PROVE  RingKept'
<1>0. /\ ~scrambled /\ ~raced => RingNow
      /\ ~flash_data.scrambled /\ ~flash_data.raced => RingFlash
  BY DEF RingKept, RingNow, RingFlash
<1>. SUFFICES /\ ~scrambled' /\ ~raced' => RingNow'
              /\ ~flash_data'.scrambled /\ ~flash_data'.raced => RingFlash'
  BY DEF RingKept, RingNow, RingFlash
<1>1. CASE Loop
  <2>1. UNCHANGED <<scrambled, raced, flash_data>>
    BY <1>1, LoopLeaves
  <2>2. ~scrambled /\ ~raced => RingNow'
    BY <1>0, <1>1, LoopRing DEF StepInv
  <2>. QED
    BY <1>0, <2>1, <2>2 DEF RingFlash
<1>2. CASE Quiet
  <2>1. UNCHANGED <<front, rear, slot, cnt, scrambled, apart, raced, pc, usQrear>>
    BY <1>2, QuietLeaves
  <2>2. ~scrambled' /\ ~raced' => RingNow'
    BY <1>0, <2>1 DEF RingNow, RearSeen
  <2>3. CASE CommitData
    <3>1. PICK torn \in Torn : flash_data' = [Data EXCEPT !.raced = @ \/ torn]
      BY <2>3 DEF CommitData
    <3>2. /\ flash_data'.front = front /\ flash_data'.rear = rear /\ flash_data'.slot = slot
          /\ flash_data'.cnt = cnt /\ flash_data'.apart = apart
          /\ flash_data'.scrambled = scrambled /\ flash_data'.raced = (raced \/ torn)
      BY <3>1 DEF Data
    <3>3. ASSUME ~flash_data'.scrambled, ~flash_data'.raced PROVE RingFlash'
      <4>1. ~scrambled /\ ~raced /\ ~torn
        BY <3>2, <3>3
      <4>2. pc # "drop"
        BY <4>1 DEF Torn
      <4>3. RingOK(front, rear, slot, cnt, apart)
        BY <1>0, <4>1, <4>2 DEF RingNow, RearSeen
      <4>. QED
        BY <3>2, <4>3 DEF RingFlash
    <3>. QED
      BY <2>2, <3>3
  <2>4. CASE ~CommitData
    <3>1. flash_data' = flash_data
      BY <1>2, <2>4
      DEF Quiet, TimePasses, ChangeProcess, GetPlan, GetInfConfig, CommitInfo, vars, disk
    <3>. QED
      BY <1>0, <2>2, <3>1 DEF RingFlash
  <2>. QED
    BY <2>3, <2>4
<1>3. CASE UpdateCount
  <2>1. UNCHANGED <<scrambled, flash_data>> /\ raced' = (raced \/ pc # "idle")
    BY <1>3, CountUpdated
  <2>2. ~raced' => ~raced /\ pc = "idle"
    BY <2>1
  <2>3. ~scrambled' /\ ~raced' => RingNow'
    BY <1>0, <1>3, <2>1, <2>2, UpdateCountRing
  <2>. QED
    BY <1>0, <2>1, <2>3 DEF RingFlash
<1>4. CASE Resets
  <2>1. flash_data' = flash_data
    BY <1>4, ResetsLeave
  <2>2. ~scrambled' /\ ~raced' => RingNow'
    BY <1>0, <1>4, ResetsRing
  <2>. QED
    BY <1>0, <2>1, <2>2 DEF RingFlash
<1>5. CASE Boot
  <2>. DEFINE f == flash_data.front
             r == flash_data.rear
             s == flash_data.slot
             c == flash_data.cnt
             k == flash_data.apart
  <2>1. /\ s \in Slots /\ f \in Slot /\ r \in Slot
        /\ front' = f /\ rear' = r /\ slot' = Aged(s) /\ cnt' = c /\ apart' = k /\ pc' = "idle"
        /\ scrambled' = flash_data.scrambled /\ raced' = flash_data.raced
        /\ flash_data' = flash_data
    BY <1>5 DEF Boot, Idle, disk, Typed, FlashTyped, DataType, Slots
  <2>. HIDE DEF f, r, s, c, k
  <2>2. \A i \in Slot :
          /\ Aged(s)[i] = Blank <=> s[i] = Blank
          /\ s[i] # Blank => /\ Aged(s)[i].type = s[i].type
                            /\ Aged(s)[i].data = s[i].data
                            /\ Aged(s)[i].plan = s[i].plan
    BY <2>1, AgedRing
  <2>3. RingOK(f, r, s, c, k) => RingOK(f, r, Aged(s), c, k)
    BY <2>1, <2>2, SameRing
  <2>4. RingFlash => RingNow'
    BY <2>1, <2>3 DEF RingFlash, RingNow, RearSeen, f, r, s, c, k
  <2>. QED
    BY <1>0, <2>1, <2>4 DEF RingFlash
<1>. QED
  BY <1>1, <1>2, <1>3, <1>4, <1>5, Groups

-----------------------------------------------------------------------------
(* The theorems.                                                           *)

LEMMA InitTyped == Init => Typed
<1> SUFFICES ASSUME Init PROVE Typed
  OBVIOUS
<1>1. /\ LEN_Q_BUFF \in Nat /\ DAYS \in Nat /\ DAYS > 0 /\ MAX_PLAN \in Nat /\ MAX_PLAN > 0
      /\ START \in Slot /\ MAX_RECORD \in Nat /\ CONFIGS \in SUBSET BOOLEAN
  BY ConstantsAssumption
<1>2. 1 \in Day /\ 0 \in Plan /\ 0 \in 0 .. MAX_PLAN /\ 0 \in 0 .. MAX_RECORD
  BY <1>1 DEF Day, Plan
<1>3. SlotsTyped
  <2>1. PICK t \in TYPES : slot = [i \in Slot |-> IF i < START THEN Sent(t) ELSE Blank]
    BY DEF Init
  <2>2. Sent(t) \in Record
    BY <1>2, CountFacts DEF Sent, Record
  <2>. QED
    BY <2>1, <2>2 DEF SlotsTyped, Slots
<1>4. CntTyped
  BY CountFacts DEF Init, CntTyped
<1>5. TimeTyped /\ PlanTyped /\ FlagsTyped /\ QueuedTyped /\ DataTyped
  BY <1>1, <1>2 DEF Init, TimeTyped, PlanTyped, FlagsTyped, QueuedTyped, DataTyped
<1>6. RingTyped /\ LocalTyped
  BY <1>1, InSlot DEF Init, RingTyped, LocalTyped, Adding
<1>7. Data \in DataType
  BY <1>3, <1>4, <1>5, <1>6
  DEF Data, DataType, RingTyped, SlotsTyped, Slots, CntTyped, Counts, DataTyped
<1>8. FlashTyped
  BY <1>5, <1>7 DEF Init, FlashTyped, Info, PlanTyped
<1>. QED
  BY <1>3, <1>4, <1>5, <1>6, <1>8 DEF Typed

LEMMA InitInv == Init => NewDayInv
<1> SUFFICES ASSUME Init PROVE NewDayInv
  OBVIOUS
<1>1. Typed
  BY InitTyped
<1>2. START \in Nat /\ START \in Slot /\ \A i \in Slot : i \in Nat
  BY ConstantsAssumption, InSlot
<1>3. PICK t \in TYPES : slot = [i \in Slot |-> IF i < START THEN Sent(t) ELSE Blank]
  BY DEF Init
<1>4. \A i \in Slot : slot[i] # Blank => ~slot[i].fresh
  BY <1>3 DEF Sent
<1>5. front = START /\ rear = START /\ usQFontStart = START /\ pc = "idle"
  BY DEF Init
<1>6. SinceBoot
  BY <1>2, <1>5 DEF SinceBoot, BootRecords
<1>7. MadeBefore /\ Dated
  BY <1>4, <1>5 DEF MadeBefore, Dated, SlotDated, DraftDated, Adding
<1>8. \A s, c, k : RingOK(START, START, s, c, k)
  BY <1>2, RingEmpty
<1>9. RingKept
  BY <1>5, <1>8 DEF RingKept, RearSeen, Init, Data
<1>10. DaysKept
  BY DEF DaysKept, Init, Info, Data
<1>11. StepInv
  BY <1>5, IdleInStep DEF StepInv
<1>. QED
  BY <1>1, <1>6, <1>7, <1>9, <1>10, <1>11 DEF NewDayInv

LEMMA NextInv == NewDayInv /\ [Next]_vars => NewDayInv'
BY TypedStays, StepStays, SinceBootStays, MadeBeforeStays, DatedStays, RingKeptStays,
   DaysKeptStays
DEF NewDayInv

(* Over every run the records made since the boot lie where                *)
(* updateTimeEEPROM finds them, ring and counters agree, in the device and *)
(* in flash, and the two sectors' days differ only while a commit is due,  *)
(* all of it at every step of a record on its way to the ring.             *)
THEOREM NewDayInvariant == Spec => []NewDayInv
<1>1. Init => NewDayInv
  BY InitInv
<1>2. NewDayInv /\ [Next]_vars => NewDayInv'
  BY NextInv
<1>. QED
  BY <1>1, <1>2, PTL DEF Spec

(* Every variable of the device and both sectors in flash keep their type. *)
THEOREM NewDayTypes == Spec => []TypeOK
<1>1. Typed => TypeOK
  <2> SUFFICES ASSUME Typed PROVE TypeOK
    OBVIOUS
  <2>1. Data \in DataType
    BY DEF Typed, Data, DataType, RingTyped, SlotsTyped, Slots, CntTyped, Counts, DataTyped
  <2>. QED
    BY <2>1
    DEF TypeOK, Typed, TimeTyped, PlanTyped, RingTyped, FlashTyped, FlagsTyped, LocalTyped,
        QueuedTyped
<1>2. NewDayInv => TypeOK
  BY <1>1 DEF NewDayInv
<1>. QED
  BY <1>2, NewDayInvariant, PTL

(* Once the clock is set, every waiting record of this boot carries a date *)
(* between the day it was made and today, also when the date comes between *)
(* any two writes of a record, but for that record itself.                 *)
THEOREM StampsArePlausible == Spec => []StampIsPlausible
<1>1. NewDayInv => StampIsPlausible
  <2> SUFFICES ASSUME NewDayInv, bGetDatetime, ~slipped, ~scrambled, ~raced,
                      NEW i \in Waiting(front, rear) \ overtaken, slot[i].fresh
               PROVE  slot[i].made <= slot[i].day /\ slot[i].day <= today
    BY DEF StampIsPlausible
  <2>1. i \in Slot /\ front \in Slot /\ rear \in Slot
    BY DEF Waiting, NewDayInv, Typed, RingTyped
  <2>2. front # rear /\ i # front
    <3>1. front \in Nat /\ rear \in Nat /\ i \in Nat
      BY <2>1, InSlot
    <3>. QED
      BY <3>1 DEF Waiting
  <2>3. RearSeen = rear
    BY <2>2 DEF NewDayInv, StepInv, InStep, RearSeen
  <2>4. slot[i] # Blank
    BY <2>3 DEF NewDayInv, RingKept, RingOK, Written
  <2>5. SlotDated(i)
    BY <2>1 DEF NewDayInv, Dated
  <2>. QED
    BY <2>2, <2>4, <2>5 DEF SlotDated, Plausible
<1>. QED
  BY <1>1, NewDayInvariant, PTL

(* The newest waiting record of a process and type has the value of its    *)
(* counter, through restamping, renumbering, commits and restarts, but for *)
(* a counter whose record is still on its way.                             *)
THEOREM RingAlwaysMatches == Spec => []RingMatchesCounters
<1>1. NewDayInv => RingMatchesCounters
  <2> SUFFICES ASSUME NewDayInv, ~scrambled, ~raced, NEW i \in Waiting(front, rear),
                      slot[i].data # cnt[slot[i].plan][slot[i].type],
                      <<slot[i].plan, slot[i].type>> \notin apart
               PROVE  \E j \in Waiting(front, rear) :
                        /\ slot[j].plan = slot[i].plan /\ slot[j].type = slot[i].type
                        /\ (j - rear + LEN_Q_BUFF) % LEN_Q_BUFF
                             > (i - rear + LEN_Q_BUFF) % LEN_Q_BUFF
    BY DEF RingMatchesCounters
  <2>1. i \in Slot /\ front \in Slot /\ rear \in Slot /\ Waiting(front, rear) \subseteq Slot
    BY DEF Waiting, NewDayInv, Typed, RingTyped
  <2>2. front # rear
    <3>1. front \in Nat /\ rear \in Nat /\ i \in Nat
      BY <2>1, InSlot
    <3>. QED
      BY <3>1 DEF Waiting
  <2>3. RearSeen = rear
    BY <2>2 DEF NewDayInv, StepInv, InStep, RearSeen
  <2>4. RingOK(front, rear, slot, cnt, apart)
    BY <2>3 DEF NewDayInv, RingKept
  <2>5. PICK j \in Waiting(front, rear) :
          /\ slot[j].plan = slot[i].plan /\ slot[j].type = slot[i].type
          /\ Dist(rear, j) > Dist(rear, i)
    BY <2>4 DEF RingOK, Matches
  <2>6. /\ (j - rear + LEN_Q_BUFF) % LEN_Q_BUFF = Dist(rear, j)
        /\ (i - rear + LEN_Q_BUFF) % LEN_Q_BUFF = Dist(rear, i)
    BY <2>1, Distances
  <2>. QED
    BY <2>5, <2>6
<1>. QED
  BY <1>1, NewDayInvariant, PTL

(* While the device's own day and data agree, the days in flash differ     *)
(* only as long as the data sector has still to be committed.              *)
THEOREM DayAlwaysThenData == Spec => []DayThenData
<1>1. NewDayInv => DayThenData
  BY DEF NewDayInv, DaysKept, DayThenData
<1>. QED
  BY <1>1, NewDayInvariant, PTL

(* What the server's date-time keeps on a new day are the records of this  *)
(* boot, and the current process's counters are their numbers.             *)
THEOREM AlwaysKeepsToday == Spec => KeptAreToday
<1>1. ASSUME NewDayInv, [Next]_vars, day_reset' # day_reset, ~bGetDatetime, bGetDatetime',
             daily_product_reset, front >= usQFontStart, ~raced'
      PROVE  /\ \A i \in Waiting(front', rear') : slot'[i].fresh
             /\ \A t \in TYPES :
                  cnt'[idx_plan][t] =
                    Cardinality({i \in Waiting(front', rear') : slot'[i].type = t})
  <2>1. GetDateTime
    <3>1. CASE Loop
      BY <1>1, <3>1, LoopLeaves
    <3>2. CASE Quiet
      BY <1>1, <3>2, QuietLeaves
    <3>3. CASE UpdateCount
      BY <1>1, <3>3, CountUpdated DEF NewDayInv
    <3>4. CASE Resets
      BY <1>1, <3>4, ResetsLeave
    <3>5. CASE Boot
      BY <1>1, <3>5 DEF Boot
    <3>. QED
      BY <1>1, <3>1, <3>2, <3>3, <3>4, <3>5, Groups
  <2>2. CheckResetNewDay /\ ResetDataWhenNewDay(FALSE, UpdateTimeEEPROM)
    BY <1>1, <2>1 DEF GetDateTime
  <2>3. UpdateOutputValueEEPROM(UpdateTimeEEPROM)
    BY <1>1, <2>2 DEF ResetDataWhenNewDay
  <2>4. idx_plan \in Plan /\ RingTyped /\ PlanTyped /\ SlotsTyped /\ TimeTyped
    BY <1>1 DEF NewDayInv, Typed, PlanTyped
  <2>5. CASE front = usQFontStart
    <3>1. front' = 0 /\ rear' = 0 /\ cnt' = NoCounts
      BY <2>3, <2>5 DEF UpdateOutputValueEEPROM, ResetProduction
    <3>2. Waiting(0, 0) = {}
      <4>1. \A i \in Slot : i \in Nat
        BY InSlot
      <4>. QED
        BY <4>1 DEF Waiting
    <3>3. ASSUME NEW t \in TYPES
          PROVE  cnt'[idx_plan][t] =
                   Cardinality({i \in Waiting(front', rear') : slot'[i].type = t})
      <4>1. {i \in Waiting(front', rear') : slot'[i].type = t} = {}
        BY <3>1, <3>2
      <4>2. Cardinality({}) = 0
        BY FS_EmptySet
      <4>3. cnt'[idx_plan][t] = 0
        BY <2>4, <3>1 DEF NoCounts
      <4>. QED
        BY <4>1, <4>2, <4>3
    <3>. QED
      BY <3>1, <3>2, <3>3
  <2>6. CASE front # usQFontStart
    <3>. DEFINE s == UpdateTimeEEPROM
                K == From(usQFontStart)
    <3>1. /\ slot' = Renumbered(s) /\ rear' = usQFontStart /\ front' = front
          /\ cnt' = [p \in Plan |-> [t \in TYPES |->
                       IF p = idx_plan THEN Number(s, t, LEN_Q_BUFF) ELSE cnt[p][t] % 65536]]
          /\ raced' = (raced \/ pc # "idle")
      BY <2>3, <2>6 DEF UpdateOutputValueEEPROM
    <3>2. BootRecords
      <4>1. raced' = (raced \/ pc # "idle")
        BY <3>1
      <4>2. ~raced'
        BY <1>1
      <4>3. ~raced
        BY <4>1, <4>2, Zenon
      <4>. QED
        BY <1>1, <4>3 DEF NewDayInv, SinceBoot
    <3>3. s \in Slots /\ \A i \in K : s[i] # Blank /\ s[i].fresh
      BY <2>4, <3>2, Restamped DEF BootRecords, From
    <3>. HIDE DEF s
    <3>4. Waiting(front', rear') = K
      <4>1. usQFontStart <= front
        BY <1>1, <2>4, InSlot DEF RingTyped
      <4>. QED
        BY <2>4, <3>1, <3>2, <4>1, KeptWaiting
    <3>5. \A i \in K : i \in Slot /\ i <= LEN_Q_BUFF
      BY InSlot DEF From
    <3>6. \A i \in K : slot'[i].fresh = s[i].fresh /\ slot'[i].type = s[i].type
      BY <2>4, <3>1, <3>3, <3>5, RenumberedRing
    <3>7. ASSUME NEW t \in TYPES
          PROVE  cnt'[idx_plan][t] =
                   Cardinality({i \in Waiting(front', rear') : slot'[i].type = t})
      <4>1. cnt'[idx_plan][t] = Number(s, t, LEN_Q_BUFF)
        BY <2>4, <3>1
      <4>2. {j \in K : j <= LEN_Q_BUFF /\ s[j].type = t}
              = {i \in Waiting(front', rear') : slot'[i].type = t}
        BY <3>4, <3>5, <3>6
      <4>. QED
        BY <4>1, <4>2 DEF Number
    <3>8. \A i \in Waiting(front', rear') : slot'[i].fresh
      BY <3>3, <3>4, <3>6
    <3>. QED
      BY <3>7, <3>8
  <2>. QED
    BY <2>5, <2>6
<1>2. NewDayInv /\ [Next]_vars =>
        [ day_reset' # day_reset /\ ~bGetDatetime /\ bGetDatetime' /\ daily_product_reset
            /\ front >= usQFontStart /\ ~raced'
          => /\ \A i \in Waiting(front', rear') : slot'[i].fresh
             /\ \A t \in TYPES :
                  cnt'[idx_plan][t] =
                    Cardinality({i \in Waiting(front', rear') : slot'[i].type = t}) ]_vars
  BY <1>1
<1>. QED
  BY <1>2, NewDayInvariant, PTL DEF Spec, KeptAreToday
-----------------------------------------------------------------------------
(* Stamps: hours, minutes and seconds.                                     *)

LEMMA StampSizes ==
  /\ HOURS \in Nat \ {0} /\ MINUTES \in Nat \ {0} /\ SECONDS \in Nat \ {0}
  /\ BYTE \in Nat \ {0} /\ WORD \in Nat \ {0}
  /\ HOURS <= BYTE /\ MINUTES <= BYTE /\ SECONDS <= BYTE
  /\ Hour \in Nat \ {0} /\ DayLength \in Nat \ {0} /\ DayLength < WORD
<1>1. /\ HOURS \in Nat \ {0} /\ MINUTES \in Nat \ {0} /\ SECONDS \in Nat \ {0}
      /\ BYTE \in Nat \ {0}
  BY StampsAssumption
<1>2. 2 * HOURS <= BYTE /\ 2 * MINUTES <= BYTE /\ 2 * SECONDS <= BYTE
  BY StampsAssumption
<1>3. HOURS <= BYTE /\ MINUTES <= BYTE /\ SECONDS <= BYTE
  BY <1>1, <1>2
<1>4. \A a, b \in Nat \ {0} : a * b \in Nat \ {0}
  OBVIOUS
<1>5. Hour \in Nat \ {0}
  BY <1>1, <1>4 DEF Hour
<1>6. DayLength \in Nat \ {0}
  BY <1>1, <1>4, <1>5 DEF DayLength
<1>7. DayLength < WORD /\ WORD \in Nat
  BY StampsAssumption
<1>8. DayLength < WORD => WORD # 0
  BY <1>6
<1>. QED
  BY <1>1, <1>3, <1>5, <1>6, <1>7, <1>8

LEMMA Divided ==
  ASSUME NEW b \in Nat \ {0}, NEW x \in Nat
  PROVE  /\ x \div b \in Nat /\ x % b \in 0 .. b - 1
         /\ x = (x \div b) * b + (x % b)
OBVIOUS

LEMMA Divides ==
  ASSUME NEW b \in Nat \ {0}, NEW k \in Nat, NEW x \in 0 .. b - 1
  PROVE  (k * b + x) \div b = k /\ (k * b + x) % b = x
OBVIOUS

LEMMA SmallFactor ==
  ASSUME NEW a \in Nat, NEW b \in Nat, NEW c \in Nat \ {0}
  PROVE  /\ a * c < b * c => a < b
         /\ a < b => a * c + c <= b * c
OBVIOUS

(* A time of day is its hours, minutes and seconds.                        *)
LEMMA TimeParts ==
  ASSUME NEW t \in TimeOfDay
  PROVE  /\ HourOf(t) \in 0 .. HOURS - 1
         /\ MinuteOf(t) \in 0 .. MINUTES - 1
         /\ SecondOf(t) \in 0 .. SECONDS - 1
         /\ t % Hour = MinuteOf(t) * SECONDS + SecondOf(t)
         /\ t = HourOf(t) * Hour + MinuteOf(t) * SECONDS + SecondOf(t)
<1> DEFINE h == t \div Hour
           r == t % Hour
           m == r \div SECONDS
           s == r % SECONDS
<1>1. t \in Nat /\ t < HOURS * Hour
  BY StampSizes DEF TimeOfDay, DayLength
<1>2. /\ HOURS \in Nat \ {0} /\ MINUTES \in Nat \ {0} /\ SECONDS \in Nat \ {0}
      /\ Hour \in Nat \ {0} /\ Hour = MINUTES * SECONDS
  BY StampSizes DEF Hour
<1>3. h \in Nat /\ r \in 0 .. Hour - 1 /\ t = h * Hour + r
  BY <1>1, <1>2, Divided
<1>4. m \in Nat /\ s \in 0 .. SECONDS - 1 /\ r = m * SECONDS + s
  <2>1. r \in Nat
    BY <1>2, <1>3
  <2>. QED
    BY <1>2, <2>1, Divided
<1> HIDE DEF h, r, m, s
<1>5. h < HOURS
  <2>1. h * Hour \in Nat /\ HOURS * Hour \in Nat
    BY <1>2, <1>3
  <2>2. h * Hour < HOURS * Hour
    BY <1>1, <1>2, <1>3, <2>1
  <2>. QED
    BY <1>2, <1>3, <2>2, SmallFactor
<1>6. m < MINUTES
  <2>1. m * SECONDS \in Nat /\ MINUTES * SECONDS \in Nat
    BY <1>2, <1>4
  <2>2. m * SECONDS < MINUTES * SECONDS
    BY <1>2, <1>3, <1>4, <2>1
  <2>. QED
    BY <1>2, <1>4, <2>2, SmallFactor
<1>7. SecondOf(t) = s
  <2>1. h * MINUTES + m \in Nat
    BY <1>2, <1>3, <1>4
  <2>2. t = (h * MINUTES + m) * SECONDS + s
    <3>1. h * (MINUTES * SECONDS) = (h * MINUTES) * SECONDS
      BY <1>2, <1>3
    <3>2. (h * MINUTES + m) * SECONDS = (h * MINUTES) * SECONDS + m * SECONDS
      BY <1>2, <1>3, <1>4
    <3>3. /\ (h * MINUTES) * SECONDS \in Nat /\ m * SECONDS \in Nat /\ s \in Nat
      BY <1>2, <1>3, <1>4
    <3>. QED
      BY <1>2, <1>3, <1>4, <3>1, <3>2, <3>3
  <2>. QED
    BY <1>2, <1>4, <2>1, <2>2, Divides DEF SecondOf
<1>8. HourOf(t) = h /\ MinuteOf(t) = m /\ t % Hour = r
  BY DEF HourOf, MinuteOf, h, m, r
<1>9. t = h * Hour + m * SECONDS + s
  <2>1. h * Hour \in Nat /\ m * SECONDS \in Nat /\ s \in Nat
    BY <1>2, <1>3, <1>4
  <2>. QED
    BY <1>3, <1>4, <2>1
<1>. QED
  BY <1>2, <1>3, <1>4, <1>5, <1>6, <1>7, <1>8, <1>9

LEMMA TimeOfDayIs ==
  /\ TimeOfDay \subseteq Nat /\ 0 \in TimeOfDay
  /\ \A t \in TimeOfDay : t < DayLength
  /\ \A t \in Nat : t < DayLength => t \in TimeOfDay
BY StampSizes DEF TimeOfDay

(* Differences of times of day, and the next second.                       *)
LEMMA DayDifference ==
  ASSUME NEW a \in TimeOfDay, NEW b \in TimeOfDay
  PROVE  (a - b) % DayLength = IF b <= a THEN a - b ELSE a - b + DayLength
<1>1. a \in Nat /\ b \in Nat /\ a < DayLength /\ b < DayLength /\ DayLength \in Nat \ {0}
  BY StampSizes, TimeOfDayIs
<1>. QED
  BY <1>1

LEMMA NextSecond ==
  ASSUME NEW a \in TimeOfDay
  PROVE  /\ (a + 1) % DayLength = IF a + 1 = DayLength THEN 0 ELSE a + 1
         /\ (a + 1) % DayLength \in TimeOfDay
<1>1. a \in Nat /\ a < DayLength /\ DayLength \in Nat \ {0}
  BY StampSizes, TimeOfDayIs
<1>2. (a + 1) % DayLength = IF a + 1 = DayLength THEN 0 ELSE a + 1
  BY <1>1
<1>. QED
  BY <1>1, <1>2, TimeOfDayIs

LEMMA Small ==
  ASSUME NEW b \in Nat \ {0}, NEW c \in 0 .. b - 1
  PROVE  c % b = c
OBVIOUS

(* Any hours, minutes and seconds make a time of day.                      *)
LEMMA MadeOfParts ==
  ASSUME NEW h \in Int, NEW m \in Int, NEW s \in Int
  PROVE  ((h % HOURS) * Hour) + ((m % MINUTES) * SECONDS) + (s % SECONDS) \in TimeOfDay
<1> DEFINE p == h % HOURS
           q == m % MINUTES
           r == s % SECONDS
<1>1. p \in 0 .. HOURS - 1 /\ q \in 0 .. MINUTES - 1 /\ r \in 0 .. SECONDS - 1
  BY StampSizes
<1>2. /\ HOURS \in Nat \ {0} /\ MINUTES \in Nat \ {0} /\ SECONDS \in Nat \ {0}
      /\ Hour \in Nat \ {0} /\ Hour = MINUTES * SECONDS /\ DayLength = HOURS * Hour
  BY StampSizes DEF Hour, DayLength
<1> HIDE DEF p, q, r
<1>3. p \in Nat /\ q \in Nat /\ r \in Nat /\ p < HOURS /\ q < MINUTES /\ r < SECONDS
  BY <1>1, <1>2
<1>4. p * Hour + Hour <= HOURS * Hour /\ q * SECONDS + SECONDS <= MINUTES * SECONDS
  BY <1>2, <1>3, SmallFactor
<1>5. p * Hour \in Nat /\ q * SECONDS \in Nat /\ HOURS * Hour \in Nat
  BY <1>2, <1>3
<1>6. (p * Hour) + (q * SECONDS) + r \in Nat /\ (p * Hour) + (q * SECONDS) + r < DayLength
  BY <1>2, <1>3, <1>4, <1>5
<1>7. (p * Hour) + (q * SECONDS) + r \in TimeOfDay
  BY <1>6, TimeOfDayIs
<1>. QED
  BY <1>7 DEF p, q, r

(* What updateTimeEEPROM finds as the time since the record was made.      *)
LEMMA PassedIs ==
  ASSUME NEW t \in TimeOfDay, sys \in TimeOfDay, t <= sys
  PROVE  /\ sys - t \in TimeOfDay
         /\ Passed(t) = [hour |-> HourOf(sys - t), min |-> MinuteOf(sys - t),
                         sec |-> SecondOf(sys - t)]
<1> DEFINE d == sys - t
           u == (sys - t) % WORD
           h == (u \div Hour) % BYTE
           m == (((u - h * Hour) % WORD) \div SECONDS) % BYTE
<1>1. d \in Nat /\ d < DayLength /\ d \in TimeOfDay
  BY TimeOfDayIs, StampSizes
<1>2. /\ Hour \in Nat \ {0} /\ SECONDS \in Nat \ {0} /\ BYTE \in Nat \ {0}
      /\ HOURS \in Nat /\ MINUTES \in Nat
      /\ WORD \in Nat \ {0} /\ HOURS <= BYTE /\ MINUTES <= BYTE /\ SECONDS <= BYTE
      /\ DayLength < WORD /\ DayLength \in Nat
  BY StampSizes
<1>3. /\ HourOf(d) \in 0 .. HOURS - 1 /\ MinuteOf(d) \in 0 .. MINUTES - 1
      /\ SecondOf(d) \in 0 .. SECONDS - 1
      /\ d % Hour = MinuteOf(d) * SECONDS + SecondOf(d)
      /\ d = HourOf(d) * Hour + MinuteOf(d) * SECONDS + SecondOf(d)
  BY <1>1, TimeParts
<1>4. u = d
  <2>1. d \in 0 .. WORD - 1
    BY <1>1, <1>2
  <2>. QED
    BY <1>2, <2>1, Small
<1>5. h = HourOf(d)
  <2>1. HourOf(d) \in 0 .. BYTE - 1
    BY <1>2, <1>3
  <2>2. HourOf(d) % BYTE = HourOf(d)
    BY <1>2, <2>1, Small
  <2>. QED
    BY <1>4, <2>2 DEF HourOf
<1> HIDE DEF d, u, h
<1>6. /\ HourOf(d) * Hour \in Nat /\ MinuteOf(d) * SECONDS \in Nat /\ SecondOf(d) \in Nat
      /\ MinuteOf(d) \in Nat
  BY <1>2, <1>3
<1>7. m = MinuteOf(d)
  <2>1. u - h * Hour = MinuteOf(d) * SECONDS + SecondOf(d)
    BY <1>1, <1>3, <1>4, <1>5, <1>6
  <2>2. u - h * Hour \in 0 .. WORD - 1
    BY <1>1, <1>2, <1>3, <1>6, <2>1
  <2>3. (u - h * Hour) % WORD = MinuteOf(d) * SECONDS + SecondOf(d)
    BY <1>2, <2>1, <2>2, Small
  <2>4. ((u - h * Hour) % WORD) \div SECONDS = MinuteOf(d)
    BY <1>2, <1>3, <1>6, <2>3, Divides
  <2>5. MinuteOf(d) \in 0 .. BYTE - 1
    BY <1>2, <1>3
  <2>6. MinuteOf(d) % BYTE = MinuteOf(d)
    BY <1>2, <2>5, Small
  <2>. QED
    BY <2>4, <2>6
<1> HIDE DEF m
<1>8. (u - h * Hour - m * SECONDS) % BYTE = SecondOf(d)
  <2>1. u - h * Hour - m * SECONDS = SecondOf(d)
    BY <1>1, <1>3, <1>4, <1>5, <1>6, <1>7
  <2>2. SecondOf(d) \in 0 .. BYTE - 1
    BY <1>2, <1>3
  <2>. QED
    BY <1>2, <2>1, <2>2, Small
<1>9. Passed(t) = [hour |-> h, min |-> m, sec |-> (u - h * Hour - m * SECONDS) % BYTE]
  BY DEF Passed, u, h, m
<1>. QED
  BY <1>1, <1>5, <1>7, <1>8, <1>9 DEF d

(* Times of day compare as their parts do.                                 *)
LEMMA Earlier ==
  ASSUME NEW t \in TimeOfDay, NEW d \in TimeOfDay
  PROVE  /\ HourOf(t) < HourOf(d) => t < d
         /\ HourOf(t) > HourOf(d) => t > d
         /\ HourOf(t) = HourOf(d) /\ MinuteOf(t) < MinuteOf(d) => t < d
         /\ HourOf(t) = HourOf(d) /\ MinuteOf(t) = MinuteOf(d) /\ SecondOf(t) < SecondOf(d) => t < d
<1> DEFINE hn == HourOf(t)
           mn == MinuteOf(t)
           sn == SecondOf(t)
           hd == HourOf(d)
           md == MinuteOf(d)
           sd == SecondOf(d)
<1>1. /\ SECONDS \in Nat \ {0} /\ Hour \in Nat \ {0} /\ MINUTES \in Nat \ {0} /\ HOURS \in Nat
      /\ Hour = MINUTES * SECONDS
  BY StampSizes DEF Hour
<1>2. /\ hn \in Nat /\ mn \in Nat /\ sn \in Nat /\ hd \in Nat /\ md \in Nat /\ sd \in Nat
      /\ mn < MINUTES /\ md < MINUTES /\ sn < SECONDS /\ sd < SECONDS
      /\ t = hn * Hour + mn * SECONDS + sn /\ d = hd * Hour + md * SECONDS + sd
  BY <1>1, TimeParts
<1> HIDE DEF hn, mn, sn, hd, md, sd
<1>3. /\ mn * SECONDS + SECONDS <= Hour /\ md * SECONDS + SECONDS <= Hour
      /\ mn < md => mn * SECONDS + SECONDS <= md * SECONDS
      /\ hn < hd => hn * Hour + Hour <= hd * Hour
      /\ hd < hn => hd * Hour + Hour <= hn * Hour
  BY <1>1, <1>2, SmallFactor
<1>4. /\ hn * Hour \in Nat /\ hd * Hour \in Nat /\ mn * SECONDS \in Nat /\ md * SECONDS \in Nat
  BY <1>1, <1>2
<1>5. hn < hd => t < d
  BY <1>1, <1>2, <1>3, <1>4
<1>6. hn > hd => t > d
  BY <1>1, <1>2, <1>3, <1>4
<1>7. hn = hd /\ mn < md => t < d
  BY <1>1, <1>2, <1>3, <1>4
<1>8. hn = hd /\ mn = md /\ sn < sd => t < d
  BY <1>1, <1>2, <1>4
<1>. QED
  BY <1>5, <1>6, <1>7, <1>8 DEF hn, mn, sn, hd, md, sd

(* The time of day that lies d before now, whatever has to be borrowed,    *)
(* unless hour 0 is asked to lend.                                         *)
LEMMA BeforeIs ==
  ASSUME NEW d \in TimeOfDay, now \in TimeOfDay,
         ~(HourOf(now) = HourOf(d) /\ now < d)
  PROVE  Before([hour |-> HourOf(d), min |-> MinuteOf(d), sec |-> SecondOf(d)])
           = IF d <= now THEN now - d ELSE now - d + DayLength
<1> DEFINE hn == HourOf(now)
           mn == MinuteOf(now)
           sn == SecondOf(now)
           hd == HourOf(d)
           md == MinuteOf(d)
           sd == SecondOf(d)
           hour0 == (hn - hd + (IF hn < hd THEN HOURS ELSE 0)) % BYTE
           hour1 == IF mn < md THEN LessOne(hour0) ELSE hour0
           min1  == (mn - md + (IF mn < md THEN MINUTES ELSE 0)) % BYTE
           borrow == sn < sd
           hour2 == IF borrow /\ min1 = 0 THEN LessOne(hour1) ELSE hour1
           min2  == IF ~borrow THEN min1 ELSE IF min1 = 0 THEN MINUTES - 1 ELSE min1 - 1
           sec1  == (sn - sd + (IF borrow THEN SECONDS ELSE 0)) % BYTE
           w == IF hn < hd THEN 1 ELSE 0
           b == IF mn < md \/ (mn = md /\ sn < sd) THEN 1 ELSE 0
           o == IF sn < sd THEN 1 ELSE 0
<1>1. Before([hour |-> hd, min |-> md, sec |-> sd])
        = ((hour2 % HOURS) * Hour) + ((min2 % MINUTES) * SECONDS) + (sec1 % SECONDS)
  BY DEF Before
<1>2. /\ SECONDS \in Nat \ {0} /\ MINUTES \in Nat \ {0} /\ HOURS \in Nat \ {0}
      /\ BYTE \in Nat \ {0} /\ HOURS <= BYTE /\ MINUTES <= BYTE /\ SECONDS <= BYTE
      /\ DayLength \in Nat /\ Hour \in Nat
      /\ Hour = MINUTES * SECONDS /\ DayLength = HOURS * Hour
  BY StampSizes DEF Hour, DayLength
<1>3. /\ hn \in Nat /\ mn \in Nat /\ sn \in Nat /\ hd \in Nat /\ md \in Nat /\ sd \in Nat
      /\ hn < HOURS /\ hd < HOURS /\ mn < MINUTES /\ md < MINUTES /\ sn < SECONDS /\ sd < SECONDS
  BY <1>2, TimeParts
<1>4. now = hn * Hour + mn * SECONDS + sn /\ d = hd * Hour + md * SECONDS + sd
  BY TimeParts
<1>5. /\ hn < hd => now < d
      /\ hn > hd => now > d
      /\ hn = hd => b = 0 /\ ~(now < d)
  <2>1. now \in Nat /\ d \in Nat
    BY TimeOfDayIs
  <2>. QED
    BY <2>1, Earlier
<1> HIDE DEF hn, mn, sn, hd, md, sd
<1>6. hour0 = hn - hd + HOURS * w
  <2>1. hn - hd + (IF hn < hd THEN HOURS ELSE 0) \in 0 .. BYTE - 1
    BY <1>2, <1>3
  <2>2. hour0 = hn - hd + (IF hn < hd THEN HOURS ELSE 0)
    BY <1>2, <2>1, Small
  <2>. QED
    BY <1>2, <1>3, <2>2
<1>7. min1 = mn - md + (IF mn < md THEN MINUTES ELSE 0)
  <2>1. mn - md + (IF mn < md THEN MINUTES ELSE 0) \in 0 .. BYTE - 1
    BY <1>2, <1>3
  <2>. QED
    BY <1>2, <2>1, Small
<1>8. sec1 = sn - sd + SECONDS * o /\ sec1 \in 0 .. SECONDS - 1
  <2>1. /\ sn - sd + (IF borrow THEN SECONDS ELSE 0) \in 0 .. BYTE - 1
        /\ sn - sd + (IF borrow THEN SECONDS ELSE 0) \in 0 .. SECONDS - 1
    BY <1>2, <1>3
  <2>2. sec1 = sn - sd + (IF borrow THEN SECONDS ELSE 0)
    BY <1>2, <2>1, Small
  <2>. QED
    BY <1>2, <1>3, <2>1, <2>2
<1>9. hour0 \in 0 .. HOURS - 1 /\ (b = 1 => hour0 > 0)
  BY <1>2, <1>3, <1>5, <1>6
<1> HIDE DEF hour0, min1, sec1
<1>10. hour2 = hour0 - b
  <2>1. hour0 > 0 => LessOne(hour0) = hour0 - 1
    <3>1. hour0 > 0 => hour0 - 1 \in 0 .. BYTE - 1
      BY <1>2, <1>9
    <3>. QED
      BY <1>2, <3>1, Small DEF LessOne
  <2>2. mn < md => min1 # 0
    BY <1>2, <1>3, <1>7
  <2>3. ~(mn < md) => (min1 = 0 <=> mn = md)
    BY <1>3, <1>7
  <2>4. hour0 \in Int
    BY <1>2, <1>9
  <2>. QED
    BY <1>3, <1>9, <2>1, <2>2, <2>3, <2>4
<1>11. min2 = mn - md + MINUTES * b - o
  BY <1>2, <1>3, <1>7
<1>12. hour2 \in 0 .. HOURS - 1 /\ min2 \in 0 .. MINUTES - 1
  BY <1>2, <1>3, <1>7, <1>9, <1>10
<1>13. w \in 0 .. 1 /\ b \in 0 .. 1 /\ o \in 0 .. 1
  OBVIOUS
<1>14. w = 1 <=> ~(d <= now)
  <2>1. now \in Nat /\ d \in Nat
    BY TimeOfDayIs
  <2>. QED
    BY <1>3, <1>5, <2>1
<1> HIDE DEF hour2, min2, w, b, o
<1>15. Before([hour |-> hd, min |-> md, sec |-> sd])
         = (hour2 * Hour) + (min2 * SECONDS) + sec1
  <2>1. hour2 % HOURS = hour2 /\ min2 % MINUTES = min2 /\ sec1 % SECONDS = sec1
    BY <1>2, <1>8, <1>12, Small
  <2>. QED
    BY <1>1, <2>1
<1>16. hour2 = hn - hd + HOURS * w - b
  BY <1>2, <1>3, <1>6, <1>10, <1>13
<1>17. Before([hour |-> hd, min |-> md, sec |-> sd])
         = ((hn - hd + HOURS * w - b) * Hour) + ((mn - md + MINUTES * b - o) * SECONDS)
             + (sn - sd + SECONDS * o)
  BY <1>8, <1>11, <1>15, <1>16
<1>18. (hn - hd + HOURS * w - b) * Hour
         = hn * Hour - hd * Hour + (IF w = 1 THEN DayLength ELSE 0) - (IF b = 1 THEN Hour ELSE 0)
  <2>1. (hn - hd + HOURS * w - b) * Hour = hn * Hour - hd * Hour + (HOURS * w) * Hour - b * Hour
    BY <1>2, <1>3, <1>13
  <2>2. (HOURS * w) * Hour = (IF w = 1 THEN DayLength ELSE 0)
    BY <1>2, <1>13
  <2>3. b * Hour = (IF b = 1 THEN Hour ELSE 0)
    BY <1>2, <1>13
  <2>. QED
    BY <2>1, <2>2, <2>3
<1>19. (mn - md + MINUTES * b - o) * SECONDS
         = mn * SECONDS - md * SECONDS + (IF b = 1 THEN Hour ELSE 0)
             - (IF o = 1 THEN SECONDS ELSE 0)
  <2>1. (mn - md + MINUTES * b - o) * SECONDS
          = mn * SECONDS - md * SECONDS + (MINUTES * b) * SECONDS - o * SECONDS
    BY <1>2, <1>3, <1>13
  <2>2. (MINUTES * b) * SECONDS = (IF b = 1 THEN Hour ELSE 0)
    BY <1>2, <1>13
  <2>3. o * SECONDS = (IF o = 1 THEN SECONDS ELSE 0)
    BY <1>2, <1>13
  <2>. QED
    BY <2>1, <2>2, <2>3
<1>20. sn - sd + SECONDS * o = sn - sd + (IF o = 1 THEN SECONDS ELSE 0)
  BY <1>2, <1>3, <1>13
<1>21. /\ hn * Hour \in Nat /\ hd * Hour \in Nat /\ mn * SECONDS \in Nat /\ md * SECONDS \in Nat
  BY <1>2, <1>3
<1>22. Before([hour |-> hd, min |-> md, sec |-> sd])
         = now - d + (IF w = 1 THEN DayLength ELSE 0)
  <2>. DEFINE a == IF w = 1 THEN DayLength ELSE 0
              e == IF b = 1 THEN Hour ELSE 0
              f == IF o = 1 THEN SECONDS ELSE 0
              hn1 == hn * Hour
              hd1 == hd * Hour
              mn1 == mn * SECONDS
              md1 == md * SECONDS
  <2>1. a \in Nat /\ e \in Nat /\ f \in Nat
    BY <1>2
  <2>2. hn1 \in Nat /\ hd1 \in Nat /\ mn1 \in Nat /\ md1 \in Nat /\ sn \in Nat /\ sd \in Nat
    BY <1>3, <1>21
  <2>3. now = hn1 + mn1 + sn /\ d = hd1 + md1 + sd
    BY <1>4
  <2>4. Before([hour |-> hd, min |-> md, sec |-> sd])
          = (hn1 - hd1 + a - e) + (mn1 - md1 + e - f) + (sn - sd + f)
    BY <1>17, <1>18, <1>19, <1>20
  <2>. HIDE DEF a, e, f, hn1, hd1, mn1, md1
  <2>5. Before([hour |-> hd, min |-> md, sec |-> sd]) = now - d + a
    BY <2>1, <2>2, <2>3, <2>4
  <2>. QED
    BY <2>5 DEF a
<1>. QED
  BY <1>14, <1>22, TimeOfDayIs DEF hd, md, sd

(* The inductive invariant of the stamps.                                  *)
StampsTyped ==
  /\ now \in TimeOfDay /\ sys \in TimeOfDay
  /\ stamp \in TimeOfDay \cup {-1} /\ made \in TimeOfDay \cup {-1}
  /\ stamp = -1 <=> made = -1
  /\ garbled \in BOOLEAN

StampsInv == StampsTyped /\ KeepsItsDistance

LEMMA NoTimeYet == -1 \notin TimeOfDay
BY TimeOfDayIs

LEMMA ClockSet ==
  ASSUME StampsInv, SetClock
  PROVE  StampsInv'
<1>1. /\ sys' = now /\ UNCHANGED <<now, made>>
      /\ now \in TimeOfDay /\ sys \in TimeOfDay
  BY DEF SetClock, StampsInv, StampsTyped
<1>2. CASE stamp = -1
  BY <1>1, <1>2 DEF SetClock, StampsInv, StampsTyped, KeepsItsDistance
<1>3. CASE stamp # -1
  <2>1. /\ stamp \in TimeOfDay /\ made \in TimeOfDay
        /\ stamp' = Before(Passed(stamp)) /\ garbled' = (garbled \/ Garbles)
        /\ garbled \in BOOLEAN
    BY <1>3 DEF SetClock, StampsInv, StampsTyped
  <2>2. stamp' \in TimeOfDay
    <3> DEFINE d == Passed(stamp)
    <3>1. d.hour \in Int /\ d.min \in Int /\ d.sec \in Int
      <4>1. sys - stamp \in Int /\ WORD \in Nat \ {0} /\ BYTE \in Nat \ {0}
            /\ Hour \in Nat \ {0} /\ SECONDS \in Nat \ {0}
        BY <1>1, <2>1, TimeOfDayIs, StampSizes
      <4>2. \A x \in Int : x % BYTE \in Int /\ x % WORD \in Nat
        BY <4>1
      <4>3. \A x \in Nat : x \div Hour \in Int /\ x \div SECONDS \in Int
        BY <4>1
      <4>. DEFINE u == (sys - stamp) % WORD
                  h == (u \div Hour) % BYTE
                  m == (((u - h * Hour) % WORD) \div SECONDS) % BYTE
      <4>4. u \in Nat
        BY <4>1, <4>2
      <4>5. h \in Int
        BY <4>2, <4>3, <4>4
      <4>. HIDE DEF u, h
      <4>6. u - h * Hour \in Int
        BY <4>1, <4>4, <4>5
      <4>7. m \in Int
        BY <4>2, <4>3, <4>6
      <4>. HIDE DEF m
      <4>8. u - h * Hour - m * SECONDS \in Int
        BY <4>1, <4>4, <4>5, <4>7
      <4>9. (u - h * Hour - m * SECONDS) % BYTE \in Int
        BY <4>2, <4>8
      <4>10. d = [hour |-> h, min |-> m, sec |-> (u - h * Hour - m * SECONDS) % BYTE]
        BY DEF Passed, u, h, m
      <4>. QED
        BY <4>5, <4>7, <4>9, <4>10
    <3> HIDE DEF d
    <3>2. /\ HourOf(now) \in Int /\ MinuteOf(now) \in Int /\ SecondOf(now) \in Int
          /\ HOURS \in Int /\ MINUTES \in Int /\ SECONDS \in Int /\ BYTE \in Nat \ {0}
      BY <1>1, TimeParts, StampSizes
    <3>3. \A x \in Int : x % BYTE \in Int
      BY <3>2
    <3> DEFINE hour0 == (HourOf(now) - d.hour + (IF HourOf(now) < d.hour THEN HOURS ELSE 0)) % BYTE
               hour1 == IF MinuteOf(now) < d.min THEN LessOne(hour0) ELSE hour0
               min1  == (MinuteOf(now) - d.min
                           + (IF MinuteOf(now) < d.min THEN MINUTES ELSE 0)) % BYTE
               borrow == SecondOf(now) < d.sec
               hour2 == IF borrow /\ min1 = 0 THEN LessOne(hour1) ELSE hour1
               min2  == IF ~borrow THEN min1 ELSE IF min1 = 0 THEN MINUTES - 1 ELSE min1 - 1
               sec1  == (SecondOf(now) - d.sec + (IF borrow THEN SECONDS ELSE 0)) % BYTE
    <3>4. Before(d)
            = ((hour2 % HOURS) * Hour) + ((min2 % MINUTES) * SECONDS) + (sec1 % SECONDS)
      BY DEF Before
    <3>5. \A x \in Int : LessOne(x) \in Int
      BY <3>2 DEF LessOne
    <3>6. hour0 \in Int /\ min1 \in Int /\ sec1 \in Int
      BY <3>1, <3>2
    <3> HIDE DEF hour0, min1, sec1, borrow
    <3>7. hour2 \in Int /\ min2 \in Int
      BY <3>2, <3>5, <3>6
    <3> HIDE DEF hour2, min2
    <3>. QED
      BY <2>1, <3>4, <3>6, <3>7, MadeOfParts DEF d
  <2>3. ASSUME ~garbled' PROVE (now - stamp') % DayLength = (now - made) % DayLength
    <3> DEFINE d == sys - stamp
    <3>1. ~garbled /\ ~Garbles
      BY <2>1, <2>3
    <3>2. stamp \in Nat /\ sys \in Nat /\ now \in Nat /\ DayLength \in Nat \ {0}
          /\ now < DayLength /\ sys < DayLength
      BY <1>1, <2>1, TimeOfDayIs, StampSizes
    <3>3. stamp <= sys
      <4>1. ~(sys < stamp)
        BY <3>1 DEF Garbles
      <4>. QED
        BY <3>2, <4>1
    <3>4. d \in TimeOfDay /\ Passed(stamp) = [hour |-> HourOf(d), min |-> MinuteOf(d),
                                              sec |-> SecondOf(d)]
      BY <1>1, <2>1, <3>3, PassedIs
    <3>5. ~(HourOf(now) = HourOf(d) /\ now < d)
      BY <3>1 DEF Garbles
    <3>6. (sys - stamp) % DayLength = d
      BY <1>1, <2>1, <3>3, DayDifference
    <3>7. (sys - stamp) % DayLength = (now - made) % DayLength
      BY <1>3, <3>1 DEF StampsInv, KeepsItsDistance
    <3> HIDE DEF d
    <3>8. stamp' = IF d <= now THEN now - d ELSE now - d + DayLength
      BY <1>1, <2>1, <3>4, <3>5, BeforeIs
    <3>9. d \in Nat /\ d < DayLength
      BY <3>4, TimeOfDayIs
    <3>10. (now - stamp') % DayLength = d
      <4>1. (now - stamp') % DayLength = IF stamp' <= now THEN now - stamp'
                                                         ELSE now - stamp' + DayLength
        BY <1>1, <2>2, DayDifference
      <4>. QED
        BY <3>2, <3>8, <3>9, <4>1
    <3>. QED
      BY <3>6, <3>7, <3>10
  <2>4. garbled' \in BOOLEAN
    BY <2>1
  <2>5. stamp' # -1 /\ made # -1
    BY <2>1, <2>2, NoTimeYet
  <2>. QED
    BY <1>1, <2>1, <2>2, <2>3, <2>4, <2>5 DEF StampsInv, StampsTyped, KeepsItsDistance
<1>. QED
  BY <1>2, <1>3

LEMMA SecondPassed ==
  ASSUME StampsInv, SecondPasses
  PROVE  StampsInv'
<1>1. /\ now' = (now + 1) % DayLength /\ sys' = (sys + 1) % DayLength
      /\ UNCHANGED <<stamp, made, garbled>>
      /\ now \in TimeOfDay /\ sys \in TimeOfDay
  BY DEF SecondPasses, StampsInv, StampsTyped
<1>2. now' \in TimeOfDay /\ sys' \in TimeOfDay
  BY <1>1, NextSecond
<1>3. ASSUME stamp # -1, ~garbled
      PROVE  (sys' - stamp) % DayLength = (now' - made) % DayLength
  <2>1. stamp \in TimeOfDay /\ made \in TimeOfDay
    BY <1>3 DEF StampsInv, StampsTyped
  <2>2. (sys - stamp) % DayLength = (now - made) % DayLength
    BY <1>3 DEF StampsInv, KeepsItsDistance
  <2>3. /\ sys \in Nat /\ now \in Nat /\ stamp \in Nat /\ made \in Nat /\ DayLength \in Nat
        /\ sys < DayLength /\ now < DayLength /\ stamp < DayLength /\ made < DayLength
    BY <1>1, <2>1, TimeOfDayIs, StampSizes
  <2>4. /\ sys' = IF sys + 1 = DayLength THEN 0 ELSE sys + 1
        /\ now' = IF now + 1 = DayLength THEN 0 ELSE now + 1
    BY <1>1, NextSecond
  <2>5. /\ (sys - stamp) % DayLength = IF stamp <= sys THEN sys - stamp ELSE sys - stamp + DayLength
        /\ (now - made) % DayLength = IF made <= now THEN now - made ELSE now - made + DayLength
        /\ (sys' - stamp) % DayLength
             = IF stamp <= sys' THEN sys' - stamp ELSE sys' - stamp + DayLength
        /\ (now' - made) % DayLength
             = IF made <= now' THEN now' - made ELSE now' - made + DayLength
    BY <1>1, <1>2, <2>1, DayDifference
  <2>. QED
    BY <2>2, <2>3, <2>4, <2>5
<1>. QED
  BY <1>1, <1>2, <1>3 DEF StampsInv, StampsTyped, KeepsItsDistance

LEMMA RecordAdded ==
  ASSUME StampsInv, AddRecord
  PROVE  StampsInv'
<1>1. /\ stamp' = sys /\ made' = now /\ UNCHANGED <<now, sys, garbled>>
      /\ now \in TimeOfDay /\ sys \in TimeOfDay
  BY DEF AddRecord, StampsInv, StampsTyped
<1>2. (sys - sys) % DayLength = (now - now) % DayLength
  <2>1. sys \in Int /\ now \in Int
    BY <1>1, TimeOfDayIs
  <2>2. sys - sys = 0 /\ now - now = 0
    BY <2>1
  <2>. QED
    BY <2>2
<1>. QED
  BY <1>1, <1>2, NoTimeYet DEF StampsInv, StampsTyped, KeepsItsDistance

(* However often the clock is set, the record stays as far behind the      *)
(* device's clock as its making is behind the true time, whatever the      *)
(* lengths of a day, an hour and a minute, as long as the bytes hold them. *)
THEOREM AlwaysKeepsItsDistance == StampsSpec => []KeepsItsDistance
<1>1. StampsInit => StampsInv
  BY TimeOfDayIs DEF StampsInit, StampsInv, StampsTyped, KeepsItsDistance
<1>2. StampsInv /\ [StampsNext]_svars => StampsInv'
  <2> SUFFICES ASSUME StampsInv, [StampsNext]_svars PROVE StampsInv'
    OBVIOUS
  <2>1. CASE SecondPasses
    BY <2>1, SecondPassed
  <2>2. CASE AddRecord
    BY <2>2, RecordAdded
  <2>3. CASE SetClock
    BY <2>3, ClockSet
  <2>4. CASE UNCHANGED svars
    BY <2>4 DEF svars, StampsInv, StampsTyped, KeepsItsDistance
  <2>. QED
    BY <2>1, <2>2, <2>3, <2>4 DEF StampsNext
<1>3. StampsInv => KeepsItsDistance
  BY DEF StampsInv
<1>. QED
  BY <1>1, <1>2, <1>3, PTL DEF StampsSpec
=============================================================================
