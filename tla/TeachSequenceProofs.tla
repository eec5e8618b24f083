------------------------- MODULE TeachSequenceProofs -------------------------
(***************************************************************************)
(* Theorems about TeachSequence, for areas of every size and whatever the  *)
(* worker, the machine and the server send: every variable keeps its type, *)
(* a piece is counted after a whole round only, the running sequence is    *)
(* the stored one outside a teaching, and what is taught is the work that  *)
(* was shown.                                                              *)
(***************************************************************************)
EXTENDS TeachSequence, SequenceTheorems, TLAPS

-----------------------------------------------------------------------------
(* The inductive invariant, part by part.                                  *)

AreaOK(a)   == a \in AreaType /\ a[MAX_STEP] = Ended
StoreOK(s)  == s \in [Plan -> AreaType] /\ \A p \in Plan : s[p][MAX_STEP] = Ended

RunTyped   == ucMode \in Modes /\ run_step \in RunSteps /\ wait \in Cell
TeachTyped == tea_step \in TeaSteps /\ detected \in BOOLEAN
SaveTyped  == pc \in {"idle", "high", "low", "reset"} /\ saved \in Ids \cup {"NONE"}
FlagsTyped == /\ start_end \in StartEnd /\ changed \in BOOLEAN
              /\ ignore \in {"no", "yes", "over"}
Counted    == CNT \in [Ids -> 0 .. MAX_CNT]
PlanTyped  == len_plan \in 0 .. MAX_PLAN /\ idx_plan \in Plan
AreasTyped == AreaOK(area) /\ StoreOK(store)
FlashTyped == AreaOK(flash.area) /\ StoreOK(flash.store) /\ flash.idx \in Plan
DoneTyped  == done \in Seq(Step)

(* Where usE2pAddr stands: past the last cell only after reading that cell *)
(* or before a teaching resets it.                                         *)
AddrInArea ==
  /\ addr \in 0 .. MAX_STEP + 1
  /\ ucMode = "RUN" /\ run_step \in {"SET", "WAIT", "FINISH"} => addr <= MAX_STEP
  /\ ucMode = "TEA" /\ tea_step # "RES" => addr <= MAX_STEP

(* A step is saved while a sequence is taught, before the last cell.       *)
SavesInArea ==
  pc # "idle" => /\ ucMode = "TEA" /\ tea_step \in Ids \cup {"FINISH"} /\ saved \in Ids
                 /\ addr < MAX_STEP

(* The step waited for is a signal's.                                      *)
WaitsForSignal == ucMode = "RUN" /\ run_step = "WAIT" => wait.id # END

Typed == /\ RunTyped /\ TeachTyped /\ SaveTyped /\ FlagsTyped /\ Counted /\ PlanTyped
         /\ AreasTyped /\ FlashTyped /\ DoneTyped /\ AddrInArea /\ SavesInArea
         /\ WaitsForSignal

(* The first n steps of the running area.                                  *)
Prefix(n) == [i \in 1 .. n |-> area[i - 1]]
NoEndBelow(n) == \A j \in 0 .. n - 1 : area[j].id # END

(* What was completed in this round is what stands before the address.     *)
RoundKept ==
  ucMode = "RUN" =>
    /\ run_step \in {"SET", "FINISH"} => done = Prefix(addr) /\ NoEndBelow(addr)
    /\ run_step = "WAIT" => /\ addr > 0 /\ wait = area[addr - 1]
                            /\ done = Prefix(addr - 1) /\ NoEndBelow(addr)

(* Also while a sequence is taught, until the first signal.                *)
Stored ==
  (ucMode = "RUN" \/ ~detected) /\ ~changed /\ ~torn => Steps(area) = Steps(store[idx_plan])
DetectsBeforeSaving == ucMode = "TEA" /\ (tea_step \in Ids \/ pc # "idle") => detected
CleanFlash == ~flash.dirty => Steps(flash.area) = Steps(flash.store[flash.idx])

Sync == Stored /\ DetectsBeforeSaving /\ CleanFlash

TeachInv == Typed /\ RoundKept /\ Sync

-----------------------------------------------------------------------------
(* The kinds of step, by what they do to the sequence and to where the     *)
(* device stands in it.                                                    *)

(* A signal, a key of the teaching or of a page, a commit, or nothing.     *)
Leaves ==
  /\ UNCHANGED <<ucMode, run_step, wait, done, tea_step, detected, pc, saved, addr, changed,
                 area, store, len_plan, idx_plan, disturbed, torn>>
  /\ start_end' \in {start_end, "START", "END"}
  /\ ignore' \in {ignore, "yes", "over"}
  /\ CNT' = CNT \/ \E i \in Ids : CNT' = [CNT EXCEPT ![i] = Up(@)]
  /\ flash' \in {flash, Sector}

(* The round starts anew, with another sequence or with the same.          *)
Restarts ==
  /\ UNCHANGED <<ucMode, wait, done, tea_step, detected, pc, saved, addr, start_end, CNT,
                 ignore, flash, worked, waiting, rushed>>
  /\ \/ run_step' = "START" /\ changed' \in {changed, TRUE}
        /\ (changed' = TRUE \/ area' = store'[idx_plan'])
     \/ run_step' \in {run_step, "START"} /\ UNCHANGED <<area, store, idx_plan, changed, torn>>

Saves == SaveHigh \/ SaveLow \/ SaveReset

LEMMA Kinds ==
  ASSUME [Next]_vars
  PROVE  Leaves \/ Restarts \/ Pass \/ Saves \/ Boot
<1>. USE DEF running, teaching, save, plan, sensors, ghosts
<1>1. WORK \subseteq Ids /\ SEN0 \in Ids /\ SEN1 \in Ids /\ DLY \in Ids
  BY ConstantsAssumption DEF Ids
<1>2. CASE Signal
  <2>1. CASE DetFalling
    BY <1>1, <2>1 DEF DetFalling, CountUp, Leaves
  <2>2. CASE SignalCtrl
    BY <1>1, <2>2 DEF SignalCtrl, CountUp, Leaves
  <2>3. CASE IncreaseDelay
    BY <1>1, <2>3 DEF IncreaseDelay, CountUp, Leaves
  <2>4. CASE IgnoreTimeOver
    BY <2>4 DEF IgnoreTimeOver, Leaves
  <2>. QED
    BY <1>2, <2>1, <2>2, <2>3, <2>4 DEF Signal
<1>3. CASE StartTeachMode \/ EndTeachMode \/ DispNfcTagRead \/ Pause
  BY <1>3 DEF StartTeachMode, EndTeachMode, DispNfcTagRead, Pause, Leaves
<1>4. CASE CommitInfo
  BY <1>4 DEF CommitInfo, Leaves
<1>5. CASE DispSetupResetTeach \/ DispChangeProc \/ SetTeaching
  BY <1>5 DEF DispSetupResetTeach, DispChangeProc, SetTeaching, RestartRunMode, UpdateRun,
              Restarts
<1>6. CASE Resume
  BY <1>6 DEF Resume, RestartRunMode, Restarts
<1>7. CASE GetPlan
  BY <1>7 DEF GetPlan, RestartRunMode, UpdateRun, Restarts
<1>8. CASE UNCHANGED vars
  BY <1>8 DEF vars, Leaves
<1>. QED
  BY <1>2, <1>3, <1>4, <1>5, <1>6, <1>7, <1>8 DEF Next, Loop, Saves, Key, Callback

(* The kinds of pass.                                                      *)
LEMMA PassKinds ==
  ASSUME Pass
  PROVE  /\ \/ SeqOutRun /\ (RunStart \/ RunSet \/ RunEnd \/ RunWait \/ RunFinish)
            \/ SeqOutTeach /\ (TeachReset \/ TeachCheckSensor \/ TeachFinish)
         /\ pc = "idle" /\ len_plan' = len_plan /\ idx_plan' = idx_plan /\ flash' = flash
         /\ start_end' = start_end
  BY DEF Pass, SeqOutRun, SeqOutTeach, plan

(* What seqOutRun leaves alone, and what it may set.                       *)
LEMMA RunLeaves ==
  ASSUME SeqOutRun, Pass
  PROVE  /\ UNCHANGED <<detected, pc, saved, area, worked, rushed>>
         /\ ucMode = "RUN" /\ ucMode' \in {"RUN", "TEA"}
         /\ tea_step' = tea_step \/ (ucMode' = "TEA" /\ tea_step' = "RES")
         /\ ucMode' = "TEA" => tea_step' = "RES"
  BY DEF SeqOutRun, save

(* And seqOutTeach.                                                        *)
LEMMA TeachLeaves ==
  ASSUME SeqOutTeach, Pass
  PROVE  /\ ucMode = "TEA" /\ wait' = wait /\ done' = done
         /\ \/ ucMode' = "TEA" /\ run_step' = run_step
            \/ ucMode' = "RUN" /\ run_step' = "START"
         /\ ~TeachCheckSensor => pc' = pc /\ saved' = saved
  BY DEF SeqOutTeach, TeachReset, TeachCheckSensor, TeachFinish, running, save

(* What SeqSaveSenCnt leaves alone.                                        *)
LEMMA SaveLeaves ==
  ASSUME Saves
  PROVE  /\ UNCHANGED <<ucMode, run_step, wait, done, tea_step, detected, start_end, len_plan,
                        idx_plan, flash, worked, waiting, rushed, disturbed>>
         /\ pc # "idle"
         /\ saved' = saved \/ (SaveReset /\ pc' = "idle" /\ saved' = "NONE")
  BY DEF Saves, SaveHigh, SaveLow, SaveReset, running, teaching, plan, ghosts

-----------------------------------------------------------------------------
(* Small facts: what the search finds, counters and bytes.                 *)

LEMMA EarliestIsOne ==
  ASSUME NEW S, S \subseteq Ids, S # {}
  PROVE  Earliest(S) \in S
<1>. USE DEF Ids, DLY, SEN0, SEN1, SOL0
<1>1. Turn(DLY) = 1 /\ Turn(SEN0) = 2 /\ Turn(SEN1) = 3 /\ Turn(SOL0) = 4
  BY DEF Turn
<1>2. \E i \in S : \A j \in S : Turn(i) <= Turn(j)
  <2>1. CASE DLY \in S
    BY <1>1, <2>1
  <2>2. CASE DLY \notin S /\ SEN0 \in S
    BY <1>1, <2>2
  <2>3. CASE S \cap {DLY, SEN0} = {} /\ SEN1 \in S
    BY <1>1, <2>3
  <2>4. CASE S = {SOL0}
    BY <1>1, <2>4
  <2>. QED
    BY <2>1, <2>2, <2>3, <2>4
<1>. QED
  BY <1>2 DEF Earliest

LEMMA FirstLooked ==
  ASSUME NEW s, Looked(s) # {}
  PROVE  Earliest(Looked(s)) \in Ids \ {s}
<1>1. Looked(s) \subseteq Ids \ {s}
  BY DEF Looked
<1>. QED
  BY <1>1, EarliestIsOne

LEMMA UpTyped == \A c \in 0 .. MAX_CNT : Up(c) \in 0 .. MAX_CNT
  BY ConstantsAssumption DEF Up

LEMMA ResetTyped == NoCount \in [Ids -> 0 .. MAX_CNT] /\ Ended \in Cell
  BY ConstantsAssumption DEF NoCount, Ended, Cell

LEMMA Divided ==
  ASSUME NEW b \in Nat \ {0}, NEW x \in Nat
  PROVE  /\ x \div b \in Nat /\ x % b \in 0 .. b - 1
         /\ x = (x \div b) * b + (x % b)
OBVIOUS

LEMMA Divides ==
  ASSUME NEW b \in Nat \ {0}, NEW k \in Nat, NEW x \in 0 .. b - 1
  PROVE  (k * b + x) \div b = k /\ (k * b + x) % b = x
OBVIOUS

LEMMA SmallFactor ==
  ASSUME NEW a \in Nat, NEW b \in Nat, NEW c \in Nat \ {0}
  PROVE  /\ a * c < b * c => a < b
         /\ a < b => a * c + c <= b * c
OBVIOUS

(* The high byte of one counter with the low byte of another.              *)
Bytes(h, l) == (h \div BYTE) * BYTE + (l % BYTE)

LEMMA BytesTyped ==
  ASSUME NEW h \in 0 .. MAX_CNT, NEW l \in 0 .. MAX_CNT
  PROVE  /\ Bytes(h, l) \in 0 .. MAX_CNT /\ Bytes(h, h) = h
         /\ Bytes(h, l) \div BYTE = h \div BYTE
<1>. DEFINE q == h \div BYTE
            k == (MAX_CNT + 1) \div BYTE
<1>1. BYTE \in Nat \ {0} /\ MAX_CNT \in Nat /\ (MAX_CNT + 1) % BYTE = 0
  <2>1. BYTE \in Nat \ {0} /\ MAX_CNT \in Nat \ {0} /\ (MAX_CNT + 1) % BYTE = 0
    BY ConstantsAssumption
  <2>. QED
    BY <2>1
<1>0. h \in Nat /\ l \in Nat
  BY <1>1
<1>2. q \in Nat /\ h = q * BYTE + (h % BYTE) /\ h % BYTE \in 0 .. BYTE - 1
  BY <1>0, <1>1, Divided
<1>3. l % BYTE \in 0 .. BYTE - 1
  BY <1>0, <1>1, Divided
<1>4. k \in Nat /\ MAX_CNT + 1 = k * BYTE
  <2>1. MAX_CNT + 1 \in Nat
    BY <1>1
  <2>2. k \in Nat /\ MAX_CNT + 1 = k * BYTE + ((MAX_CNT + 1) % BYTE)
    BY <1>1, <2>1, Divided
  <2>. QED
    BY <1>1, <2>2
<1>. HIDE DEF q, k
<1>. DEFINE Q == q * BYTE
            K == k * BYTE
<1>5. Q \in Nat /\ K \in Nat
  BY <1>1, <1>2, <1>4
<1>6. Q + BYTE <= K
  <2>1. Q < K
    <3>. HIDE DEF Q, K
    <3>1. h = Q + (h % BYTE) /\ MAX_CNT + 1 = K
      BY <1>2, <1>4 DEF Q, K
    <3>2. h % BYTE \in Nat /\ h <= MAX_CNT
      BY <1>1, <1>2
    <3>. QED
      BY <1>0, <1>1, <1>5, <3>1, <3>2
  <2>. QED
    <3>1. q * BYTE < k * BYTE
      BY <2>1
    <3>2. q < k
      BY <1>1, <1>2, <1>4, <3>1, SmallFactor
    <3>3. q * BYTE + BYTE <= k * BYTE
      BY <1>1, <1>2, <1>4, <3>2, SmallFactor
    <3>. QED
      BY <3>3
<1>7. Bytes(h, l) = Q + (l % BYTE) /\ Bytes(h, h) = Q + (h % BYTE)
  BY DEF Bytes, q
<1>8. Bytes(h, l) \div BYTE = q
  BY <1>1, <1>2, <1>3, <1>7, Divides
<1>9. h = Q + (h % BYTE) /\ MAX_CNT + 1 = K
  BY <1>2, <1>4
<1>. HIDE DEF Q, K
<1>10. Bytes(h, l) \in 0 .. MAX_CNT
  BY <1>1, <1>3, <1>5, <1>6, <1>7, <1>9
<1>. QED
  BY <1>7, <1>8, <1>9, <1>10 DEF q

-----------------------------------------------------------------------------
(* Every variable keeps its type.                                          *)

LEMMA RunTypedStays ==
  ASSUME RunTyped, AreasTyped, AddrInArea, [Next]_vars
  PROVE  RunTyped'
<1>. USE DEF RunTyped, Modes, RunSteps
<1>1. CASE Leaves
  BY <1>1 DEF Leaves
<1>2. CASE Restarts
  BY <1>2 DEF Restarts
<1>3. CASE Pass /\ SeqOutRun
  <2>1. ucMode' \in Modes
    BY <1>3, RunLeaves
  <2>2. CASE RunSet
    <3>1. addr \in Addr /\ area[addr] \in Cell
      BY <1>3, <2>2, ConstantsAssumption
      DEF AddrInArea, SeqOutRun, RunSet, Addr, AreasTyped, AreaOK, AreaType
    <3>. QED
      BY <2>1, <2>2, <3>1 DEF RunSet
  <2>3. CASE RunStart \/ RunEnd \/ RunWait \/ RunFinish
    BY <2>1, <2>3 DEF RunStart, RunEnd, RunWait, RunFinish
  <2>. QED
    BY <1>3, <2>2, <2>3 DEF SeqOutRun
<1>4. CASE Pass /\ SeqOutTeach
  BY <1>4, TeachLeaves
<1>5. CASE Saves
  BY <1>5, SaveLeaves
<1>6. CASE Boot
  BY <1>6, ResetTyped DEF Boot
<1>. QED
  BY <1>1, <1>2, <1>3, <1>4, <1>5, <1>6, Kinds, PassKinds

LEMMA TeachTypedStays ==
  ASSUME TeachTyped, [Next]_vars
  PROVE  TeachTyped'
<1>. USE DEF TeachTyped, TeaSteps
<1>1. CASE Leaves \/ Restarts \/ Saves
  BY <1>1, SaveLeaves DEF Leaves, Restarts
<1>2. CASE Pass /\ SeqOutRun
  BY <1>2, RunLeaves
<1>3. CASE Pass /\ SeqOutTeach
  <2>1. CASE TeachReset \/ TeachFinish
    BY <2>1 DEF TeachReset, TeachFinish
  <2>2. CASE TeachCheckSensor
    BY <2>2, FirstLooked DEF TeachCheckSensor
  <2>. QED
    BY <1>3, <2>1, <2>2 DEF SeqOutTeach
<1>4. CASE Boot
  BY <1>4 DEF Boot
<1>. QED
  BY <1>1, <1>2, <1>3, <1>4, Kinds, PassKinds

LEMMA SaveTypedStays ==
  ASSUME SaveTyped, [Next]_vars
  PROVE  SaveTyped'
<1>. USE DEF SaveTyped
<1>1. CASE Leaves \/ Restarts
  BY <1>1 DEF Leaves, Restarts
<1>2. CASE Saves
  BY <1>2, SaveLeaves DEF Saves, SaveHigh, SaveLow, SaveReset
<1>3. CASE Pass /\ SeqOutRun
  BY <1>3, RunLeaves
<1>4. CASE Pass /\ SeqOutTeach
  <2>1. CASE ~TeachCheckSensor
    BY <1>4, <2>1, TeachLeaves
  <2>2. CASE TeachCheckSensor
    BY <2>2 DEF TeachCheckSensor, SaveSenCnt, save
  <2>. QED
    BY <2>1, <2>2
<1>5. CASE Boot
  BY <1>5 DEF Boot
<1>. QED
  BY <1>1, <1>2, <1>3, <1>4, <1>5, Kinds, PassKinds

LEMMA FlagsTypedStay ==
  ASSUME FlagsTyped, [Next]_vars
  PROVE  FlagsTyped'
<1>. USE DEF FlagsTyped, StartEnd
<1>1. CASE Leaves
  BY <1>1 DEF Leaves
<1>2. CASE Restarts
  BY <1>2 DEF Restarts
<1>3. CASE Pass
  BY <1>3 DEF Pass, EndOfPass
<1>4. CASE Saves
  BY <1>4, SaveLeaves DEF Saves, SaveHigh, SaveLow, SaveReset, EndOfPass, sensors
<1>5. CASE Boot
  BY <1>5 DEF Boot
<1>. QED
  BY <1>1, <1>2, <1>3, <1>4, <1>5, Kinds

LEMMA CountedStays ==
  ASSUME RunTyped, SaveTyped, Counted, [Next]_vars
  PROVE  Counted'
<1>. USE DEF Counted
<1>0. 0 \in 0 .. MAX_CNT
  BY ConstantsAssumption
<1>1. CASE Leaves \/ Restarts
  BY <1>1, UpTyped DEF Leaves, Restarts
<1>2. CASE Saves
  <2>1. CNT' = CNT \/ CNT' = [CNT EXCEPT ![saved] = 0]
    BY <1>2 DEF Saves, SaveHigh, SaveLow, SaveReset, SaveZero, sensors
  <2>. QED
    BY <1>0, <2>1
<1>3. CASE Pass /\ SeqOutRun
  <2>1. CNT' = CNT \/ CNT' = [CNT EXCEPT ![wait'.id] = 0]
    BY <1>3 DEF SeqOutRun, RunStart, RunSet, RunEnd, RunWait, RunFinish
  <2>. QED
    BY <1>0, <2>1
<1>4. CASE Pass /\ SeqOutTeach
  BY <1>4, ResetTyped DEF SeqOutTeach, TeachReset, TeachCheckSensor, TeachFinish
<1>5. CASE Boot
  BY <1>5, ResetTyped DEF Boot
<1>. QED
  BY <1>1, <1>2, <1>3, <1>4, <1>5, Kinds, PassKinds

(* The plan and the process in force.                                      *)
LEMMA PlanTypedStays ==
  ASSUME PlanTyped, FlashTyped, [Next]_vars
  PROVE  PlanTyped'
<1>. USE DEF PlanTyped, Plan, plan
<1>1. CASE DispChangeProc
  <2>1. (idx_plan + 1) % len_plan \in 0 .. len_plan - 1
    BY <1>1, ConstantsAssumption DEF DispChangeProc
  <2>. QED
    BY <1>1, <2>1, ConstantsAssumption DEF DispChangeProc
<1>2. CASE GetPlan
  BY <1>2, ConstantsAssumption DEF GetPlan
<1>3. CASE Boot
  BY <1>3, ConstantsAssumption DEF Boot, FlashTyped
<1>4. CASE len_plan' = len_plan /\ idx_plan' = idx_plan
  BY <1>4
<1>5. CASE Signal
  BY <1>4, <1>5 DEF Signal, DetFalling, SignalCtrl, IncreaseDelay, IgnoreTimeOver
<1>6. CASE Key
  BY <1>1, <1>4, <1>6 DEF Key, StartTeachMode, EndTeachMode, DispNfcTagRead,
                          DispSetupResetTeach, Pause, Resume
<1>7. CASE Callback
  BY <1>2, <1>4, <1>7 DEF Callback, SetTeaching, CommitInfo
<1>8. CASE Loop
  BY <1>4, <1>8, SaveLeaves DEF Loop, Saves, Pass
<1>9. CASE UNCHANGED vars
  BY <1>4, <1>9 DEF vars
<1>. QED
  BY <1>3, <1>5, <1>6, <1>7, <1>8, <1>9 DEF Next

(* Where the next step of a teaching is written.                           *)
LEMMA AtInArea ==
  ASSUME addr \in 0 .. MAX_STEP
  PROVE  At \in 0 .. MAX_STEP - 1 /\ (addr < MAX_STEP => At = addr)
  BY ConstantsAssumption DEF At

LEMMA AddrStays ==
  ASSUME RunTyped, AreasTyped, AddrInArea, SavesInArea, [Next]_vars
  PROVE  AddrInArea' /\ SavesInArea'
<1>. USE DEF AddrInArea, SavesInArea, RunTyped, Modes, RunSteps
<1>1. CASE Leaves \/ Restarts
  BY <1>1 DEF Leaves, Restarts
<1>2. CASE Saves
  <2>1. pc' # "idle" => saved' = saved /\ addr' = addr
    BY <1>2, SaveLeaves DEF Saves, SaveHigh, SaveLow, SaveReset
  <2>2. addr' \in {addr, addr + 1} /\ addr \in 0 .. MAX_STEP - 1
    BY <1>2, SaveLeaves, ConstantsAssumption DEF Saves, SaveHigh, SaveLow, SaveReset
  <2>. QED
    BY <1>2, <2>1, <2>2, SaveLeaves, ConstantsAssumption
<1>3. CASE Pass /\ SeqOutRun
  <2>1. pc' = "idle" /\ (ucMode' = "TEA" => tea_step' = "RES") /\ ucMode = "RUN"
    BY <1>3, RunLeaves, PassKinds
  <2>2. /\ addr' \in 0 .. MAX_STEP + 1
        /\ run_step' \in {"SET", "WAIT", "FINISH"} => addr' <= MAX_STEP
    <3>1. CASE RunStart
      BY <3>1, ConstantsAssumption DEF RunStart
    <3>2. CASE RunSet
      <4>1. addr \in 0 .. MAX_STEP /\ addr' = addr + 1
        BY <2>1, <3>2, ConstantsAssumption DEF RunSet
      <4>2. run_step' \in {"SET", "WAIT", "FINISH"} => addr # MAX_STEP
        <5>1. area[MAX_STEP].id = END /\ wait' = area[addr]
          BY <3>2 DEF RunSet, AreasTyped, AreaOK, Ended
        <5>. QED
          BY <3>2, <5>1 DEF RunSet
      <4>. QED
        BY <4>1, <4>2, ConstantsAssumption
    <3>3. CASE RunEnd \/ RunWait \/ RunFinish
      BY <2>1, <3>3 DEF RunEnd, RunWait, RunFinish
    <3>. QED
      BY <1>3, <3>1, <3>2, <3>3 DEF SeqOutRun
  <2>. QED
    BY <2>1, <2>2
<1>4. CASE Pass /\ SeqOutTeach
  <2>1. CASE TeachReset
    BY <1>4, <2>1, TeachLeaves, PassKinds, ConstantsAssumption DEF TeachReset, save
  <2>2. CASE TeachFinish
    BY <1>4, <2>2, TeachLeaves, PassKinds DEF TeachFinish, save
  <2>3. CASE TeachCheckSensor
    <3>. USE DEF Ids, DLY, SEN0, SEN1, SOL0
    <3>1. addr \in 0 .. MAX_STEP /\ ucMode' = "TEA" /\ pc = "idle"
      BY <1>4, <2>3, PassKinds, ConstantsAssumption DEF SeqOutTeach, TeachCheckSensor
    <3>2. CASE SaveSenCnt(tea_step) /\ tea_step # "DETECT" /\ tea_step' # tea_step
      <4>1. addr' \in 0 .. MAX_STEP - 1 /\ saved' = tea_step
        BY <3>1, <3>2, AtInArea DEF SaveSenCnt
      <4>2. tea_step \in Ids
        BY <2>3, <3>2 DEF TeachCheckSensor
      <4>3. tea_step' \in Ids \cup {"FINISH"}
        BY <2>3, <3>2, FirstLooked DEF TeachCheckSensor
      <4>. QED
        BY <3>1, <4>1, <4>2, <4>3, ConstantsAssumption
    <3>3. CASE addr' = addr /\ pc' = pc
      BY <3>1, <3>3, ConstantsAssumption
    <3>. QED
      BY <2>3, <3>2, <3>3 DEF TeachCheckSensor, save
  <2>. QED
    BY <1>4, <2>1, <2>2, <2>3 DEF SeqOutTeach
<1>5. CASE Boot
  BY <1>5, ConstantsAssumption DEF Boot
<1>. QED
  BY <1>1, <1>2, <1>3, <1>4, <1>5, Kinds, PassKinds

LEMMA WaitsStay ==
  ASSUME WaitsForSignal, [Next]_vars
  PROVE  WaitsForSignal'
<1>. USE DEF WaitsForSignal
<1>1. CASE Leaves \/ Restarts
  BY <1>1 DEF Leaves, Restarts
<1>2. CASE Saves
  BY <1>2, SaveLeaves
<1>3. CASE Pass /\ SeqOutRun
  BY <1>3, RunLeaves DEF SeqOutRun, RunStart, RunSet, RunEnd, RunWait, RunFinish
<1>4. CASE Pass /\ SeqOutTeach
  BY <1>4, TeachLeaves
<1>5. CASE Boot
  BY <1>5 DEF Boot
<1>. QED
  BY <1>1, <1>2, <1>3, <1>4, <1>5, Kinds, PassKinds

LEMMA DoneStays ==
  ASSUME DoneTyped, RunTyped, WaitsForSignal, [Next]_vars
  PROVE  DoneTyped'
<1>. USE DEF DoneTyped
<1>1. CASE Leaves \/ Restarts
  BY <1>1 DEF Leaves, Restarts
<1>2. CASE Saves
  BY <1>2, SaveLeaves
<1>3. CASE Pass /\ SeqOutRun
  <2>1. CASE RunWait
    <3>1. wait.id # END
      BY <1>3, <2>1 DEF SeqOutRun, RunWait, WaitsForSignal
    <3>2. wait \in Step
      BY <3>1 DEF RunTyped, Cell, Step
    <3>. QED
      BY <2>1, <3>2 DEF RunWait
  <2>2. CASE ~RunWait
    <3>1. done' = done \/ done' = <<>>
      BY <1>3, <2>2 DEF SeqOutRun, RunStart, RunSet, RunEnd, RunFinish
    <3>2. <<>> \in Seq(Step)
      BY EmptySeq
    <3>. QED
      BY <3>1, <3>2
  <2>. QED
    BY <2>1, <2>2
<1>4. CASE Pass /\ SeqOutTeach
  BY <1>4, TeachLeaves
<1>5. CASE Boot
  BY <1>5 DEF Boot
<1>. QED
  BY <1>1, <1>2, <1>3, <1>4, <1>5, Kinds, PassKinds

LEMMA FlashStays ==
  ASSUME FlashTyped, AreasTyped, PlanTyped, [Next]_vars
  PROVE  FlashTyped'
<1>. USE DEF FlashTyped
<1>1. CASE flash' = flash
  BY <1>1
<1>2. CASE Leaves
  <2>1. CASE flash' = Sector
    BY <2>1 DEF Sector, AreasTyped, PlanTyped, AreaOK, StoreOK
  <2>. QED
    BY <1>1, <1>2, <2>1 DEF Leaves
<1>. QED
  BY <1>1, <1>2, Kinds, PassKinds, SaveLeaves DEF Restarts, Boot

(* The areas: a cell written before the last one, an end flag, a sequence  *)
(* of the server, a sequence of the store.                                 *)
LEMMA EndsInArea ==
  ASSUME NEW a, AreaOK(a), NEW i \in Addr
  PROVE  AreaOK([a EXCEPT ![i].id = END])
<1>1. [a[i] EXCEPT !.id = END] \in Cell
  BY DEF AreaOK, AreaType, Cell
<1>2. [Ended EXCEPT !.id = END] = Ended
  BY DEF Ended
<1>. QED
  BY <1>1, <1>2 DEF AreaOK, AreaType

LEMMA SavedInArea ==
  ASSUME NEW a, AreaOK(a), NEW i \in 0 .. MAX_STEP - 1
  PROVE  /\ \A s \in Ids : AreaOK([a EXCEPT ![i].id = s])
         /\ \A v \in 0 .. MAX_CNT : AreaOK([a EXCEPT ![i].value = v])
<1>1. i \in Addr /\ i # MAX_STEP /\ a[i] \in Cell
  BY ConstantsAssumption DEF AreaOK, AreaType, Addr
<1>2. /\ \A s \in Ids : [a[i] EXCEPT !.id = s] \in Cell
      /\ \A v \in 0 .. MAX_CNT : [a[i] EXCEPT !.value = v] \in Cell
  BY <1>1 DEF Cell
<1>. QED
  BY <1>1, <1>2 DEF AreaOK, AreaType

LEMMA NoSequenceOK == AreaOK(NoSequence)
  BY ConstantsAssumption, ResetTyped DEF NoSequence, AreaOK, AreaType, Addr

LEMMA WrittenOK ==
  ASSUME NEW a, AreaOK(a), NEW q \in SERVER
  PROVE  AreaOK(Written(a, q))
<1>1. /\ q \in Seq(Step) /\ Len(q) \in 0 .. MAX_STEP
      /\ \A i \in 0 .. Len(q) - 1 : q[i + 1] \in Step
  BY ConstantsAssumption
<1>2. Step \subseteq Cell /\ \A c \in Cell : [c EXCEPT !.id = END] \in Cell
  BY DEF Step, Cell
<1>3. [Ended EXCEPT !.id = END] = Ended
  BY DEF Ended
<1>4. Written(a, q) \in AreaType
  BY <1>1, <1>2, ConstantsAssumption DEF Written, AreaOK, AreaType, Addr
<1>5. Written(a, q)[MAX_STEP] = Ended
  BY <1>1, <1>3, ConstantsAssumption DEF Written, AreaOK, Addr
<1>. QED
  BY <1>4, <1>5 DEF AreaOK

LEMMA ServerStoreOK ==
  ASSUME StoreOK(store), SetTeaching
  PROVE  StoreOK(store')
<1>0. PICK n \in 1 .. MAX_PLAN : \E q \in [0 .. n - 1 -> SERVER] :
        store' = [p \in Plan |-> IF p < n THEN Written(store[p], q[p]) ELSE store[p]]
  BY DEF SetTeaching
<1>1. PICK q \in [0 .. n - 1 -> SERVER] :
        store' = [p \in Plan |-> IF p < n THEN Written(store[p], q[p]) ELSE store[p]]
  BY <1>0
<1>2. \A p \in Plan : AreaOK(store'[p])
  <2>1. TAKE p \in Plan
  <2>2. AreaOK(store[p])
    BY DEF StoreOK, AreaOK
  <2>3. CASE p < n
    <3>1. q[p] \in SERVER
      BY <2>3, ConstantsAssumption DEF Plan
    <3>2. store'[p] = Written(store[p], q[p])
      BY <1>1, <2>3
    <3>. QED
      BY <2>2, <3>1, <3>2, WrittenOK
  <2>4. CASE ~(p < n)
    BY <1>1, <2>2, <2>4
  <2>. QED
    BY <2>3, <2>4
<1>. QED
  BY <1>1, <1>2 DEF StoreOK, AreaOK

(* What replaces the running area, and what replaces the store.            *)
LEMMA AreaKinds ==
  ASSUME [Next]_vars, area' # area
  PROVE  DispSetupResetTeach \/ DispChangeProc \/ SetTeaching \/ GetPlan
           \/ (Pass /\ SeqOutTeach) \/ Saves \/ Boot
<1>1. CASE Signal
  BY <1>1 DEF Signal, DetFalling, SignalCtrl, IncreaseDelay, IgnoreTimeOver
<1>2. CASE Key
  BY <1>2 DEF Key, StartTeachMode, EndTeachMode, DispNfcTagRead, Pause, Resume
<1>3. CASE Callback
  BY <1>3 DEF Callback, CommitInfo
<1>4. CASE Loop
  BY <1>4, PassKinds, RunLeaves DEF Loop, Saves
<1>. QED
  BY <1>1, <1>2, <1>3, <1>4 DEF Next, vars

LEMMA AreaStays ==
  ASSUME TeachTyped, SaveTyped, Counted, PlanTyped, AreasTyped, FlashTyped, AddrInArea,
         SavesInArea, [Next]_vars
  PROVE  AreaOK(area')
<1>0. AreaOK(area) /\ StoreOK(store) /\ \A p \in Plan : AreaOK(store[p])
  BY DEF AreasTyped, StoreOK, AreaOK
<1>1. CASE DispSetupResetTeach
  <2>1. 0 \in Addr
    BY ConstantsAssumption DEF Addr
  <2>. QED
    BY <1>0, <1>1, <2>1, EndsInArea DEF DispSetupResetTeach, RstRun
<1>2. CASE DispChangeProc
  <2>1. idx_plan' \in Plan
    BY PlanTypedStays DEF PlanTyped
  <2>. QED
    BY <1>0, <1>2, <2>1 DEF DispChangeProc, UpdateRun
<1>3. CASE SetTeaching
  BY <1>0, <1>3, ServerStoreOK DEF SetTeaching, UpdateRun, StoreOK, AreaOK, PlanTyped
<1>4. CASE GetPlan
  <2>1. area' = area \/ area' = store[0]
    BY <1>4 DEF GetPlan, UpdateRun
  <2>2. 0 \in Plan
    BY ConstantsAssumption DEF Plan
  <2>. QED
    BY <1>0, <2>1, <2>2
<1>5. CASE Pass /\ SeqOutTeach
  <2>1. CASE TeachReset
    BY <1>0, <2>1 DEF TeachReset
  <2>2. CASE TeachCheckSensor
    <3>1. CASE area' = area
      BY <1>0, <3>1
    <3>2. CASE area' # area
      <4>1. tea_step \in Ids /\ SaveSenCnt(tea_step)
        BY <2>2, <3>2 DEF TeachCheckSensor
      <4>2. At \in 0 .. MAX_STEP - 1
        BY <1>5, <4>1, AtInArea, ConstantsAssumption
        DEF SeqOutTeach, AddrInArea, Ids, DLY, SEN0, SEN1, SOL0
      <4>. QED
        BY <1>0, <4>1, <4>2, SavedInArea DEF SaveSenCnt
    <3>. QED
      BY <3>1, <3>2
  <2>3. CASE TeachFinish
    <3>1. addr \in Addr
      BY <1>5, <2>3, ConstantsAssumption DEF SeqOutTeach, TeachFinish, AddrInArea, Addr
    <3>. QED
      BY <1>0, <2>3, <3>1, EndsInArea DEF TeachFinish
  <2>. QED
    BY <1>5, <2>1, <2>2, <2>3 DEF SeqOutTeach
<1>6. CASE Saves
  <2>1. saved \in Ids /\ addr \in 0 .. MAX_STEP - 1
    BY <1>6, SaveLeaves, ConstantsAssumption DEF SavesInArea, AddrInArea
  <2>2. CNT[saved] \in 0 .. MAX_CNT /\ area[addr].value \in 0 .. MAX_CNT
    BY <1>0, <2>1, ConstantsAssumption DEF Counted, AreaOK, AreaType, Addr, Cell
  <2>3. /\ Bytes(CNT[saved], area[addr].value) \in 0 .. MAX_CNT
        /\ Bytes(area[addr].value, CNT[saved]) \in 0 .. MAX_CNT
    BY <2>2, BytesTyped
  <2>4. \/ area' = area
        \/ area' = [area EXCEPT ![addr].value = Bytes(CNT[saved], area[addr].value)]
        \/ area' = [area EXCEPT ![addr].value = Bytes(area[addr].value, CNT[saved])]
    BY <1>6 DEF Saves, SaveHigh, SaveLow, SaveReset, Bytes
  <2>. QED
    BY <1>0, <2>1, <2>3, <2>4, SavedInArea
<1>7. CASE Boot
  BY <1>7 DEF Boot, FlashTyped
<1>. QED
  BY <1>0, <1>1, <1>2, <1>3, <1>4, <1>5, <1>6, <1>7, AreaKinds

LEMMA StoreStays ==
  ASSUME PlanTyped, StoreOK(store), FlashTyped, AreaOK(area'), [Next]_vars
  PROVE  StoreOK(store')
<1>1. CASE store' = store
  BY <1>1
<1>2. CASE SetTeaching
  BY <1>2, ServerStoreOK
<1>3. CASE EndOfPass
  BY <1>1, <1>3 DEF EndOfPass, UpdateStore, StoreOK, AreaOK, PlanTyped
<1>4. CASE Boot
  BY <1>4 DEF Boot, FlashTyped
<1>5. CASE Signal
  BY <1>1, <1>5 DEF Signal, DetFalling, SignalCtrl, IncreaseDelay, IgnoreTimeOver
<1>6. CASE Key
  BY <1>1, <1>6 DEF Key, StartTeachMode, EndTeachMode, DispNfcTagRead, DispSetupResetTeach,
                    DispChangeProc, Pause, Resume
<1>7. CASE Callback
  BY <1>1, <1>2, <1>7 DEF Callback, GetPlan, CommitInfo
<1>8. CASE Loop
  BY <1>1, <1>3, <1>8 DEF Loop, Pass, SaveHigh, SaveLow, SaveReset
<1>9. CASE UNCHANGED vars
  BY <1>1, <1>9 DEF vars
<1>. QED
  BY <1>4, <1>5, <1>6, <1>7, <1>8, <1>9 DEF Next

LEMMA TypedStays == Typed /\ [Next]_vars => Typed'
<1>. SUFFICES ASSUME Typed, [Next]_vars PROVE Typed'
  OBVIOUS
<1>. USE DEF Typed
<1>1. RunTyped' /\ TeachTyped' /\ SaveTyped' /\ FlagsTyped' /\ Counted' /\ PlanTyped'
  BY RunTypedStays, TeachTypedStays, SaveTypedStays, FlagsTypedStay, CountedStays,
     PlanTypedStays
<1>2. AddrInArea' /\ SavesInArea' /\ WaitsForSignal' /\ DoneTyped' /\ FlashTyped'
  BY AddrStays, WaitsStay, DoneStays, FlashStays
<1>3. AreaOK(area')
  BY AreaStays
<1>4. StoreOK(store')
  BY <1>3, StoreStays DEF AreasTyped
<1>. QED
  BY <1>1, <1>2, <1>3, <1>4 DEF AreasTyped

-----------------------------------------------------------------------------
(* A round, and the stored sequence.                                       *)

LEMMA NothingYet == Prefix(0) = <<>> /\ NoEndBelow(0)
  BY DEF Prefix, NoEndBelow

LEMMA OneMore ==
  ASSUME NEW n \in Nat, Prefix(n) \in Seq(Step)
  PROVE  Append(Prefix(n), area[n]) = Prefix(n + 1)
<1>1. Len(Prefix(n)) = n
  BY LenProperties DEF Prefix
<1>. QED
  BY <1>1 DEF Prefix

LEMMA RoundKeptStays ==
  ASSUME RoundKept, AddrInArea, SavesInArea, DoneTyped, [Next]_vars
  PROVE  RoundKept'
<1>. USE DEF RoundKept, Prefix, NoEndBelow
<1>1. CASE Leaves \/ Restarts
  BY <1>1 DEF Leaves, Restarts
<1>2. CASE Saves
  BY <1>2, SaveLeaves DEF SavesInArea
<1>3. CASE Pass /\ SeqOutRun
  <2>0. ucMode = "RUN" /\ area' = area
    BY <1>3, RunLeaves
  <2>1. CASE RunStart
    <3>1. addr' = 0 /\ done' = <<>> /\ run_step' = "SET"
      BY <2>1 DEF RunStart
    <3>. QED
      BY <2>0, <3>1, NothingYet DEF Prefix, NoEndBelow
  <2>2. CASE RunSet
    <3>1. /\ addr' = addr + 1 /\ wait' = area[addr] /\ done' = done
          /\ run_step' = IF wait'.id = END THEN "END" ELSE "WAIT"
      BY <2>2 DEF RunSet
    <3>2. done = Prefix(addr) /\ NoEndBelow(addr) /\ addr \in Nat
      BY <2>0, <2>2, ConstantsAssumption DEF RunSet, AddrInArea
    <3>. QED
      BY <2>0, <3>1, <3>2 DEF Prefix, NoEndBelow
  <2>3. CASE RunEnd
    BY <2>0, <2>3 DEF RunEnd
  <2>4. CASE RunWait
    <3>1. /\ addr \in Nat \ {0} /\ wait = area[addr - 1]
          /\ done = Prefix(addr - 1) /\ NoEndBelow(addr)
      BY <2>0, <2>4, ConstantsAssumption DEF RunWait, AddrInArea
    <3>2. Append(done, wait) = Prefix(addr)
      BY <3>1, OneMore DEF DoneTyped
    <3>. QED
      BY <2>0, <2>4, <3>1, <3>2 DEF RunWait, Prefix, NoEndBelow
  <2>5. CASE RunFinish
    <3>1. run_step' # "SET" \/ done' = done
      BY <2>5 DEF RunFinish
    <3>. QED
      BY <2>0, <2>5, <3>1 DEF RunFinish, Prefix, NoEndBelow
  <2>. QED
    BY <1>3, <2>1, <2>2, <2>3, <2>4, <2>5 DEF SeqOutRun
<1>4. CASE Pass /\ SeqOutTeach
  BY <1>4, TeachLeaves
<1>5. CASE Boot
  BY <1>5 DEF Boot
<1>. QED
  BY <1>1, <1>2, <1>3, <1>4, <1>5, Kinds, PassKinds

LEMMA SavesAfterDetecting ==
  ASSUME DetectsBeforeSaving, TeachTyped, [Next]_vars
  PROVE  DetectsBeforeSaving'
<1>. USE DEF DetectsBeforeSaving, Ids, DLY, SEN0, SEN1, SOL0
<1>1. CASE Leaves \/ Restarts
  BY <1>1 DEF Leaves, Restarts
<1>2. CASE Saves
  BY <1>2, SaveLeaves
<1>3. CASE Pass /\ SeqOutRun
  BY <1>3, RunLeaves, PassKinds
<1>4. CASE Pass /\ SeqOutTeach
  <2>0. ucMode = "TEA" /\ pc = "idle"
    BY <1>4, PassKinds, TeachLeaves
  <2>1. CASE TeachReset \/ TeachFinish
    BY <1>4, <2>0, <2>1 DEF TeachReset, TeachFinish, save
  <2>2. CASE TeachCheckSensor
    <3>1. CASE tea_step \in Ids
      BY <2>0, <2>2, <3>1 DEF TeachCheckSensor, TeachTyped
    <3>2. CASE tea_step = "DETECT"
      BY <2>0, <2>2, <3>2 DEF TeachCheckSensor, TeachTyped, save
    <3>. QED
      BY <2>2, <3>1, <3>2 DEF TeachCheckSensor
  <2>. QED
    BY <1>4, <2>1, <2>2 DEF SeqOutTeach
<1>5. CASE Boot
  BY <1>5 DEF Boot
<1>. QED
  BY <1>1, <1>2, <1>3, <1>4, <1>5, Kinds, PassKinds

LEMMA StoredStays ==
  ASSUME Typed, Stored, DetectsBeforeSaving, CleanFlash, [Next]_vars
  PROVE  Stored'
<1>. USE DEF Stored
<1>1. CASE Leaves
  BY <1>1 DEF Leaves
<1>2. CASE Restarts
  BY <1>2 DEF Restarts
<1>3. CASE Saves
  BY <1>3, SaveLeaves DEF Typed, SavesInArea, DetectsBeforeSaving, RunTyped, Modes
<1>4. CASE Pass
  <2>1. CASE pc' # "idle"
    <3>1. ucMode' = "TEA" /\ detected'
      BY <1>4, <2>1, PassKinds, RunLeaves, TeachLeaves, SavesAfterDetecting, TypedStays
      DEF Typed, SavesInArea, DetectsBeforeSaving
    <3>. QED
      BY <3>1
  <2>2. CASE pc' = "idle" /\ ToStore
    <3>1. store'[idx_plan'] = area'
      BY <1>4, <2>2, PassKinds
      DEF Pass, EndOfPass, UpdateStore, Typed, AreasTyped, StoreOK, PlanTyped
    <3>. QED
      BY <3>1
  <2>3. CASE pc' = "idle" /\ ~ToStore
    <3>1. UNCHANGED <<store, idx_plan>> /\ ~changed /\ (torn => torn')
      BY <1>4, <2>3, PassKinds DEF Pass, EndOfPass, ToStore
    <3>2. SUFFICES ASSUME ucMode' = "RUN" \/ ~detected'
                   PROVE  area' = area /\ (ucMode = "RUN" \/ ~detected)
      BY <3>1
    <3>3. CASE SeqOutRun
      BY <1>4, <3>3, RunLeaves
    <3>4. CASE SeqOutTeach /\ TeachReset
      BY <3>2, <3>4 DEF SeqOutTeach, TeachReset
    <3>5. CASE SeqOutTeach /\ TeachCheckSensor
      <4>1. ~detected /\ tea_step = "DETECT"
        BY <3>2, <3>5 DEF SeqOutTeach, TeachCheckSensor, DetectsBeforeSaving
      <4>. QED
        BY <3>5, <4>1 DEF TeachCheckSensor
    <3>6. CASE SeqOutTeach /\ TeachFinish
      BY <1>4, <2>3, <3>6, PassKinds DEF SeqOutTeach, TeachFinish, ToStore
    <3>. QED
      BY <1>4, <3>3, <3>4, <3>5, <3>6, PassKinds
  <2>. QED
    BY <2>1, <2>2, <2>3
<1>5. CASE Boot
  BY <1>5 DEF Boot, CleanFlash
<1>. QED
  BY <1>1, <1>2, <1>3, <1>4, <1>5, Kinds

LEMMA CleanFlashStays ==
  ASSUME Stored, CleanFlash, RunTyped, [Next]_vars
  PROVE  CleanFlash'
<1>. USE DEF CleanFlash
<1>1. CASE flash' = flash
  BY <1>1
<1>2. CASE flash' = Sector
  BY <1>2 DEF Sector, Stored, RunTyped, Modes
<1>. QED
  BY <1>1, <1>2, Kinds, PassKinds, SaveLeaves DEF Leaves, Restarts, Boot

LEMMA TeachFirst == Init => TeachInv
<1>. SUFFICES ASSUME Init PROVE TeachInv
  OBVIOUS
<1>1. AreaOK(area) /\ StoreOK(store) /\ AreaOK(flash.area) /\ StoreOK(flash.store)
  BY NoSequenceOK, ConstantsAssumption DEF Init, Sector, StoreOK, AreaOK
<1>2. 0 \in Plan /\ 0 \in 0 .. MAX_PLAN
  BY ConstantsAssumption DEF Plan
<1>3. RunTyped /\ TeachTyped /\ SaveTyped /\ FlagsTyped
  BY ResetTyped DEF Init, RunTyped, TeachTyped, SaveTyped, FlagsTyped, Modes, RunSteps,
                    TeaSteps, StartEnd
<1>4. Counted /\ PlanTyped /\ DoneTyped
  BY <1>2, ResetTyped DEF Init, Counted, PlanTyped, DoneTyped
<1>5. AreasTyped /\ FlashTyped
  BY <1>1, <1>2 DEF Init, Sector, AreasTyped, FlashTyped
<1>6. AddrInArea /\ SavesInArea /\ WaitsForSignal
  BY ConstantsAssumption DEF Init, AddrInArea, SavesInArea, WaitsForSignal
<1>7. RoundKept
  BY DEF Init, RoundKept
<1>8. Sync
  BY <1>2 DEF Init, Sector, Sync, Stored, DetectsBeforeSaving, CleanFlash
<1>. QED
  BY <1>3, <1>4, <1>5, <1>6, <1>7, <1>8 DEF TeachInv, Typed

LEMMA WholeWhenCounting == TeachInv => WholeRounds
<1>. SUFFICES ASSUME TeachInv, ucMode = "RUN", Counting PROVE done = Steps(area)
  BY DEF WholeRounds
<1>1. addr \in Addr /\ area[addr].id = END /\ NoEndBelow(addr) /\ done = Prefix(addr)
  BY ConstantsAssumption DEF TeachInv, Typed, AddrInArea, RoundKept, Counting, Addr
<1>2. \A i \in Addr : area[i].id = END /\ (\A j \in 0 .. i - 1 : area[j].id # END) => i = addr
  BY <1>1, ConstantsAssumption DEF Addr, NoEndBelow
<1>3. End(area) = addr
  BY <1>1, <1>2 DEF End, NoEndBelow
<1>. QED
  BY <1>1, <1>3 DEF Steps, Prefix

-----------------------------------------------------------------------------
THEOREM TeachInvariant == Spec => []TeachInv
<1>1. TeachInv /\ [Next]_vars => TeachInv'
  <2>. SUFFICES ASSUME TeachInv, [Next]_vars PROVE TeachInv'
    OBVIOUS
  <2>. USE DEF TeachInv, Sync
  <2>1. Typed'
    BY TypedStays
  <2>2. RoundKept' /\ DetectsBeforeSaving' /\ CleanFlash'
    BY RoundKeptStays, SavesAfterDetecting, CleanFlashStays DEF Typed
  <2>3. Stored'
    BY StoredStays
  <2>. QED
    BY <2>1, <2>2, <2>3
<1>. QED
  BY <1>1, TeachFirst, PTL DEF Spec

(* Every variable keeps its type, whatever the size of an area: no step is *)
(* read or written past its last cell, which only ever holds the end flag. *)
THEOREM TeachTypes == Spec => []TypeOK
<1>1. TeachInv => TypeOK
  BY DEF TeachInv, Typed, RunTyped, TeachTyped, SaveTyped, FlagsTyped, Counted, PlanTyped,
         AreasTyped, FlashTyped, DoneTyped, AddrInArea, AreaOK, StoreOK, TypeOK
<1>. QED
  BY <1>1, TeachInvariant, PTL

(* seqOutRun: a piece stands for one whole round of one sequence, through  *)
(* teachings, resets, plans, sequences of the server and power failures.   *)
THEOREM CountsWholeRounds == Spec => []WholeRounds
  BY WholeWhenCounting, TeachInvariant, PTL

(* update_storeTeachingSequence, bTeaSeqChanged: what is followed is what  *)
(* is stored, but for a boot from a sector committed in between.           *)
THEOREM AlwaysInSync == Spec => []InSync
<1>1. TeachInv => InSync
  BY DEF TeachInv, Sync, Stored, InSync
<1>. QED
  BY <1>1, TeachInvariant, PTL
-----------------------------------------------------------------------------
(* What is taught is what the worker did.                                  *)

(* The first n steps the worker did are written, as many as fit; one that  *)
(* does not fit is written over the last.                                  *)
SavedTo(n) ==
  /\ addr = IF n <= MAX_STEP THEN n ELSE MAX_STEP
  /\ \A i \in 1 .. addr : area[i - 1] = worked[IF i = MAX_STEP THEN n ELSE i]

(* The n-th is being written: its id, the high byte of its count, the low. *)
Saving(n) ==
  /\ n > 0 /\ worked[n] = [id |-> saved, value |-> CNT[saved]]
  /\ addr = IF n <= MAX_STEP THEN n - 1 ELSE MAX_STEP - 1
  /\ \A i \in 1 .. addr : area[i - 1] = worked[i]
  /\ area[addr].id = saved
  /\ pc = "low" => area[addr].value \div BYTE = CNT[saved] \div BYTE
  /\ pc = "reset" => area[addr].value = CNT[saved]

Writing(n) == IF pc = "idle" THEN SavedTo(n) ELSE Saving(n)

(* The n-th is being counted.                                              *)
AtStep(n) == worked[n] = [id |-> tea_step, value |-> CNT[tea_step]]

(* Of the work, k steps are before the loop; the next has its first        *)
(* signals.                                                                *)
Ahead(k) ==
  \/ waiting = {} /\ Len(worked) = k
  \/ \E j \in Ids : /\ waiting = {j} /\ Len(worked) = k + 1 /\ CNT[j] > 0
                    /\ worked[k + 1] = [id |-> j, value |-> CNT[j]]

(* No other sensor has a count.                                            *)
Quiet == \A i \in Ids : CNT[i] > 0 => i = tea_step \/ i \in waiting \/ (pc # "idle" /\ i = saved)
Apart == tea_step \notin waiting /\ (pc # "idle" => saved # tea_step /\ saved \notin waiting)

(* The loop is abreast of the worker after n whole steps.                  *)
Abreast(n) ==
  /\ Quiet /\ Apart
  /\ IF tea_step = "DETECT" THEN n = 0 /\ Ahead(0) ELSE AtStep(n + 1) /\ Ahead(n + 1)

Following == start_end # "END" => \E n \in 0 .. Len(worked) : Abreast(n) /\ Writing(n)

Ending ==
  start_end = "END" =>
    /\ pc = "idle"
    /\ IF tea_step = "DETECT" THEN worked = <<>> /\ SavedTo(0)
       ELSE worked # <<>> /\ AtStep(Len(worked)) /\ SavedTo(Len(worked) - 1)

Finishing ==
  start_end = "END" /\ (worked # <<>> => Writing(Len(worked)) /\ detected)

WorkTyped == worked \in Seq(Step) /\ waiting \subseteq Ids
IdleWork  == ucMode = "RUN" => worked = <<>>

Followed ==
  ucMode = "TEA" /\ ~disturbed /\ ~rushed =>
    /\ tea_step = "RES" => worked = <<>>
    /\ tea_step \in Ids \cup {"DETECT"} => Following /\ Ending
    /\ tea_step = "FINISH" => Finishing

TaughtInv == WorkTyped /\ IdleWork /\ Followed

-----------------------------------------------------------------------------
(* The kinds of step, by what they do to these variables.                  *)
Held == UNCHANGED <<ucMode, tea_step, detected, pc, saved, addr>>

Signalled(i) ==
  /\ Work(i) /\ Rushes(Rush(i)) /\ CNT' = [CNT EXCEPT ![i] = Up(@)]
  /\ waiting' = IF ucMode = "TEA" THEN waiting \cup ({i} \ {tea_step}) ELSE waiting
  /\ Held /\ UNCHANGED <<start_end, area, disturbed>>

Pressed ==
  /\ pc = "idle"
  /\ \/ start_end' = "START" /\ Rushes(start_end = "END")
     \/ start_end' = "END" /\ Rushes(waiting # {})
  /\ Held /\ UNCHANGED <<CNT, worked, waiting, area, disturbed>>

Replaced ==
  /\ ucMode = "TEA" => disturbed'
  /\ Held /\ UNCHANGED <<CNT, worked, waiting, rushed, start_end>>

Unseen == Held /\ UNCHANGED <<CNT, worked, waiting, rushed, start_end, area, disturbed>>

LEMMA StepKinds ==
  ASSUME [Next]_vars
  PROVE  \/ (\E i \in Ids : Signalled(i)) \/ Pressed \/ Replaced \/ Unseen
         \/ Pass \/ Saves \/ Boot
<1>. USE DEF Held, running, teaching, save, plan, sensors, ghosts
<1>1. WORK \subseteq Ids /\ SEN0 \in Ids /\ SEN1 \in Ids /\ DLY \in Ids
  BY ConstantsAssumption DEF Ids
<1>2. CASE DetFalling
  <2>1. Signalled(SEN0)
    BY <1>2 DEF DetFalling, CountUp, Signalled
  <2>. QED
    BY <1>1, <2>1
<1>3. CASE SignalCtrl
  <2>1. Signalled(SEN1)
    BY <1>3 DEF SignalCtrl, CountUp, Signalled
  <2>. QED
    BY <1>1, <2>1
<1>4. CASE IncreaseDelay
  <2>1. Signalled(DLY)
    BY <1>4 DEF IncreaseDelay, CountUp, Signalled
  <2>. QED
    BY <1>1, <2>1
<1>5. CASE pc = "idle" /\ StartTeachMode
  BY <1>5 DEF StartTeachMode, Pressed
<1>6. CASE pc = "idle" /\ EndTeachMode
  BY <1>6 DEF EndTeachMode, Pressed
<1>7. CASE DispSetupResetTeach
  BY <1>7 DEF DispSetupResetTeach, Disturb, Replaced
<1>8. CASE DispChangeProc
  BY <1>8 DEF DispChangeProc, Disturb, Replaced
<1>9. CASE SetTeaching
  BY <1>9 DEF SetTeaching, Disturb, Replaced
<1>10. CASE GetPlan
  BY <1>10 DEF GetPlan, Disturb, Replaced, Unseen
<1>11. CASE IgnoreTimeOver \/ DispNfcTagRead \/ Pause \/ Resume \/ CommitInfo
  BY <1>11 DEF IgnoreTimeOver, DispNfcTagRead, Pause, Resume, CommitInfo, Unseen
<1>12. CASE UNCHANGED vars
  BY <1>12 DEF vars, Unseen
<1>. QED
  BY <1>2, <1>3, <1>4, <1>5, <1>6, <1>7, <1>8, <1>9, <1>10, <1>11, <1>12
  DEF Next, Signal, Key, Callback, Loop, Saves

(* What a signal adds to the work: nothing, one more of the last step, or  *)
(* a step.                                                                 *)
Watched == ucMode = "TEA" /\ tea_step # "RES" /\ start_end # "END"
OneMoreOf(i) ==
  /\ worked # <<>> /\ worked[Len(worked)].id = i /\ Len(worked') = Len(worked)
  /\ \A n \in 1 .. Len(worked) - 1 : worked'[n] = worked[n]
  /\ worked'[Len(worked)] = [id |-> i, value |-> Up(worked[Len(worked)].value)]
FirstOf(i) ==
  /\ worked # <<>> => worked[Len(worked)].id # i
  /\ Len(worked') = Len(worked) + 1
  /\ \A n \in 1 .. Len(worked) : worked'[n] = worked[n]
  /\ worked'[Len(worked) + 1] = [id |-> i, value |-> 1]

LEMMA WorkAdded ==
  ASSUME WorkTyped, NEW i \in Ids, Work(i)
  PROVE  /\ worked' \in Seq(Step)
         /\ ~Watched => worked' = worked
         /\ Watched => OneMoreOf(i) \/ FirstOf(i)
<1>. DEFINE n == Len(worked)
<1>1. worked \in Seq(Step) /\ n \in Nat
  BY DEF WorkTyped
<1>2. CASE ~Watched
  BY <1>1, <1>2 DEF Work, Watched
<1>3. CASE Watched /\ worked # <<>> /\ worked[n].id = i
  <2>1. worked' = [worked EXCEPT ![n].value = Up(@)]
    BY <1>3 DEF Work, Watched, Last
  <2>2. n \in 1 .. n /\ worked[n] \in Step
    BY <1>1, <1>3
  <2>3. [worked[n] EXCEPT !.value = Up(@)] = [id |-> i, value |-> Up(worked[n].value)]
    BY <1>3, <2>2 DEF Step
  <2>4. [id |-> i, value |-> Up(worked[n].value)] \in Step
    BY <2>2, UpTyped DEF Step
  <2>. QED
    BY <1>1, <1>3, <2>1, <2>2, <2>3, <2>4 DEF OneMoreOf
<1>4. CASE Watched /\ (worked # <<>> => worked[n].id # i)
  <2>1. worked' = Append(worked, [id |-> i, value |-> 1])
    BY <1>4 DEF Work, Watched, Last
  <2>2. [id |-> i, value |-> 1] \in Step
    BY ConstantsAssumption DEF Step
  <2>. QED
    BY <1>1, <1>4, <2>1, <2>2, AppendProperties DEF FirstOf
<1>. QED
  BY <1>2, <1>3, <1>4

(* The first signal counts one: MAX_CNT is positive.                       *)
LEMMA UpFromNone == Up(0) = 1
  BY ConstantsAssumption DEF Up

(* What is written stays, whatever is added to the work behind it.         *)
LEMMA WritingStays ==
  ASSUME NEW n \in Nat, Writing(n), addr' = addr, area' = area, pc' = pc, saved' = saved,
         \A m \in 1 .. n : worked'[m] = worked[m], pc # "idle" => CNT'[saved] = CNT[saved]
  PROVE  Writing(n)'
<1>1. CASE pc = "idle"
  <2>1. SavedTo(n)
    BY <1>1 DEF Writing
  <2>2. \A i \in 1 .. addr : (IF i = MAX_STEP THEN n ELSE i) \in 1 .. n
    BY <2>1, ConstantsAssumption DEF SavedTo
  <2>3. SavedTo(n)'
    BY <2>1, <2>2 DEF SavedTo
  <2>. QED
    BY <1>1, <2>3 DEF Writing
<1>2. CASE pc # "idle"
  <2>1. Saving(n)
    BY <1>2 DEF Writing
  <2>2. n \in 1 .. n /\ 1 .. addr \subseteq 1 .. n
    BY <2>1, ConstantsAssumption DEF Saving
  <2>3. Saving(n)'
    BY <1>2, <2>1, <2>2 DEF Saving
  <2>. QED
    BY <1>2, <2>3 DEF Writing
<1>. QED
  BY <1>1, <1>2

(* SeqSaveSenCnt begins with the step that was being counted.              *)
LEMMA SaveBegins ==
  ASSUME NEW n \in Nat \ {0}, tea_step \in Ids, AtStep(n), SavedTo(n - 1),
         SaveSenCnt(tea_step), AreasTyped, worked' = worked, CNT' = CNT
  PROVE  Writing(n)' /\ pc' = "high" /\ saved' = tea_step
<1>1. /\ worked[n] = [id |-> tea_step, value |-> CNT[tea_step]]
      /\ addr = IF n - 1 <= MAX_STEP THEN n - 1 ELSE MAX_STEP
      /\ \A i \in 1 .. addr : area[i - 1] = worked[IF i = MAX_STEP THEN n - 1 ELSE i]
  BY DEF AtStep, SavedTo
<1>2. /\ addr' = IF n <= MAX_STEP THEN n - 1 ELSE MAX_STEP - 1
      /\ addr' \in Addr /\ addr' <= addr /\ addr' < MAX_STEP
      /\ pc' = "high" /\ saved' = tea_step /\ area' = [area EXCEPT ![addr'].id = tea_step]
  BY <1>1, ConstantsAssumption DEF At, SaveSenCnt, Addr
<1>3. area \in [Addr -> Cell]
  BY DEF AreasTyped, AreaOK, AreaType
<1>4. area'[addr'].id = tea_step /\ \A k \in Addr \ {addr'} : area'[k] = area[k]
  BY <1>2, <1>3 DEF Cell
<1>5. ASSUME NEW i \in 1 .. addr' PROVE area'[i - 1] = worked[i]
  <2>1. i \in 1 .. addr /\ i # MAX_STEP /\ i - 1 \in Addr \ {addr'}
    BY <1>1, <1>2, ConstantsAssumption DEF Addr
  <2>. QED
    BY <1>1, <1>4, <2>1
<1>6. Saving(n)'
  BY <1>1, <1>2, <1>4, <1>5 DEF Saving
<1>. QED
  BY <1>2, <1>6 DEF Writing

(* And it ends with the count as it was when its bytes were read.          *)
LEMMA WritingSaves ==
  ASSUME NEW n \in Nat, Writing(n), Saves, Counted, AreasTyped, SavesInArea, AddrInArea
  PROVE  Writing(n)'
<1>1. pc # "idle" /\ worked' = worked /\ saved \in Ids /\ addr \in Addr
  BY SaveLeaves, ConstantsAssumption DEF SavesInArea, AddrInArea, Addr
<1>2. /\ n > 0 /\ worked[n] = [id |-> saved, value |-> CNT[saved]]
      /\ addr = IF n <= MAX_STEP THEN n - 1 ELSE MAX_STEP - 1
      /\ \A i \in 1 .. addr : area[i - 1] = worked[i]
      /\ area[addr].id = saved
      /\ pc = "low" => area[addr].value \div BYTE = CNT[saved] \div BYTE
      /\ pc = "reset" => area[addr].value = CNT[saved]
  BY <1>1 DEF Writing, Saving
<1>3. area \in [Addr -> Cell] /\ area[addr] \in Cell /\ CNT[saved] \in 0 .. MAX_CNT
  BY <1>1 DEF AreasTyped, AreaOK, AreaType, Counted
<1>4. area[addr].value \in 0 .. MAX_CNT
  BY <1>3 DEF Cell
<1>5. ASSUME NEW v, area' = [area EXCEPT ![addr].value = v], addr' = addr, saved' = saved,
             CNT' = CNT, pc' \in {"low", "reset"},
             pc' = "low" => v \div BYTE = CNT[saved] \div BYTE,
             pc' = "reset" => v = CNT[saved]
      PROVE  Writing(n)'
  <2>1. area'[addr].id = saved /\ area'[addr].value = v
    BY <1>1, <1>2, <1>3, <1>5 DEF Cell
  <2>2. \A i \in 1 .. addr : area'[i - 1] = area[i - 1]
    BY <1>1, <1>3, <1>5, ConstantsAssumption DEF Addr
  <2>3. \A i \in 1 .. addr' : area'[i - 1] = worked'[i]
    BY <1>1, <1>2, <1>5, <2>2
  <2>4. Saving(n)'
    BY <1>1, <1>2, <1>5, <2>1, <2>3 DEF Saving
  <2>. QED
    BY <1>5, <2>4 DEF Writing
<1>6. CASE SaveHigh
  <2>1. /\ area' = [area EXCEPT ![addr].value = Bytes(CNT[saved], area[addr].value)]
        /\ addr' = addr /\ saved' = saved /\ CNT' = CNT /\ pc' = "low"
    BY <1>6 DEF SaveHigh, sensors, Bytes
  <2>2. Bytes(CNT[saved], area[addr].value) \div BYTE = CNT[saved] \div BYTE
    BY <1>3, <1>4, BytesTyped
  <2>. QED
    BY <1>5, <2>1, <2>2
<1>7. CASE SaveLow
  <2>1. /\ area' = [area EXCEPT ![addr].value = Bytes(area[addr].value, CNT[saved])]
        /\ addr' = addr /\ saved' = saved /\ CNT' = CNT /\ pc' = "reset" /\ pc = "low"
    BY <1>7 DEF SaveLow, sensors, Bytes
  <2>2. Bytes(area[addr].value, CNT[saved]) = Bytes(CNT[saved], CNT[saved])
    BY <1>2, <2>1 DEF Bytes
  <2>3. Bytes(CNT[saved], CNT[saved]) = CNT[saved]
    BY <1>3, BytesTyped
  <2>. QED
    BY <1>5, <2>1, <2>2, <2>3
<1>8. CASE SaveReset
  <2>1. pc = "reset" /\ pc' = "idle" /\ addr' = addr + 1 /\ area' = area
    BY <1>8 DEF SaveReset
  <2>2. area[addr] = worked[n]
    BY <1>2, <1>3, <2>1 DEF Cell
  <2>3. addr' = IF n <= MAX_STEP THEN n ELSE MAX_STEP
    BY <1>2, <2>1, ConstantsAssumption
  <2>4. ASSUME NEW i \in 1 .. addr'
        PROVE  area'[i - 1] = worked'[IF i = MAX_STEP THEN n ELSE i]
    <3>1. CASE i = addr + 1
      BY <1>1, <1>2, <2>1, <2>2, <3>1, ConstantsAssumption DEF Addr
    <3>2. CASE i # addr + 1
      <4>1. i \in 1 .. addr /\ i # MAX_STEP
        BY <1>1, <1>2, <2>1, <3>2, ConstantsAssumption DEF Addr
      <4>. QED
        BY <1>1, <1>2, <2>1, <4>1
    <3>. QED
      BY <3>1, <3>2
  <2>5. SavedTo(n)'
    BY <2>3, <2>4 DEF SavedTo
  <2>. QED
    BY <2>1, <2>5 DEF Writing
<1>. QED
  BY <1>6, <1>7, <1>8 DEF Saves

(* A signal, while the loop is abreast of the worker: more of the step     *)
(* that is counted, or of the one that waits, or the first of the next.    *)
LEMMA SignalAbreast ==
  ASSUME Counted, WorkTyped, Watched, tea_step \in Ids \cup {"DETECT"}, NEW i \in Ids,
         Signalled(i), ~Rush(i), NEW n \in 0 .. Len(worked), Abreast(n)
  PROVE  /\ n \in 0 .. Len(worked') /\ Abreast(n)'
         /\ \A m \in 1 .. n : worked'[m] = worked[m]
<1>. DEFINE k == IF tea_step = "DETECT" THEN 0 ELSE n + 1
<1>0. k \in Nat /\ n \in Nat /\ worked \in Seq(Step) /\ "DETECT" \notin Ids
  BY DEF WorkTyped, Ids, DLY, SEN0, SEN1, SOL0
<1>1. /\ tea_step' = tea_step /\ pc' = pc /\ saved' = saved
      /\ waiting' = waiting \cup ({i} \ {tea_step})
  BY DEF Signalled, Held, Watched
<1>2. waiting \subseteq {i} /\ (pc # "idle" => i # saved)
  BY DEF Rush, Watched
<1>3. OneMoreOf(i) \/ FirstOf(i)
  BY WorkAdded DEF Signalled
<1>4. /\ CNT'[i] = Up(CNT[i]) /\ \A j \in Ids \ {i} : CNT'[j] = CNT[j]
      /\ CNT \in [Ids -> 0 .. MAX_CNT]
  BY DEF Signalled, Counted
<1>5. /\ Quiet /\ Apart /\ Ahead(k)
      /\ tea_step = "DETECT" => n = 0
      /\ tea_step # "DETECT" => AtStep(n + 1)
  BY DEF Abreast
<1>6. ASSUME Quiet', Apart', Ahead(k)', tea_step # "DETECT" => AtStep(n + 1)'
      PROVE  Abreast(n)'
  BY <1>1, <1>5, <1>6 DEF Abreast
<1>7. Quiet' /\ Apart'
  BY <1>1, <1>2, <1>4, <1>5 DEF Quiet, Apart
<1>8. CASE i = tea_step
  <2>1. tea_step # "DETECT" /\ waiting = {} /\ waiting' = {} /\ k = n + 1
    BY <1>0, <1>1, <1>2, <1>5, <1>8 DEF Apart
  <2>2. Len(worked) = n + 1 /\ worked[n + 1] = [id |-> tea_step, value |-> CNT[tea_step]]
    BY <1>5, <2>1 DEF Ahead, AtStep
  <2>3. OneMoreOf(i) /\ ~FirstOf(i)
    BY <1>0, <1>3, <1>8, <2>2 DEF FirstOf
  <2>4. /\ Len(worked') = n + 1 /\ \A m \in 1 .. n : worked'[m] = worked[m]
        /\ worked'[n + 1] = [id |-> tea_step, value |-> CNT'[tea_step]]
    BY <1>0, <1>4, <1>8, <2>2, <2>3 DEF OneMoreOf
  <2>5. AtStep(n + 1)' /\ Ahead(k)'
    BY <1>1, <2>1, <2>4 DEF AtStep, Ahead
  <2>. QED
    BY <1>6, <1>7, <2>4, <2>5
<1>9. CASE i # tea_step /\ waiting = {}
  <2>1. waiting' = {i} /\ Len(worked) = k
    BY <1>1, <1>5, <1>9 DEF Ahead
  <2>2. CNT[i] = 0
    BY <1>2, <1>4, <1>5, <1>9 DEF Quiet
  <2>3. worked # <<>> => worked[Len(worked)].id # i
    BY <1>0, <1>5, <1>9, <2>1 DEF AtStep
  <2>4. FirstOf(i)
    BY <1>3, <2>3 DEF OneMoreOf
  <2>5. /\ Len(worked') = k + 1 /\ \A m \in 1 .. k : worked'[m] = worked[m]
        /\ worked'[k + 1] = [id |-> i, value |-> 1] /\ CNT'[i] = 1
    BY <1>4, <2>1, <2>2, <2>4, UpFromNone DEF FirstOf
  <2>6. Ahead(k)'
    BY <1>1, <2>1, <2>5 DEF Ahead
  <2>7. ASSUME tea_step # "DETECT" PROVE AtStep(n + 1)'
    <3>1. k = n + 1 /\ tea_step \in Ids \ {i} /\ worked'[n + 1] = worked[n + 1]
      BY <1>0, <1>9, <2>5, <2>7
    <3>. QED
      BY <1>1, <1>4, <1>5, <2>7, <3>1 DEF AtStep
  <2>8. n \in 0 .. Len(worked') /\ \A m \in 1 .. n : worked'[m] = worked[m]
    BY <1>0, <1>5, <2>5
  <2>. QED
    BY <1>6, <1>7, <2>6, <2>7, <2>8
<1>10. CASE i # tea_step /\ waiting # {}
  <2>1. waiting = {i} /\ waiting' = {i}
    BY <1>1, <1>2, <1>10
  <2>2. /\ Len(worked) = k + 1 /\ CNT[i] > 0
        /\ worked[k + 1] = [id |-> i, value |-> CNT[i]]
    BY <1>5, <2>1 DEF Ahead
  <2>3. OneMoreOf(i)
    BY <1>0, <1>3, <2>2 DEF FirstOf
  <2>4. /\ Len(worked') = k + 1 /\ \A m \in 1 .. k : worked'[m] = worked[m]
        /\ worked'[k + 1] = [id |-> i, value |-> CNT'[i]]
    BY <1>0, <1>4, <2>2, <2>3 DEF OneMoreOf
  <2>5. CNT'[i] > 0
    BY <1>4, <2>2 DEF Up
  <2>6. Ahead(k)'
    BY <1>1, <2>1, <2>4, <2>5 DEF Ahead
  <2>7. ASSUME tea_step # "DETECT" PROVE AtStep(n + 1)'
    <3>1. k = n + 1 /\ tea_step \in Ids \ {i} /\ worked'[n + 1] = worked[n + 1]
      BY <1>0, <1>10, <2>4, <2>7
    <3>. QED
      BY <1>1, <1>4, <1>5, <2>7, <3>1 DEF AtStep
  <2>8. n \in 0 .. Len(worked') /\ \A m \in 1 .. n : worked'[m] = worked[m]
    BY <1>0, <1>5, <2>4
  <2>. QED
    BY <1>6, <1>7, <2>6, <2>7, <2>8
<1>. QED
  BY <1>8, <1>9, <1>10

(* What Followed asks of the next state.                                   *)
FollowedParts ==
  /\ tea_step = "RES" => worked = <<>>
  /\ tea_step \in Ids \cup {"DETECT"} => Following /\ Ending
  /\ tea_step = "FINISH" => Finishing

LEMMA SignalFollowed ==
  ASSUME Counted, WorkTyped, TeachTyped, SavesInArea, Followed, NEW i \in Ids, Signalled(i)
  PROVE  Followed'
<1>. SUFFICES ASSUME ucMode = "TEA", ~disturbed, ~rushed, ~Rush(i) PROVE FollowedParts'
  BY DEF Followed, FollowedParts, Signalled, Held, Rushes
<1>1. /\ tea_step' = tea_step /\ pc' = pc /\ saved' = saved /\ addr' = addr
      /\ area' = area /\ start_end' = start_end /\ detected' = detected
      /\ \A j \in Ids \ {i} : CNT'[j] = CNT[j]
  BY DEF Signalled, Held, Counted
<1>2. /\ ~Watched => worked' = worked
      /\ pc # "idle" => saved \in Ids \ {i}
      /\ worked \in Seq(Step) /\ Len(worked) \in Nat
      /\ {"RES", "DETECT", "FINISH"} \cap Ids = {}
  BY WorkAdded DEF Signalled, Rush, SavesInArea, WorkTyped, Ids, DLY, SEN0, SEN1, SOL0
<1>3. FollowedParts
  BY DEF Followed, FollowedParts
<1>4. CASE tea_step = "RES"
  BY <1>1, <1>2, <1>3, <1>4 DEF FollowedParts, Watched
<1>5. CASE tea_step \in Ids \cup {"DETECT"} /\ start_end # "END"
  <2>1. PICK n \in 0 .. Len(worked) : Abreast(n) /\ Writing(n)
    BY <1>3, <1>5 DEF FollowedParts, Following
  <2>2. Watched
    BY <1>2, <1>5 DEF Watched
  <2>3. /\ n \in 0 .. Len(worked') /\ Abreast(n)'
        /\ \A m \in 1 .. n : worked'[m] = worked[m]
    BY <1>5, <2>1, <2>2, SignalAbreast
  <2>4. Writing(n)'
    BY <1>1, <1>2, <2>1, <2>3, WritingStays
  <2>5. Following'
    BY <2>3, <2>4 DEF Following
  <2>6. Ending'
    BY <1>1, <1>5 DEF Ending
  <2>. QED
    BY <1>1, <1>2, <1>5, <2>5, <2>6 DEF FollowedParts
<1>6. CASE tea_step \in Ids \cup {"DETECT"} /\ start_end = "END"
  <2>1. /\ pc = "idle" /\ worked' = worked /\ i # tea_step
        /\ IF tea_step = "DETECT" THEN worked = <<>> /\ SavedTo(0)
           ELSE worked # <<>> /\ AtStep(Len(worked)) /\ SavedTo(Len(worked) - 1)
    BY <1>2, <1>3, <1>6 DEF FollowedParts, Ending, Watched, Rush
  <2>2. CASE tea_step = "DETECT"
    BY <1>1, <1>2, <1>6, <2>1, <2>2 DEF FollowedParts, Following, Ending, SavedTo
  <2>3. CASE tea_step # "DETECT"
    <3>1. CNT'[tea_step] = CNT[tea_step]
      BY <1>1, <1>6, <2>1, <2>3
    <3>2. AtStep(Len(worked))' /\ SavedTo(Len(worked) - 1)'
      BY <1>1, <2>1, <2>3, <3>1 DEF AtStep, SavedTo
    <3>. QED
      BY <1>1, <1>2, <1>6, <2>1, <2>3, <3>2 DEF FollowedParts, Following, Ending
  <2>. QED
    BY <2>2, <2>3
<1>7. CASE tea_step = "FINISH"
  <2>1. start_end = "END" /\ worked' = worked /\ (worked # <<>> => Writing(Len(worked)) /\ detected)
    BY <1>2, <1>3, <1>7 DEF FollowedParts, Finishing, Watched
  <2>2. ASSUME worked # <<>> PROVE Writing(Len(worked))'
    <3>1. PICK n \in Nat : n = Len(worked)
      BY <1>2
    <3>2. Writing(n)'
      BY <1>1, <1>2, <2>1, <2>2, <3>1, WritingStays
    <3>. QED
      BY <2>1, <3>1, <3>2
  <2>. QED
    BY <1>1, <1>2, <1>7, <2>1, <2>2 DEF FollowedParts, Finishing
<1>. QED
  BY <1>4, <1>5, <1>6, <1>7 DEF TeachTyped, TeaSteps

(* A key starts or ends the teaching; the pass after it sees that.         *)
LEMMA KeyFollowed ==
  ASSUME WorkTyped, TeachTyped, Followed, Pressed
  PROVE  Followed'
<1>. SUFFICES ASSUME ucMode = "TEA", ~disturbed, ~rushed, ~rushed' PROVE FollowedParts'
  BY DEF Followed, FollowedParts, Pressed, Held, Rushes
<1>1. /\ pc = "idle" /\ pc' = pc /\ saved' = saved /\ tea_step' = tea_step /\ addr' = addr
      /\ area' = area /\ CNT' = CNT /\ worked' = worked /\ waiting' = waiting
      /\ detected' = detected /\ ucMode' = ucMode
  BY DEF Pressed, Held
<1>2. \/ start_end' = "START" /\ start_end # "END"
      \/ start_end' = "END" /\ waiting = {}
  BY DEF Pressed, Rushes
<1>3. FollowedParts /\ {"RES", "DETECT", "FINISH"} \cap Ids = {}
  BY DEF Followed, FollowedParts, Ids, DLY, SEN0, SEN1, SOL0
<1>4. CASE tea_step = "RES"
  BY <1>1, <1>3, <1>4 DEF FollowedParts
<1>5. CASE tea_step \in Ids \cup {"DETECT"} /\ start_end # "END"
  <2>1. PICK n \in 0 .. Len(worked) : Abreast(n) /\ SavedTo(n)
    BY <1>1, <1>3, <1>5 DEF FollowedParts, Following, Writing
  <2>2. CASE start_end' # "END"
    <3>1. Abreast(n)'
      BY <1>1, <2>1 DEF Abreast, Quiet, Apart, Ahead, AtStep
    <3>2. Writing(n)'
      BY <1>1, <2>1 DEF Writing, SavedTo
    <3>3. Following' /\ Ending'
      BY <1>1, <2>1, <2>2, <3>1, <3>2 DEF Following, Ending
    <3>. QED
      BY <1>1, <1>3, <1>5, <3>3 DEF FollowedParts
  <2>3. CASE start_end' = "END"
    <3>1. waiting = {} /\ worked \in Seq(Step) /\ n \in Nat
      BY <1>2, <2>3 DEF WorkTyped
    <3>2. IF tea_step = "DETECT" THEN worked = <<>> /\ SavedTo(0)
          ELSE Len(worked) = n + 1 /\ AtStep(n + 1) /\ SavedTo(n)
      <4>1. Ahead(0) => Len(worked) = 0
        BY <3>1 DEF Ahead
      <4>2. Ahead(n + 1) => Len(worked) = n + 1
        BY <3>1 DEF Ahead
      <4>. QED
        BY <2>1, <3>1, <4>1, <4>2 DEF Abreast
    <3>3. IF tea_step = "DETECT" THEN worked = <<>> /\ SavedTo(0)
          ELSE worked # <<>> /\ AtStep(Len(worked)) /\ SavedTo(Len(worked) - 1)
      BY <3>1, <3>2
    <3>4. Ending'
      BY <1>1, <3>3 DEF Ending, AtStep, SavedTo
    <3>. QED
      BY <1>1, <1>3, <1>5, <2>3, <3>4 DEF FollowedParts, Following
  <2>. QED
    BY <2>2, <2>3
<1>6. CASE tea_step \in Ids \cup {"DETECT"} /\ start_end = "END"
  <2>1. start_end' = "END" /\ Ending'
    BY <1>1, <1>2, <1>3, <1>6 DEF FollowedParts, Ending, AtStep, SavedTo
  <2>. QED
    BY <1>1, <1>3, <1>6, <2>1 DEF FollowedParts, Following
<1>7. CASE tea_step = "FINISH"
  <2>1. start_end' = "END" /\ (worked # <<>> => SavedTo(Len(worked)) /\ detected)
    BY <1>1, <1>2, <1>3, <1>7 DEF FollowedParts, Finishing, Writing
  <2>2. Finishing'
    BY <1>1, <2>1 DEF Finishing, Writing, SavedTo
  <2>. QED
    BY <1>1, <1>3, <1>7, <2>2 DEF FollowedParts
<1>. QED
  BY <1>4, <1>5, <1>6, <1>7 DEF TeachTyped, TeaSteps

(* A step is saved, and its counter starts anew.                           *)
LEMMA SaveFollowed ==
  ASSUME Counted, WorkTyped, TeachTyped, AreasTyped, SavesInArea, AddrInArea, Followed, Saves
  PROVE  Followed'
<1>1. /\ UNCHANGED <<ucMode, tea_step, detected, start_end, worked, waiting, rushed, disturbed>>
      /\ pc # "idle" /\ saved \in Ids
      /\ saved' = saved \/ (pc' = "idle" /\ saved' = "NONE")
  BY SaveLeaves DEF SavesInArea
<1>2. CNT \in [Ids -> 0 .. MAX_CNT] /\ worked \in Seq(Step) /\ waiting \subseteq Ids
  BY DEF Counted, WorkTyped
<1>3. /\ \A j \in Ids \ {saved} : CNT'[j] = CNT[j]
      /\ \/ pc' # "idle" /\ saved' = saved /\ CNT' = CNT
         \/ pc' = "idle" /\ CNT'[saved] = 0
  BY <1>1, <1>2 DEF Saves, SaveHigh, SaveLow, SaveReset, SaveZero, sensors
<1>. SUFFICES ASSUME ucMode = "TEA", ~disturbed, ~rushed PROVE FollowedParts'
  BY <1>1 DEF Followed, FollowedParts
<1>4. FollowedParts /\ {"RES", "DETECT", "FINISH"} \cap Ids = {}
  BY DEF Followed, FollowedParts, Ids, DLY, SEN0, SEN1, SOL0
<1>5. CASE tea_step \in Ids
  <2>1. start_end # "END"
    BY <1>1, <1>4, <1>5 DEF FollowedParts, Ending
  <2>2. PICK n \in 0 .. Len(worked) : Abreast(n) /\ Writing(n)
    BY <1>4, <1>5, <2>1 DEF FollowedParts, Following
  <2>3. Writing(n)'
    <3>1. n \in Nat
      BY <1>2
    <3>. QED
      BY <2>2, <3>1, WritingSaves
  <2>4. /\ Quiet /\ saved # tea_step /\ saved \notin waiting /\ tea_step \notin waiting
        /\ AtStep(n + 1) /\ Ahead(n + 1) /\ tea_step # "DETECT"
    BY <1>1, <1>4, <1>5, <2>2 DEF Abreast, Apart
  <2>5. Quiet' /\ Apart'
    BY <1>1, <1>2, <1>3, <2>4 DEF Quiet, Apart
  <2>6. AtStep(n + 1)' /\ Ahead(n + 1)'
    BY <1>1, <1>3, <1>5, <2>4 DEF AtStep, Ahead
  <2>7. Abreast(n)'
    BY <1>1, <2>4, <2>5, <2>6 DEF Abreast
  <2>8. Following' /\ Ending'
    BY <1>1, <2>1, <2>3, <2>7 DEF Following, Ending
  <2>. QED
    BY <1>1, <1>4, <1>5, <2>8 DEF FollowedParts
<1>6. CASE tea_step = "FINISH"
  <2>1. start_end = "END" /\ (worked # <<>> => Writing(Len(worked)) /\ detected)
    BY <1>4, <1>6 DEF FollowedParts, Finishing
  <2>2. ASSUME worked # <<>> PROVE Writing(Len(worked))'
    <3>1. PICK n \in Nat : n = Len(worked)
      BY <1>2
    <3>2. Writing(n)'
      BY <2>1, <2>2, <3>1, WritingSaves
    <3>. QED
      BY <1>1, <3>1, <3>2
  <2>. QED
    BY <1>1, <1>4, <1>6, <2>1, <2>2 DEF FollowedParts, Finishing
<1>7. tea_step \in Ids \cup {"FINISH"}
  BY <1>1 DEF SavesInArea
<1>. QED
  BY <1>5, <1>6, <1>7

(* The search of a pass finds the sensor that waits, and no other.         *)
LEMMA LookedWaits ==
  ASSUME Counted, Quiet, Apart, pc = "idle", waiting \subseteq Ids,
         \A j \in waiting : CNT[j] > 0
  PROVE  /\ Looked(tea_step) = waiting
         /\ \A j \in Ids : waiting = {j} => Earliest(Looked(tea_step)) = j
<1>1. Looked(tea_step) = waiting
  BY DEF Looked, Quiet, Apart, Counted
<1>2. ASSUME NEW j \in Ids PROVE Earliest({j}) \in {j}
  BY EarliestIsOne
<1>. QED
  BY <1>1, <1>2

(* A pass that is abreast of the worker.                                   *)
LEMMA CheckAbreast ==
  ASSUME Counted, AreasTyped, WorkTyped, pc = "idle", tea_step \in Ids \cup {"DETECT"},
         start_end # "END", TeachCheckSensor, start_end' = start_end, waiting' = {},
         NEW n \in 0 .. Len(worked), Abreast(n), SavedTo(n)
  PROVE  Following' /\ tea_step' \in Ids \cup {"DETECT"}
<1>. PICK k \in Nat : k = IF tea_step = "DETECT" THEN 0 ELSE n + 1
  BY DEF WorkTyped
<1>0. k \in Nat /\ n \in Nat /\ worked \in Seq(Step) /\ waiting \subseteq Ids
  BY DEF WorkTyped
<1>d. "DETECT" \notin Ids
  BY DEF Ids, DLY, SEN0, SEN1, SOL0
<1>1. /\ Quiet /\ Apart /\ Ahead(k) /\ (tea_step = "DETECT" => n = 0)
      /\ tea_step # "DETECT" => AtStep(n + 1)
  BY DEF Abreast
<1>2. worked' = worked /\ CNT' = CNT /\ \A j \in waiting : CNT[j] > 0
  BY <1>1 DEF TeachCheckSensor, Ahead
<1>3. /\ Looked(tea_step) = waiting
      /\ \A j \in Ids : waiting = {j} => Earliest(Looked(tea_step)) = j
  BY <1>0, <1>1, <1>2, LookedWaits
<1>4. CASE waiting = {}
  <2>1. tea_step' = tea_step /\ addr' = addr /\ area' = area /\ pc' = pc /\ saved' = saved
    BY <1>3, <1>4 DEF TeachCheckSensor, save
  <2>2. Abreast(n)'
    BY <1>2, <1>4, <2>1 DEF Abreast, Quiet, Apart, Ahead, AtStep
  <2>3. Writing(n)'
    BY <1>2, <2>1 DEF Writing, SavedTo
  <2>. QED
    BY <1>2, <2>1, <2>2, <2>3 DEF Following
<1>5. CASE waiting # {}
  <2>1. PICK j \in Ids : /\ waiting = {j} /\ Len(worked) = k + 1
                         /\ worked[k + 1] = [id |-> j, value |-> CNT[j]]
    BY <1>1, <1>5 DEF Ahead
  <2>2. tea_step' = j /\ j # tea_step /\ j # "DETECT"
    BY <1>1, <1>3, <1>5, <1>d, <2>1 DEF TeachCheckSensor, Apart
  <2>3. /\ AtStep(k + 1)' /\ Ahead(k + 1)'
    BY <1>2, <2>1, <2>2 DEF AtStep, Ahead
  <2>4. ASSUME Quiet', Apart', Writing(k)' PROVE Following'
    <3>1. PICK m \in Nat : m = k
      BY <1>0
    <3>2. Abreast(m)'
      BY <2>2, <2>3, <2>4, <3>1 DEF Abreast
    <3>3. Writing(m)' /\ m \in 0 .. Len(worked')
      BY <1>2, <2>1, <2>4, <3>1
    <3>. QED
      BY <3>2, <3>3 DEF Following
  <2>5. CASE tea_step = "DETECT"
    <3>1. k = 0 /\ n = 0 /\ UNCHANGED <<addr, area, pc, saved>>
      BY <1>1, <2>5 DEF TeachCheckSensor, save
    <3>2. Quiet' /\ Apart'
      BY <1>1, <1>2, <1>d, <2>1, <2>2, <2>5, <3>1 DEF Quiet, Apart
    <3>3. Writing(0)'
      BY <1>2, <3>1 DEF Writing, SavedTo
    <3>. QED
      BY <2>2, <2>4, <3>1, <3>2, <3>3
  <2>6. CASE tea_step # "DETECT"
    <3>1. k = n + 1 /\ tea_step \in Ids /\ SaveSenCnt(tea_step) /\ AtStep(k)
      BY <1>1, <2>2, <2>6 DEF TeachCheckSensor
    <3>2. PICK m \in Nat \ {0} : m = k /\ m - 1 = n
      BY <1>0, <3>1
    <3>3. Writing(m)' /\ pc' = "high" /\ saved' = tea_step
      BY <1>2, <3>1, <3>2, SaveBegins
    <3>4. Quiet' /\ Apart'
      BY <1>1, <1>2, <2>1, <2>2, <3>3 DEF Quiet, Apart
    <3>5. Writing(k)'
      BY <3>2, <3>3
    <3>. QED
      BY <2>2, <2>4, <3>4, <3>5
  <2>. QED
    BY <2>5, <2>6
<1>. QED
  BY <1>4, <1>5

(* A pass after the end of the teaching.                                   *)
LEMMA CheckEnded ==
  ASSUME AreasTyped, WorkTyped, tea_step \in Ids \cup {"DETECT"}, pc = "idle",
         start_end = "END", TeachCheckSensor, start_end' = start_end, Ending,
         tea_step \in Ids => detected
  PROVE  tea_step' = "FINISH" /\ Finishing'
<1>1. worked' = worked /\ CNT' = CNT /\ tea_step' = "FINISH"
  BY DEF TeachCheckSensor
<1>2. worked \in Seq(Step) /\ "DETECT" \notin Ids /\ "FINISH" \notin Ids
  BY DEF WorkTyped, Ids, DLY, SEN0, SEN1, SOL0
<1>3. CASE tea_step = "DETECT"
  BY <1>1, <1>3 DEF Ending, Finishing
<1>4. CASE tea_step \in Ids
  <2>1. PICK n \in Nat \ {0} : n = Len(worked)
    BY <1>2, <1>4 DEF Ending
  <2>2. AtStep(n) /\ SavedTo(n - 1) /\ SaveSenCnt(tea_step)
    BY <1>1, <1>2, <1>4, <2>1 DEF Ending, TeachCheckSensor
  <2>3. Writing(n)'
    BY <1>1, <1>4, <2>2, SaveBegins
  <2>4. detected'
    BY <1>4, Zenon DEF TeachCheckSensor
  <2>5. Writing(Len(worked))'
    BY <1>1, <2>1, <2>3
  <2>. QED
    BY <1>1, <2>4, <2>5 DEF Finishing
<1>. QED
  BY <1>3, <1>4

(* A pass of loop().                                                       *)
LEMMA PassFollowed ==
  ASSUME Counted, AreasTyped, WorkTyped, SavesInArea, DetectsBeforeSaving, IdleWork, Followed,
         Pass
  PROVE  Followed'
<1>1. start_end' = start_end /\ waiting' = {} /\ pc = "idle"
  BY DEF Pass
<1>2. {"RES", "DETECT", "FINISH"} \cap Ids = {}
  BY DEF Ids, DLY, SEN0, SEN1, SOL0
<1>3. CASE SeqOutRun
  <2>1. worked = <<>> /\ worked' = worked /\ (ucMode' = "TEA" => tea_step' = "RES")
    BY <1>3, RunLeaves DEF IdleWork
  <2>. QED
    BY <1>2, <2>1 DEF Followed
<1>4. CASE SeqOutTeach /\ TeachReset
  <2>1. /\ addr' = 0 /\ worked' = <<>> /\ CNT' = NoCount /\ tea_step' = "DETECT"
        /\ pc' = "idle"
    BY <1>1, <1>4 DEF TeachReset, save
  <2>2. Quiet' /\ Apart' /\ Ahead(0)'
    BY <1>1, <2>1 DEF Quiet, Apart, Ahead, NoCount
  <2>3. SavedTo(0)'
    BY <2>1, ConstantsAssumption DEF SavedTo
  <2>4. Abreast(0)' /\ Writing(0)' /\ 0 \in 0 .. Len(worked')
    BY <2>1, <2>2, <2>3 DEF Abreast, Writing
  <2>5. Following' /\ Ending'
    BY <2>1, <2>3, <2>4 DEF Following, Ending
  <2>. QED
    BY <1>2, <2>1, <2>5 DEF Followed
<1>5. CASE SeqOutTeach /\ TeachCheckSensor
  <2>1. /\ ucMode = "TEA" /\ disturbed' = disturbed /\ rushed' = rushed
        /\ tea_step \in Ids \cup {"DETECT"} /\ TeachCheckSensor
    BY <1>5 DEF SeqOutTeach, TeachCheckSensor
  <2>. SUFFICES ASSUME ~disturbed, ~rushed PROVE FollowedParts'
    BY <2>1 DEF Followed, FollowedParts
  <2>2. Following /\ Ending
    BY <2>1 DEF Followed
  <2>3. CASE start_end = "END"
    <3>1. tea_step \in Ids => detected
      BY <2>1 DEF DetectsBeforeSaving
    <3>2. tea_step' = "FINISH" /\ Finishing'
      BY <1>1, <2>1, <2>2, <2>3, <3>1, CheckEnded
    <3>. QED
      BY <1>2, <3>2 DEF FollowedParts
  <2>4. CASE start_end # "END"
    <3>1. PICK n \in 0 .. Len(worked) : Abreast(n) /\ SavedTo(n)
      BY <1>1, <2>2, <2>4 DEF Following, Writing
    <3>2. Following' /\ tea_step' \in Ids \cup {"DETECT"}
      BY <1>1, <2>1, <2>4, <3>1, CheckAbreast
    <3>3. Ending'
      BY <1>1, <2>4 DEF Ending
    <3>. QED
      BY <1>2, <3>2, <3>3 DEF FollowedParts
  <2>. QED
    BY <2>3, <2>4
<1>6. CASE SeqOutTeach /\ TeachFinish
  BY <1>6 DEF TeachFinish, Followed
<1>. QED
  BY <1>3, <1>4, <1>5, <1>6 DEF Pass, SeqOutTeach

(* The work is a sequence of steps, and there is none while running.       *)
LEMMA WorkStays ==
  ASSUME WorkTyped, IdleWork, RunTyped, [Next]_vars
  PROVE  WorkTyped' /\ IdleWork'
<1>1. ASSUME NEW i \in Ids, Signalled(i) PROVE WorkTyped' /\ IdleWork'
  <2>1. /\ worked' \in Seq(Step) /\ (ucMode # "TEA" => worked' = worked)
        /\ ucMode' = ucMode /\ waiting' \subseteq Ids
    BY <1>1, WorkAdded DEF Signalled, Held, WorkTyped, Watched
  <2>. QED
    BY <2>1 DEF WorkTyped, IdleWork
<1>2. CASE Pressed \/ Replaced \/ Unseen
  BY <1>2 DEF Pressed, Replaced, Unseen, Held, WorkTyped, IdleWork
<1>3. CASE Saves
  BY <1>3, SaveLeaves DEF WorkTyped, IdleWork
<1>4. CASE Pass
  <2>1. worked' = worked \/ worked' = <<>>
    BY <1>4 DEF Pass, SeqOutRun, SeqOutTeach, TeachReset, TeachCheckSensor, TeachFinish
  <2>2. ucMode' = "RUN" => worked' = <<>>
    BY <1>4 DEF Pass, SeqOutRun, SeqOutTeach, TeachReset, TeachCheckSensor, TeachFinish,
                IdleWork
  <2>3. worked' \in Seq(Step)
    BY <2>1, EmptySeq DEF WorkTyped
  <2>. QED
    BY <1>4, <2>2, <2>3 DEF Pass, WorkTyped, IdleWork
<1>5. CASE Boot
  BY <1>5, EmptySeq DEF Boot, WorkTyped, IdleWork
<1>. QED
  BY <1>1, <1>2, <1>3, <1>4, <1>5, StepKinds

(* What was written follows the work, through every kind of step.          *)
LEMMA FollowedStays ==
  ASSUME TeachInv, TaughtInv, [Next]_vars
  PROVE  Followed'
<1>. USE DEF TeachInv, Typed, Sync, TaughtInv
<1>1. ASSUME NEW i \in Ids, Signalled(i) PROVE Followed'
  BY <1>1, SignalFollowed
<1>2. CASE Pressed
  BY <1>2, KeyFollowed
<1>3. CASE Replaced
  BY <1>3 DEF Replaced, Held, Followed
<1>4. CASE Unseen
  <2>1. /\ UNCHANGED <<ucMode, tea_step, detected, pc, saved, addr>>
        /\ UNCHANGED <<CNT, worked, waiting, rushed, start_end, area, disturbed>>
    BY <1>4 DEF Unseen, Held
  <2>2. ASSUME NEW n PROVE Writing(n)' <=> Writing(n)
    BY <2>1 DEF Writing, SavedTo, Saving
  <2>3. ASSUME NEW n PROVE Abreast(n)' <=> Abreast(n)
    BY <2>1 DEF Abreast, Quiet, Apart, AtStep, Ahead
  <2>4. (Following' <=> Following) /\ (Ending' <=> Ending)
    BY <2>1, <2>2, <2>3 DEF Following, Ending, AtStep, SavedTo
  <2>5. Finishing' <=> Finishing
    BY <2>1 DEF Finishing, Writing, SavedTo, Saving
  <2>. QED
    BY <2>1, <2>4, <2>5 DEF Followed
<1>5. CASE Pass
  BY <1>5, PassFollowed
<1>6. CASE Saves
  BY <1>6, SaveFollowed
<1>7. CASE Boot
  BY <1>7 DEF Boot, Followed
<1>. QED
  BY <1>1, <1>2, <1>3, <1>4, <1>5, <1>6, <1>7, StepKinds

(* What a teaching keeps of the work w.                                    *)
Kept(w) == IF Len(w) <= MAX_STEP THEN w ELSE SubSeq(w, 1, MAX_STEP - 1) \o <<Last(w)>>

LEMMA KeptSteps ==
  ASSUME NEW w \in Seq(Step), w # <<>>
  PROVE  /\ Kept(w) \in Seq(Step)
         /\ Len(Kept(w)) = IF Len(w) <= MAX_STEP THEN Len(w) ELSE MAX_STEP
         /\ \A i \in 1 .. Len(Kept(w)) :
              Kept(w)[i] = w[IF i = MAX_STEP THEN Len(w) ELSE i]
<1>. DEFINE n == Len(w)  M == MAX_STEP  s == SubSeq(w, 1, M - 1)
<1>1. n \in Nat \ {0} /\ w[n] \in Step /\ Last(w) = w[n] /\ M \in Nat \ {0}
  BY ConstantsAssumption DEF Last
<1>2. CASE n <= M
  BY <1>1, <1>2 DEF Kept
<1>3. CASE n > M
  <2>1. s \in Seq(Step) /\ Len(s) = M - 1 /\ \A i \in 1 .. M - 1 : s[i] = w[i]
    <3>1. \A i \in 1 .. M - 1 : w[i] \in Step
      BY <1>1, <1>3
    <3>2. /\ s \in Seq(Step) /\ Len(s) = (IF 1 <= M - 1 THEN M - 1 - 1 + 1 ELSE 0)
          /\ \A i \in 1 .. M - 1 - 1 + 1 : s[i] = w[1 + i - 1]
      BY <1>1, <3>1, SubSeqProperties
    <3>. QED
      BY <1>1, <3>2
  <2>2. <<w[n]>> \in Seq(Step) /\ Len(<<w[n]>>) = 1 /\ <<w[n]>>[1] = w[n]
    BY <1>1
  <2>3. /\ s \o <<w[n]>> \in Seq(Step) /\ Len(s \o <<w[n]>>) = Len(s) + 1
        /\ \A i \in 1 .. Len(s) + 1 :
             (s \o <<w[n]>>)[i] = IF i <= Len(s) THEN s[i] ELSE <<w[n]>>[i - Len(s)]
    BY <2>1, <2>2, ConcatProperties
  <2>4. Kept(w) = s \o <<w[n]>>
    BY <1>1, <1>3 DEF Kept
  <2>. HIDE DEF s
  <2>. QED
    BY <1>1, <1>3, <2>1, <2>2, <2>3, <2>4
<1>. QED
  BY <1>1, <1>2, <1>3

(* The end flag goes behind the steps that are written.                    *)
LEMMA TaughtAtTheEnd ==
  ASSUME TeachInv, TaughtInv, ucMode = "TEA", ucMode' = "RUN", worked # <<>>, ~disturbed,
         ~rushed, Pass
  PROVE  Steps(store'[idx_plan']) = Kept(worked)
<1>. USE DEF TeachInv, Typed, TaughtInv
<1>1. SeqOutTeach /\ TeachFinish
  BY DEF Pass, SeqOutRun, SeqOutTeach, TeachReset, TeachCheckSensor
<1>2. SavedTo(Len(worked)) /\ detected /\ tea_step = "FINISH" /\ worked \in Seq(Step)
  BY <1>1 DEF Pass, TeachFinish, Followed, Finishing, Writing, WorkTyped
<1>3. addr \in Addr /\ area' = [area EXCEPT ![addr].id = END]
  BY <1>1, <1>2, ConstantsAssumption DEF TeachFinish, SavedTo, Addr
<1>4. store'[idx_plan'] = area'
  BY <1>1, <1>2 DEF Pass, EndOfPass, TeachFinish, ToStore, UpdateStore, save, plan, PlanTyped,
                    AreasTyped, StoreOK
<1>5. /\ Kept(worked) \in Seq(Step) /\ Len(Kept(worked)) = addr
      /\ \A i \in 1 .. addr : Kept(worked)[i] = area[i - 1]
  BY <1>2, KeptSteps DEF SavedTo
<1>6. /\ area'[addr].id = END
      /\ \A j \in Addr \ {addr} : area'[j] = area[j]
  BY <1>3 DEF AreasTyped, AreaOK, AreaType, Cell
<1>7. \A j \in 0 .. addr - 1 : area'[j] = Kept(worked)[j + 1] /\ area'[j].id # END
  <2>. SUFFICES ASSUME NEW j \in 0 .. addr - 1
                PROVE  area'[j] = Kept(worked)[j + 1] /\ area'[j].id # END
    OBVIOUS
  <2>1. j \in Addr \ {addr} /\ j + 1 \in 1 .. addr /\ (j + 1) - 1 = j
    BY <1>3, ConstantsAssumption DEF Addr
  <2>2. area'[j] = Kept(worked)[j + 1]
    BY <1>5, <1>6, <2>1
  <2>3. Kept(worked)[j + 1] \in Step
    BY <1>5, <2>1
  <2>. QED
    BY <2>2, <2>3 DEF Step, Ids, DLY, SEN0, SEN1, SOL0, END
<1>8. End(area') = addr
  <2>1. \A i \in Addr : area'[i].id = END /\ (\A j \in 0 .. i - 1 : area'[j].id # END)
                         => i = addr
    BY <1>3, <1>6, <1>7, ConstantsAssumption DEF Addr
  <2>. QED
    BY <1>3, <1>6, <1>7, <2>1 DEF End
<1>9. Steps(area') = [i \in 1 .. addr |-> Kept(worked)[i]]
  <2>1. \A i \in 1 .. addr : area'[i - 1] = Kept(worked)[i]
    BY <1>3, <1>7, ConstantsAssumption DEF Addr
  <2>. QED
    BY <1>8, <2>1 DEF Steps
<1>10. Kept(worked) = [i \in 1 .. addr |-> Kept(worked)[i]]
  BY <1>5, LenProperties
<1>. QED
  BY <1>4, <1>9, <1>10

(* No teaching yet.                                                        *)
LEMMA TaughtFirst == Init => TaughtInv
BY EmptySeq DEF Init, TaughtInv, WorkTyped, IdleWork, Followed

(* seqOutTeach, SeqSaveSenCnt, update_storeTeachingSequence: what is       *)
(* stored at the end of a teaching is the work that was shown, step by     *)
(* step, however long the area is, however often each signal comes and     *)
(* however many come between two passes of loop() or while a step is being *)
(* written, unless one came too soon (Rush) or the area was replaced.      *)
THEOREM TeachesTheWork == Spec => TaughtIsWorked
<1>1. TeachInv /\ TaughtInv /\ [Next]_vars => TaughtInv'
  BY WorkStays, FollowedStays DEF TeachInv, Typed, TaughtInv
<1>2. TeachInv /\ TaughtInv /\ [Next]_vars
      => [ ucMode = "TEA" /\ ucMode' = "RUN" /\ worked # <<>> /\ ~disturbed /\ ~rushed /\ Pass
           => Steps(store'[idx_plan']) =
                IF Len(worked) <= MAX_STEP THEN worked
                ELSE SubSeq(worked, 1, MAX_STEP - 1) \o <<Last(worked)>> ]_vars
  BY TaughtAtTheEnd DEF Kept
<1>. QED
  BY <1>1, <1>2, TaughtFirst, TeachInvariant, PTL DEF Spec, TaughtIsWorked
=============================================================================
