---------------------------- MODULE TeachSequence ----------------------------
(***************************************************************************)
(* Counting pieces.  The worker teaches the device the sequence of signals *)
(* that makes one piece (seqOutTeach); from then on the device follows the *)
(* sensors through that sequence and counts a piece at its end (seqOutRun).*)
(* Sequences also come from the server (setTeaching), one per process of   *)
(* the plan, and the current process's is copied to the running area of    *)
(* the EEPROM.  The interrupt of sensor 0, the 10 ms poll of sensor 1 and  *)
(* the 1 s timer count signals between any two passes of loop(), as many   *)
(* as there are; so do the MQTT callbacks act between passes.  One pass is *)
(* one step, except that a pass that saves a step of a teaching yields at  *)
(* each byte it writes, where signals, callbacks and timers come in.       *)
(***************************************************************************)
EXTENDS Integers, Sequences, SequencesExt

CONSTANTS
  MAX_STEP,   (* (E2PE_LEN_TEA_SEQ - 1) / 3, the steps that fit (10)       *)
  MAX_PLAN,   (* LEN_JSON_OBJECT_PLAN                                      *)
  MAX_CNT,    (* where the model stops counting signals (2^16 - 1)         *)
  BYTE,       (* a counter is stored in two bytes (256)                    *)
  MAX_WORK,   (* how many steps of work a teaching is explored for         *)
  WORK,       (* the signals this machine and its worker give              *)
  SERVER,     (* the sequences the server may send                         *)
  TEACHING,   (* BOOLEAN: is the worker's teaching explored                *)
  PAUSES,     (* BOOLEAN: are the andon page and the in/out mode explored  *)
  POWER       (* BOOLEAN: are power failures explored                      *)

DLY == "DLY"  SEN0 == "SEN0"  SEN1 == "SEN1"  SOL0 == "SOL0"  END == "END"

Ids   == {DLY, SEN0, SEN1, SOL0}
(* mqttGetIdTeaching knows STI, TRI and DLY; other steps are passed over.  *)
FromServer == {SEN0, SOL0, DLY}
Plan  == 0 .. MAX_PLAN - 1
Addr  == 0 .. MAX_STEP
Step  == [id : Ids, value : 0 .. MAX_CNT]
Cell  == [id : Ids \cup {END}, value : 0 .. MAX_CNT]
Ended == [id |-> END, value |-> 0]

Modes     == {"RUN", "TEA"}
RunSteps  == {"START", "SET", "END", "WAIT", "FINISH"}
TeaSteps  == Ids \cup {"RES", "DETECT", "FINISH"}
StartEnd  == {"NONE", "START", "END"}

ASSUME ConstantsAssumption ==
  /\ MAX_STEP \in Nat \ {0} /\ MAX_PLAN \in Nat \ {0} /\ MAX_CNT \in Nat \ {0}
  /\ MAX_WORK \in Nat /\ WORK \subseteq Ids \ {SOL0}
  /\ \A q \in SERVER : /\ q \in Seq(Step) /\ Len(q) <= MAX_STEP
                       /\ \A i \in DOMAIN q : q[i].id \in FromServer
  /\ BYTE \in Nat \ {0} /\ (MAX_CNT + 1) % BYTE = 0
  /\ TEACHING \in BOOLEAN /\ PAUSES \in BOOLEAN /\ POWER \in BOOLEAN

VARIABLES
  ucMode,          (* Fun_teaSeq::ucMode: RUN or TEA                       *)
  run_step,        (* OtRun.ucMode: START, SET, END, WAIT (the step's id), *)
                   (* FINISH                                               *)
  wait,            (* OtRun.ucSenType and ucSenLim                         *)
  tea_step,        (* OtTea.ucMode: RES, DETECT, an id, FINISH             *)
  addr,            (* usE2pAddr, shared by the two, in steps               *)
  pc,              (* SeqSaveSenCnt: idle, or before it reads the high or  *)
                   (* the low byte of the counter, or sets it back         *)
  saved,           (* the sensor whose counter it saves, or NONE           *)
  CNT,             (* CNT_TEA_DLY, _SEN0, _SEN1, _SOL0                     *)
  start_end,       (* ucStartEndTeaching: NONE, START, END                 *)
  detected,        (* bDetectSensor                                        *)
  changed,         (* bTeaSeqChanged                                       *)
  area,            (* E2PE_ADR_TEA_SEQ, the running sequence               *)
  store,           (* ucTeaSeqStore and its copy at E2PE_ADR_OUT_SEQ       *)
  len_plan, idx_plan,
  ignore,          (* bIgnoreSen0: no, yes, or yes and its 500 ms are over *)
  ignore_sen_0_all,
  paused,          (* oper.bAndonMode or in_out_iot_mode_enable            *)
  teach_page,      (* is the teaching page displayed                       *)
  flash,           (* the info sector as last committed                    *)
  done,            (* history: the steps completed in this round           *)
  worked,          (* history: the signals since the teaching began        *)
  waiting,         (* history: the sensors, besides the one counted, with  *)
                   (* a signal since the last pass of the teaching began   *)
  rushed,          (* history: a signal or a key of the teaching came too  *)
                   (* soon (Rush)                                          *)
  disturbed,       (* history: the running area was changed by another     *)
                   (* while the sequence was taught                        *)
  torn             (* history: booted from a sector committed while a      *)
                   (* sequence was taught or not yet stored                *)

running  == <<run_step, wait, done>>
teaching == <<tea_step, detected>>
save     == <<pc, saved>>
plan     == <<len_plan, idx_plan>>
sensors  == <<CNT, ignore, ignore_sen_0_all>>
ghosts   == <<worked, waiting, rushed, disturbed, torn>>
vars == <<ucMode, running, teaching, save, addr, start_end, changed, area, store, plan, sensors,
          paused, teach_page, flash, ghosts>>

-----------------------------------------------------------------------------
(* The steps of an area, up to its end flag.                               *)
End(a)   == CHOOSE i \in Addr : a[i].id = END /\ \A j \in 0 .. i - 1 : a[j].id # END
Steps(a) == [i \in 1 .. End(a) |-> a[i - 1]]

(* No sequence: an end flag at once (rst_allTeachingSequence).             *)
NoSequence == [i \in Addr |-> Ended]

NoCount == [i \in Ids |-> 0]
Up(c)   == IF c < MAX_CNT THEN c + 1 ELSE c

Sector == [area |-> area, store |-> store, idx |-> idx_plan,
           dirty |-> ucMode = "TEA" \/ changed \/ torn]

Init ==
  /\ ucMode = "RUN" /\ run_step = "START" /\ wait = Ended
  /\ tea_step = "RES" /\ detected = FALSE
  /\ addr = 0 /\ CNT = NoCount /\ pc = "idle" /\ saved = "NONE"
  /\ start_end = "NONE" /\ changed = FALSE
  /\ area = NoSequence
  /\ store = [p \in Plan |-> NoSequence]
  /\ len_plan = 0 /\ idx_plan = 0
  /\ ignore = "no" /\ ignore_sen_0_all = FALSE
  /\ paused = FALSE /\ teach_page = FALSE
  /\ done = <<>> /\ worked = <<>> /\ waiting = {} /\ rushed = FALSE
  /\ disturbed = FALSE /\ torn = FALSE
  /\ flash = Sector

-----------------------------------------------------------------------------
(* Signals, between the passes of loop().                                  *)

(* What a worker did, as a list of steps: equal signals in a row are one.  *)
Work(i) ==
  worked' = IF ucMode # "TEA" \/ tea_step = "RES" \/ start_end = "END" THEN worked
            ELSE IF worked # <<>> /\ Last(worked).id = i
              THEN [worked EXCEPT ![Len(worked)].value = Up(@)]
              ELSE Append(worked, [id |-> i, value |-> 1])

(* A signal comes too soon: another sensor than the one counted waits for  *)
(* a pass already; or its counter is just being saved; or it is the last   *)
(* step's, after the end of the teaching.                                  *)
Rush(i) ==
  \/ start_end # "END" /\ waiting \ {i} # {}
  \/ start_end = "END" /\ i = tea_step
  \/ pc # "idle" /\ i = saved

Rushes(soon) == rushed' = (rushed \/ (ucMode = "TEA" /\ soon))

CountUp(i) ==
  /\ i \in WORK
  /\ Work(i)
  /\ Rushes(Rush(i))
  /\ waiting' = IF ucMode = "TEA" THEN waiting \cup ({i} \ {tea_step}) ELSE waiting
  /\ Len(worked') <= MAX_WORK
  /\ CNT' = [CNT EXCEPT ![i] = Up(@)]

(* detFalling: the interrupt of sensor 0, a stitch.                        *)
DetFalling ==
  /\ ignore = "no" /\ ~ignore_sen_0_all
  /\ CountUp(SEN0)
  /\ UNCHANGED <<ucMode, running, teaching, save, addr, start_end, changed, area, store, plan,
                 ignore, ignore_sen_0_all, paused, teach_page, flash, disturbed, torn>>

(* SignalCtrl, every 10 ms: sensor 1, a trim; for 500 ms no sensor counts. *)
SignalCtrl ==
  /\ ignore = "no"
  /\ CountUp(SEN1)
  /\ ignore' = "yes"
  /\ UNCHANGED <<ucMode, running, teaching, save, addr, start_end, changed, area, store, plan,
                 ignore_sen_0_all, paused, teach_page, flash, disturbed, torn>>

IgnoreTimeOver ==
  /\ ignore = "yes"
  /\ ignore' = "over"
  /\ UNCHANGED <<ucMode, running, teaching, save, addr, start_end, changed, area, store, plan,
                 CNT, ignore_sen_0_all, paused, teach_page, flash, ghosts>>

(* The delay counts seconds while running, presses of the button while a   *)
(* sequence is taught.                                                     *)
IncreaseDelay ==
  /\ pc = "idle"
  /\ CountUp(DLY)
  /\ UNCHANGED <<ucMode, running, teaching, save, addr, start_end, changed, area, store, plan,
                 ignore, ignore_sen_0_all, paused, teach_page, flash, disturbed, torn>>

-----------------------------------------------------------------------------
(* loop(): one pass of seqOutRun.                                          *)

RunStart ==
  /\ run_step = "START"
  /\ addr' = 0
  /\ run_step' = "SET"
  /\ done' = <<>>
  /\ UNCHANGED <<wait, CNT>>

RunSet ==
  /\ run_step = "SET"
  /\ wait' = area[addr]
  /\ addr' = addr + 1
  /\ run_step' = IF wait'.id = END THEN "END" ELSE "WAIT"
  /\ CNT' = IF wait'.id = END THEN CNT ELSE [CNT EXCEPT ![wait'.id] = 0]
  /\ UNCHANGED done

RunEnd ==
  /\ run_step = "END"
  /\ run_step' = "START"
  /\ UNCHANGED <<addr, wait, done, CNT>>

(* A defect that KeepsCounting must catch: a step passed over is missed.   *)
RunWaitExact ==
  /\ run_step = "WAIT"
  /\ IF CNT[wait.id] = wait.value
       THEN run_step' = "FINISH" /\ done' = Append(done, wait)
       ELSE UNCHANGED <<run_step, done>>
  /\ UNCHANGED <<addr, wait, CNT>>

RunWait ==
  /\ run_step = "WAIT"
  /\ IF CNT[wait.id] >= wait.value
       THEN run_step' = "FINISH" /\ done' = Append(done, wait)
       ELSE UNCHANGED <<run_step, done>>
  /\ UNCHANGED <<addr, wait, CNT>>

(* A piece is counted (ProductQueue's IncreaseOutput).                     *)
Counting == run_step = "FINISH" /\ area[addr].id = END

RunFinish ==
  /\ run_step = "FINISH"
  /\ run_step' = IF Counting THEN "START" ELSE "SET"
  /\ done' = IF Counting THEN <<>> ELSE done
  /\ UNCHANGED <<addr, wait, CNT>>

(* At the end of the pass a start of the teaching is noticed.              *)
SeqOutRun ==
  /\ ucMode = "RUN"
  /\ RunStart \/ RunSet \/ RunEnd \/ RunWait \/ RunFinish
  /\ IF start_end = "START"
       THEN /\ ucMode' = "TEA" /\ tea_step' = "RES"
            /\ ignore_sen_0_all' \in {ignore_sen_0_all, TRUE}
            /\ disturbed' = FALSE
       ELSE UNCHANGED <<ucMode, tea_step, ignore_sen_0_all, disturbed>>
  /\ UNCHANGED <<detected, save, area, worked, rushed>>

-----------------------------------------------------------------------------
(* loop(): one pass of seqOutTeach.                                        *)

(* The sensors that gave a signal, of those looked at in step s, and the   *)
(* one the code finds first.                                               *)
Looked(s) == {i \in Ids \ {s} : CNT[i] > 0}
Turn(i)   == CHOOSE t \in 1 .. 4 : <<DLY, SEN0, SEN1, SOL0>>[t] = i
Earliest(S) == CHOOSE i \in S : \A j \in S : Turn(i) <= Turn(j)

(* A step is written where the area has room, or else over its last step.  *)
At == IF addr >= MAX_STEP THEN addr - 1 ELSE addr

(* A defect that TypeOK must catch: no check for a full area.              *)
SaveSenCntUnchecked(i) ==
  /\ area' = [area EXCEPT ![addr].id = i]
  /\ addr' = addr
  /\ pc' = "high" /\ saved' = i

(* SeqSaveSenCnt begins with the sensor's id.                              *)
SaveSenCnt(i) ==
  /\ area' = [area EXCEPT ![At].id = i]
  /\ addr' = At
  /\ pc' = "high" /\ saved' = i

TeachReset ==
  /\ tea_step = "RES"
  /\ CNT' = NoCount
  /\ addr' = 0
  /\ tea_step' = "DETECT"
  /\ worked' = <<>> /\ rushed' = FALSE
  /\ UNCHANGED <<detected, area, save, ucMode, running, ignore_sen_0_all>>

(* SeqOutTeachCheckSensor: another sensor, or the end of the teaching,     *)
(* completes the step that was being counted.                              *)
TeachCheckSensor ==
  /\ tea_step \in Ids \cup {"DETECT"}
  /\ detected' = (detected \/ Looked(tea_step) # {})
  /\ tea_step' = IF start_end = "END" THEN "FINISH"
                 ELSE IF Looked(tea_step) # {} THEN Earliest(Looked(tea_step)) ELSE tea_step
  /\ IF tea_step # "DETECT" /\ tea_step' # tea_step
       THEN SaveSenCnt(tea_step)
       ELSE UNCHANGED <<area, addr, save>>
  /\ UNCHANGED <<CNT, worked, rushed, ucMode, running, ignore_sen_0_all>>

TeachFinish ==
  /\ tea_step = "FINISH"
  /\ area' = IF detected THEN [area EXCEPT ![addr].id = END] ELSE area
  /\ detected' = FALSE
  /\ ucMode' = "RUN" /\ run_step' = "START"
  /\ ignore_sen_0_all' = FALSE
  /\ worked' = <<>> /\ rushed' = FALSE
  /\ UNCHANGED <<tea_step, addr, CNT, save, wait, done>>

SeqOutTeach ==
  /\ ucMode = "TEA"
  /\ TeachReset \/ TeachCheckSensor \/ TeachFinish
  /\ UNCHANGED disturbed

(* update_runTeaSeqWithCurrentIdxPlan, update_storeTeachingSequence: a     *)
(* sequence goes from the store to the running area, or back.              *)
UpdateRun(s, p) == area' = s[p]
UpdateStore     == store' = [store EXCEPT ![idx_plan] = area']

(* rst_teachingSequenceRun: an end flag in front of the sequence.          *)
RstRun == area' = [area EXCEPT ![0].id = END]

(* A defect that InSync must catch: a sequence reset on the set-up page is *)
(* not stored.                                                             *)
ToStoreTaughtOnly == pc = "idle" /\ ucMode = "TEA" /\ tea_step = "FINISH" /\ detected

(* What the pass still has to store: a sequence just taught, or a reset.   *)
ToStore == changed \/ (pc = "idle" /\ ucMode = "TEA" /\ tea_step = "FINISH" /\ detected)

(* The end of a pass.                                                      *)
EndOfPass ==
  /\ IF ToStore THEN UpdateStore ELSE UNCHANGED store
  /\ changed' = FALSE
  /\ torn' = (torn /\ ~ToStore)
  /\ ignore' = IF ignore = "over" THEN "no" ELSE ignore

Pass ==
  /\ ~paused /\ pc = "idle"
  /\ SeqOutRun \/ SeqOutTeach
  /\ waiting' = {}
  /\ IF pc' = "idle" THEN EndOfPass ELSE UNCHANGED <<store, changed, torn, ignore>>
  /\ UNCHANGED <<start_end, plan, paused, teach_page, flash>>

-----------------------------------------------------------------------------
(* SeqSaveSenCnt goes on after a yield: a byte of the counter as it is now.*)

SaveHigh ==
  /\ pc = "high"
  /\ area' = [area EXCEPT ![addr].value = (CNT[saved] \div BYTE) * BYTE + (@ % BYTE)]
  /\ pc' = "low"
  /\ UNCHANGED <<ucMode, running, teaching, saved, addr, start_end, changed, store, plan,
                 sensors, paused, teach_page, flash, ghosts>>

SaveLow ==
  /\ pc = "low"
  /\ area' = [area EXCEPT ![addr].value = (@ \div BYTE) * BYTE + (CNT[saved] % BYTE)]
  /\ pc' = "reset"
  /\ UNCHANGED <<ucMode, running, teaching, saved, addr, start_end, changed, store, plan,
                 sensors, paused, teach_page, flash, ghosts>>

(* A defect that TaughtIsWorked must catch: the counter not started anew.  *)
SaveNoReset == UNCHANGED CNT

SaveZero == CNT' = [CNT EXCEPT ![saved] = 0]

(* The counter starts anew, whatever came since its bytes were read, and   *)
(* the pass ends.                                                          *)
SaveReset ==
  /\ pc = "reset"
  /\ SaveZero
  /\ addr' = addr + 1
  /\ pc' = "idle" /\ saved' = "NONE"
  /\ UNCHANGED area
  /\ EndOfPass
  /\ UNCHANGED <<ucMode, running, teaching, start_end, plan, ignore_sen_0_all, paused,
                 teach_page, flash, worked, waiting, rushed, disturbed>>

Loop == Pass \/ SaveHigh \/ SaveLow \/ SaveReset

-----------------------------------------------------------------------------
(* loop(): the keys.                                                       *)

(* btn_long_2: three seconds on the menu.                                  *)
StartTeachMode ==
  /\ TEACHING /\ ~teach_page
  /\ Rushes(start_end = "END")
  /\ start_end' = "START"
  /\ teach_page' = TRUE
  /\ UNCHANGED <<ucMode, running, teaching, save, addr, changed, area, store, plan, sensors,
                 paused, flash, worked, waiting, disturbed, torn>>

(* btn_long_1 on the teaching page.                                        *)
EndTeachMode ==
  /\ teach_page
  /\ Rushes(waiting # {})
  /\ start_end' = "END"
  /\ teach_page' = FALSE
  /\ UNCHANGED <<ucMode, running, teaching, save, addr, changed, area, store, plan, sensors,
                 paused, flash, worked, waiting, disturbed, torn>>

(* A card shows its own page, after which the main page comes back.        *)
DispNfcTagRead ==
  /\ teach_page
  /\ teach_page' = FALSE
  /\ UNCHANGED <<ucMode, running, teaching, save, addr, start_end, changed, area, store, plan,
                 sensors, paused, flash, worked, waiting, rushed, disturbed, torn>>

(* A defect that WholeRounds must catch: the round goes on.                *)
RestartRunModeForgotten == UNCHANGED run_step

RestartRunMode == run_step' = "START"

(* The running area is replaced under a teaching that goes on.             *)
Disturb == disturbed' = (disturbed \/ ucMode = "TEA")

DispSetupResetTeach ==
  /\ ~teach_page
  /\ RstRun
  /\ RestartRunMode
  /\ changed' = TRUE
  /\ Disturb
  /\ UNCHANGED <<ucMode, wait, done, teaching, save, addr, start_end, store, plan, sensors, paused,
                 teach_page, flash, worked, waiting, rushed, torn>>

DispChangeProc ==
  /\ ~teach_page /\ len_plan > 0
  /\ idx_plan' = (idx_plan + 1) % len_plan
  /\ UpdateRun(store, idx_plan')
  /\ RestartRunMode
  /\ Disturb
  /\ torn' = FALSE
  /\ UNCHANGED <<ucMode, wait, done, teaching, save, addr, start_end, changed, store, len_plan,
                 sensors, paused, teach_page, flash, worked, waiting, rushed>>

(* The andon page, or the in/out mode: no pass until it is left; leaving   *)
(* the andon page starts the round anew.                                   *)
Pause ==
  /\ PAUSES /\ ~teach_page /\ ~paused
  /\ paused' = TRUE
  /\ UNCHANGED <<ucMode, running, teaching, save, addr, start_end, changed, area, store, plan,
                 sensors, teach_page, flash, ghosts>>

Resume ==
  /\ paused
  /\ paused' = FALSE
  /\ RestartRunMode \/ UNCHANGED run_step
  /\ UNCHANGED <<ucMode, wait, done, teaching, save, addr, start_end, changed, area, store, plan,
                 sensors, teach_page, flash, ghosts>>

-----------------------------------------------------------------------------
(* MQTT callbacks.                                                         *)

(* A sequence written over an old one: what follows the end flag stays.    *)
Written(a, q) ==
  [i \in Addr |-> IF i < Len(q) THEN q[i + 1]
                  ELSE IF i = Len(q) THEN [a[i] EXCEPT !.id = END] ELSE a[i]]

SetTeaching ==
  \E n \in 1 .. MAX_PLAN : \E q \in [0 .. n - 1 -> SERVER] :
    /\ store' = [p \in Plan |-> IF p < n THEN Written(store[p], q[p]) ELSE store[p]]
    /\ UpdateRun(store', idx_plan)
    /\ RestartRunMode
    /\ Disturb
    /\ torn' = FALSE
    /\ UNCHANGED <<ucMode, wait, done, teaching, save, addr, start_end, changed, plan, sensors,
                   paused, teach_page, flash, worked, waiting, rushed>>

GetPlan ==
  \E n \in 1 .. MAX_PLAN :
    /\ len_plan' = n
    /\ IF idx_plan >= n
         THEN /\ idx_plan' = 0
              /\ UpdateRun(store, 0)
              /\ RestartRunMode
              /\ Disturb
              /\ torn' = FALSE
         ELSE UNCHANGED <<idx_plan, area, run_step, disturbed, torn>>
    /\ UNCHANGED <<ucMode, wait, done, teaching, save, addr, start_end, changed, store, sensors,
                   paused, teach_page, flash, worked, waiting, rushed>>

(* Timer callbacks: the info sector is committed.                          *)
CommitInfo ==
  /\ POWER
  /\ flash' = Sector
  /\ UNCHANGED <<ucMode, running, teaching, save, addr, start_end, changed, area, store, plan,
                 sensors, paused, teach_page, ghosts>>

Boot ==
  /\ POWER
  /\ ucMode' = "RUN" /\ run_step' = "START" /\ wait' = Ended
  /\ tea_step' = "RES" /\ detected' = FALSE
  /\ addr' = 0 /\ CNT' = NoCount /\ pc' = "idle" /\ saved' = "NONE"
  /\ start_end' = "NONE" /\ changed' = FALSE
  /\ area' = flash.area /\ store' = flash.store /\ idx_plan' = flash.idx
  /\ len_plan' = 0
  /\ ignore' = "no" /\ ignore_sen_0_all' = FALSE
  /\ paused' \in {FALSE, PAUSES} /\ teach_page' = FALSE
  /\ done' = <<>> /\ worked' = <<>> /\ waiting' = {} /\ rushed' = FALSE
  /\ disturbed' = FALSE
  /\ torn' = flash.dirty
  /\ UNCHANGED flash

Signal == DetFalling \/ SignalCtrl \/ IncreaseDelay \/ IgnoreTimeOver
Key == StartTeachMode \/ EndTeachMode \/ DispNfcTagRead \/ DispSetupResetTeach
         \/ DispChangeProc \/ Pause \/ Resume
Callback == SetTeaching \/ GetPlan \/ CommitInfo

(* The keys are loop()'s own and wait for the pass to end.                 *)
Next == Signal \/ Loop \/ (pc = "idle" /\ Key) \/ Callback \/ Boot

Spec == Init /\ [][Next]_vars

(* loop() runs over and over, the timers and the 500 ms go on; and a       *)
(* machine that is used sends the signals of its two sensors again and     *)
(* again.                                                                  *)
FairSpec ==
  /\ Spec
  /\ WF_vars(Loop) /\ WF_vars(IgnoreTimeOver) /\ WF_vars(IncreaseDelay)
  /\ SF_vars(DetFalling) /\ SF_vars(SignalCtrl)

-----------------------------------------------------------------------------
AreaType == [Addr -> Cell]

(* Every variable stays in its range; the last cell of an area has room    *)
(* for the end flag only.                                                  *)
TypeOK ==
  /\ ucMode \in Modes
  /\ run_step \in RunSteps /\ wait \in Cell
  /\ tea_step \in TeaSteps /\ detected \in BOOLEAN
  /\ pc \in {"idle", "high", "low", "reset"} /\ saved \in Ids \cup {"NONE"}
  /\ addr \in 0 .. MAX_STEP + 1
  /\ CNT \in [Ids -> 0 .. MAX_CNT]
  /\ start_end \in StartEnd /\ changed \in BOOLEAN
  /\ area \in AreaType /\ area[MAX_STEP] = Ended
  /\ store \in [Plan -> AreaType] /\ \A p \in Plan : store[p][MAX_STEP] = Ended
  /\ len_plan \in 0 .. MAX_PLAN /\ idx_plan \in Plan
  /\ ignore \in {"no", "yes", "over"}
  /\ flash.area \in AreaType /\ flash.area[MAX_STEP] = Ended
  /\ done \in Seq(Step)

(* A piece is counted only when every step of the sequence in force was    *)
(* completed, in order, since the last piece or the last change of the     *)
(* sequence.                                                               *)
WholeRounds == ucMode = "RUN" /\ Counting => done = Steps(area)

(* Outside a teaching the sequence that is followed is the one stored for  *)
(* the current process, which is what the server is told, unless a restart *)
(* found a sector committed in the middle of a change.                     *)
InSync == ucMode = "RUN" /\ ~changed /\ ~torn => Steps(area) = Steps(store[idx_plan])

(* What is stored at the end of a teaching is what the worker did; of more *)
(* steps than fit the first ones and the last one are kept.  Two things    *)
(* spoil it: another change of the running area meanwhile, and signals too *)
(* quick for the passes (Rush): two sensors waiting at once, one that gives*)
(* a signal while its counter is being saved, which is lost or tears the   *)
(* value, and a teaching ended while a sensor waits or counted on after    *)
(* its end.                                                                *)
TaughtIsWorked ==
  [][ ucMode = "TEA" /\ ucMode' = "RUN" /\ worked # <<>> /\ ~disturbed /\ ~rushed /\ Pass
      => Steps(store'[idx_plan']) =
           IF Len(worked) <= MAX_STEP THEN worked
           ELSE SubSeq(worked, 1, MAX_STEP - 1) \o <<Last(worked)>> ]_vars

Countable == ~paused /\ ucMode = "RUN" /\ start_end # "START" /\ Steps(area) # <<>>

(* Left to itself with a sequence and a working machine, the device counts *)
(* pieces over and over, when no step asks for the relay input, which is   *)
(* not polled.                                                             *)
KeepsCounting ==
  <>[][Signal \/ Loop]_vars
    /\ <>[](Countable /\ \A i \in DOMAIN Steps(area) : Steps(area)[i].id # SOL0)
  => []<>Counting

=============================================================================
