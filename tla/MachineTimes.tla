---------------------------- MODULE MachineTimes ----------------------------
(***************************************************************************)
(* How long the motor ran and how long the worker handled the piece in     *)
(* between.  The interrupt of the stitch sensor (detFalling) notes the     *)
(* first and the last stitch of a run; FunOperation::loop, which reads the *)
(* clock once at its beginning, finds the end of the run.  The interrupt   *)
(* comes between any two steps of the loop.  The clock is millis(), which  *)
(* wraps; its differences are those of an unsigned word.                   *)
(***************************************************************************)
EXTENDS Naturals

CONSTANTS
  WORD,        (* where millis() wraps (2^32)                              *)
  STARTS,      (* what the clock may show when the times begin             *)
  STOP,        (* INTERVAL_TIME_MOTOR_STOP (500 ms)                        *)
  SCAN,        (* INTERVAL_SCAN_STS_GENERAL_MC (200 ms)                    *)
  DELAY,       (* tea.delay_sen0                                           *)
  HANDLING,    (* handling_time_idx_plan, the longest handling time        *)
  MAX_TIME     (* how long the times are explored                          *)

ASSUME TimesAssumption ==
  /\ {STOP, SCAN, DELAY, HANDLING, MAX_TIME} \subseteq Nat
  /\ WORD \in Nat /\ MAX_TIME < WORD /\ STARTS \subseteq 0 .. WORD - 1

VARIABLES
  millis,
  ucNonSewingMc,      (* a general machine: its sensor shows that it runs  *)
  bMotorRun,
  first, final,       (* ulTimeSen0HappnedFirst, ulTimeSen0HappnedFinal    *)
  ulGenScanOld,
  at, ulMil,          (* where the loop is, and the time it has read       *)
  bCalHandlingTime, ulHanTimeTmp,
  motor_runtime, handling_time,
  uptime,             (* history: the time since the times began           *)
  late                (* history: a stitch since the loop read the clock   *)

motor    == <<bMotorRun, first, final>>
handling == <<bCalHandlingTime, ulHanTimeTmp, handling_time>>
tvars == <<millis, ucNonSewingMc, motor, ulGenScanOld, at, ulMil, handling, motor_runtime,
           uptime, late>>

Since(t, u) == (t + WORD - u) % WORD

TimesInit ==
  /\ millis \in STARTS
  /\ ucNonSewingMc \in BOOLEAN
  /\ bMotorRun = FALSE /\ first = millis /\ final = millis
  /\ ulGenScanOld = millis
  /\ at = "begin" /\ ulMil = millis
  /\ bCalHandlingTime = FALSE /\ ulHanTimeTmp = millis
  /\ motor_runtime = 0 /\ handling_time = 0
  /\ uptime = 0 /\ late = FALSE

-----------------------------------------------------------------------------

Millisecond ==
  /\ uptime < MAX_TIME
  /\ uptime' = uptime + 1
  /\ millis' = (millis + 1) % WORD
  /\ UNCHANGED <<ucNonSewingMc, motor, ulGenScanOld, at, ulMil, handling, motor_runtime, late>>

(* detFalling, the interrupt.                                              *)
Falling ==
  /\ Since(millis, final) >= DELAY
  /\ final' = millis
  /\ first' = IF bMotorRun THEN first ELSE millis
  /\ bMotorRun' = TRUE
  /\ late' = TRUE
  /\ UNCHANGED <<millis, ucNonSewingMc, ulGenScanOld, at, ulMil, handling, motor_runtime, uptime>>

-----------------------------------------------------------------------------
(* FunOperation::loop.                                                     *)

Begin ==
  /\ at = "begin"
  /\ at' = "check"
  /\ ulMil' = millis
  /\ late' = FALSE
  /\ UNCHANGED <<millis, ucNonSewingMc, motor, ulGenScanOld, handling, motor_runtime, uptime>>

(* A defect that StopsWhenStill must catch: the time since the first       *)
(* stitch of the run.                                                      *)
CheckSewingFirst ==
  /\ ~ucNonSewingMc
  /\ at' = IF bMotorRun /\ Since(ulMil, first) > STOP THEN "add" ELSE "handle"
  /\ UNCHANGED ulGenScanOld

CheckSewing ==
  /\ ~ucNonSewingMc
  /\ at' = IF bMotorRun /\ Since(ulMil, final) > STOP THEN "add" ELSE "handle"
  /\ UNCHANGED ulGenScanOld

CheckGeneral ==
  /\ ucNonSewingMc
  /\ IF bMotorRun /\ Since(ulMil, ulGenScanOld) > SCAN
       THEN ulGenScanOld' = ulMil /\ at' \in {"add", "handle"}
       ELSE at' = "handle" /\ UNCHANGED ulGenScanOld

Check ==
  /\ at = "check"
  /\ CheckSewing \/ CheckGeneral
  /\ UNCHANGED <<millis, ucNonSewingMc, motor, ulMil, handling, motor_runtime, uptime, late>>

(* The end of a run: its last stitch, or what the clock showed.            *)
End == IF ucNonSewingMc THEN ulMil ELSE final

Add ==
  /\ at = "add"
  /\ motor_runtime' = motor_runtime + (IF End > first THEN End - first ELSE 0)
  /\ at' = "stop"
  /\ UNCHANGED <<millis, ucNonSewingMc, motor, ulGenScanOld, ulMil, handling, uptime, late>>

(* A defect that TimesWithinUptime must catch: the run goes on.            *)
StopForgotten ==
  /\ at = "stop"
  /\ ulHanTimeTmp' = ulMil /\ bCalHandlingTime' = TRUE
  /\ at' = "handle"
  /\ UNCHANGED <<millis, ucNonSewingMc, motor, ulGenScanOld, ulMil, handling_time,
                 motor_runtime, uptime, late>>

Stop ==
  /\ at = "stop"
  /\ bMotorRun' = FALSE
  /\ ulHanTimeTmp' = ulMil /\ bCalHandlingTime' = TRUE
  /\ at' = "handle"
  /\ UNCHANGED <<millis, ucNonSewingMc, first, final, ulGenScanOld, ulMil, handling_time,
                 motor_runtime, uptime, late>>

(* Handling lasts until the motor runs again, but no longer than planned.  *)
Handle ==
  /\ at = "handle"
  /\ at' = "begin"
  /\ IF bCalHandlingTime /\ (bMotorRun \/ Since(ulMil, ulHanTimeTmp) > HANDLING)
       THEN /\ bCalHandlingTime' = FALSE
            /\ handling_time' = handling_time +
                 (IF ~bMotorRun THEN HANDLING
                  ELSE IF ulMil > ulHanTimeTmp THEN ulMil - ulHanTimeTmp ELSE 0)
       ELSE UNCHANGED <<bCalHandlingTime, handling_time>>
  /\ UNCHANGED <<millis, ucNonSewingMc, motor, ulGenScanOld, ulMil, ulHanTimeTmp, motor_runtime,
                 uptime, late>>

TimesNext == Millisecond \/ Falling \/ Begin \/ Check \/ Add \/ Stop \/ Handle

TimesSpec == TimesInit /\ [][TimesNext]_tvars

-----------------------------------------------------------------------------
(* The clock wrapped since the times began.                                *)
Wrapped == millis < uptime

(* Neither time is ever longer than the device has been on: no stretch of  *)
(* it is counted twice as running, or twice as handling.  Only of a        *)
(* general machine a run that begins in the very millisecond of the wrap   *)
(* may be counted from a clock read before it.                             *)
TimesWithinUptime ==
  ~(ucNonSewingMc /\ Wrapped) => motor_runtime <= uptime /\ handling_time <= uptime

(* A sewing machine counts as stopped only when no stitch came for half a  *)
(* second, or when one came after the loop had read the clock: the         *)
(* difference then wraps, or the check is already past.                    *)
StopsWhenStill ==
  [][ bMotorRun /\ ~bMotorRun' /\ ~ucNonSewingMc => Since(millis, final) > STOP \/ late ]_tvars

=============================================================================
