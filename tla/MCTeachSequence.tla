--------------------------- MODULE MCTeachSequence ---------------------------
(* TeachSequence for TLC.  Teaching: stitches and presses for a delay, one *)
(* process and no server, areas of two steps so that a worker's third one  *)
(* meets a full area.  Rounds: stitches only, two processes, sequences of  *)
(* the server with one and two steps.  Counting: all three signals, one    *)
(* process, sequences of one and two steps and an empty one.               *)
EXTENDS TeachSequence

MCStitch == {SEN0}
MCStitchDelay == {SEN0, DLY}
MCAllSignals == {DLY, SEN0, SEN1}

MCNoServer == {}
MCServerStitches == {<<[id |-> SEN0, value |-> 1]>>,
                     <<[id |-> SEN0, value |-> 1], [id |-> SEN0, value |-> 1]>>}
MCServer == {<<>>, <<[id |-> DLY, value |-> 1]>>,
             <<[id |-> SEN0, value |-> 1], [id |-> DLY, value |-> 1]>>}

(* What a step of the teaching run may still depend on: not the values of  *)
(* seqOutRun that it sets before it reads them, nor what the worker did    *)
(* once that is no longer compared.                                        *)
Running ==
  IF ucMode = "TEA" THEN <<>>
  ELSE IF run_step = "WAIT" THEN <<run_step, wait>> ELSE <<run_step>>
Compared == IF rushed \/ disturbed THEN <<>> ELSE <<worked, waiting>>

MCTaught ==
  <<ucMode, teaching, save, addr, start_end, changed, area, store, plan, sensors, paused,
    teach_page, flash, rushed, disturbed, torn, Running, Compared>>
=============================================================================
