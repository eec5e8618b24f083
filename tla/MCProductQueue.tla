--------------------------- MODULE MCProductQueue ---------------------------
(* ProductQueue for TLC.  The ring run has three slots, so that four       *)
(* records wrap it and push the oldest out, and asks of the ring only: all *)
(* count nought, and differ by their type.  The plans run has two          *)
(* processes whose counters and records mix.                               *)
EXTENDS ProductQueue

CONSTANT MAX_CALLS  (* bound on the messages and resets that come          *)

VARIABLE calls      (* how many came                                       *)

MCSteps == {1}

Call == UpdateCount \/ UpdateCountOther \/ GetPlan \/ ResetProduction

MCInit == Init /\ calls = 0
MCNext ==
  \/ calls < MAX_CALLS /\ calls' = calls + 1 /\ Call
  \/ /\ LoopBegins \/ LoopGoesOn \/ RequestCommit \/ CommitInfo \/ CommitData
         \/ PowerLoss \/ PowerLossInCommit
     /\ UNCHANGED calls

MCSpec == MCInit /\ [][MCNext]_<<vars, calls>>

Held   == Queue(front, RearSeen, slot)
Stored == Queue(flash.front, flash.rear, flash.slot)

(* What the runs tell states apart by: the records between the indices,    *)
(* not the slots that are free, for no handler reads a free slot before it *)
(* writes it.                                                              *)
MCRing ==
  <<front, rear, Held, cnt, shown, plan, resetting, flags, local, corrected, raced, queued,
    flash.init, flash.front, flash.rear, Stored, flash.raced, flash_idx, calls>>

(* In the plans run, not where in the ring they lie either, for all slots  *)
(* go round the ring alike; and nothing of a ring that is spoilt, for what *)
(* is asked then does not depend on it.                                    *)
MCPlans ==
  <<IF raced THEN {} ELSE <<Held, corrected>>, cnt, shown, plan, resetting, flags,
    pc, adding, raced, queued, flash.init, flash.cnt, flash.raced, flash_idx,
    IF flash.raced THEN {} ELSE <<Stored, flash.corrected>>, calls>>
=============================================================================
