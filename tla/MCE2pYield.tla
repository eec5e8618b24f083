----------------------------- MODULE MCE2pYield -----------------------------
(* E2pYield and MachineTimes for TLC: what loop() does while callbacks and *)
(* interrupts come in between.  The two share no variable, so each is      *)
(* explored by itself, the times until MAX_TIME has passed.  Three slots,  *)
(* and bytes of two values, so that the index carries from its low to its  *)
(* high byte within the ring; a clock of 16 ms that starts at 0, or a      *)
(* little before it wraps.                                                 *)
EXTENDS E2pYield, MachineTimes

VARIABLE part

MCStarts == {0, 13}

MCInit ==
  /\ Init /\ TimesInit /\ part \in {"ring", "times"}
  /\ part = "ring" => millis = 0 /\ ucNonSewingMc
MCNext ==
  /\ \/ part = "ring" /\ Next /\ UNCHANGED tvars
     \/ part = "times" /\ TimesNext /\ UNCHANGED vars
  /\ UNCHANGED part

MCSpec == MCInit /\ [][MCNext]_<<vars, tvars, part>>
=============================================================================
