------------------------------ MODULE MCUiPages ------------------------------
(* UiPages and InOutQueue for TLC.  The two share no variable, so each is  *)
(* explored by itself, the queue until its cards are sent; times of one to *)
(* three seconds keep the code's order of short and long ones.             *)
EXTENDS UiPages, InOutQueue

VARIABLE part

MCWait == [p \in Timed |-> IF p = "TAG_WRITE" THEN 3 ELSE IF p \in Brief THEN 1 ELSE 2]

MCInit == Init /\ QueueInit /\ part \in {"pages", "queue"}
MCNext ==
  /\ \/ part = "pages" /\ Next /\ UNCHANGED queue
     \/ part = "queue" /\ QueueNext /\ UNCHANGED vars
     \/ part = "queue" /\ read = MAX_CARDS /\ qFont = qRear /\ UNCHANGED <<vars, queue>>
  /\ UNCHANGED part

MCSpec == MCInit /\ [][MCNext]_<<vars, queue, part>> /\ WF_vars(part = "pages" /\ Second)
=============================================================================
