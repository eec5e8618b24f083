------------------------------ MODULE MCNewDay ------------------------------
(* NewDay and Stamps for TLC.  The two share no variable, so each is       *)
(* explored by itself, the stamps until MAX_UPTIME.  Three slots and a     *)
(* device that was restarted with its indices at the second, so that       *)
(* usQFontStart is in the middle of the ring and the records of one boot   *)
(* can pass its end; days of three hours of three minutes of three         *)
(* seconds, explored for more than one.                                    *)
EXTENDS NewDay, Stamps

VARIABLE part

MCValues == {7}
MCOutput == {"OUTPUT"}
MCConfigs == {TRUE}
MCPlans == {2}

MCInit ==
  /\ Init /\ StampsInit /\ part \in {"days", "stamps"}
  /\ part = "days" => now = 0
MCNext ==
  /\ \/ part = "days" /\ Next /\ UNCHANGED svars
     \/ part = "stamps" /\ StampsNext /\ UNCHANGED vars
     \/ part = "stamps" /\ uptime = MAX_UPTIME /\ UNCHANGED <<vars, svars>>
     \/ raced /\ UNCHANGED <<vars, svars>>
  /\ UNCHANGED part

(* A ring that was raced with promises nothing until it is reset: from     *)
(* there on only the rest of the handler and what empties the ring is      *)
(* followed.                                                               *)
UntilReset == raced => ~raced' \/ (pc # "idle" /\ pc' # pc) \/ UNCHANGED vars

MCSpec == MCInit /\ [][MCNext /\ UntilReset]_<<vars, svars, part>>

(* States are told apart by what can still be read: the slots that wait,   *)
(* that a date may stamp, or that is being written, and the stamps of the  *)
(* records of this boot.                                                   *)
Live == IF pc = "drop" THEN Slot
        ELSE Waiting(front, rear) \cup From(usQFontStart)
               \cup (IF pc = "idle" THEN {} ELSE {front})

Shape(r) == IF r = Blank THEN Blank ELSE <<r.type, r.data, r.plan>>
Seen(r)  == IF r # Blank /\ r.fresh THEN r ELSE Shape(r)

MCView ==
  <<time, bGetDatetime, config, check_data_machine, day_reset, front, rear, cnt, data_day,
    scrambled, apart, raced, usQFontStart, flags, local, slipped, queued,
    [i \in Live |-> Seen(slot[i])], overtaken \cap Live, flash_info,
    [flash_data EXCEPT !.slot =
       [i \in Waiting(flash_data.front, flash_data.rear) |-> Shape(flash_data.slot[i])]],
    svars, part>>
=============================================================================
