----------------------------- MODULE LossyFifo -----------------------------
(***************************************************************************)
(* What the product-data buffer of the device promises, with no EEPROM,    *)
(* indices or sectors in sight: a bounded FIFO queue of count records that *)
(* prefers new records to old ones, and a saved copy of it that survives a *)
(* loss of power.  Its writers do not exclude each other: a clash spoils   *)
(* the queue, and nothing is promised of it until it is empty or restored. *)
(* ProductQueue implements it in an EEPROM ring.                           *)
(***************************************************************************)
EXTENDS Naturals, Sequences

CONSTANTS Record,    (* the count records                                  *)
          Capacity   (* how many records it holds at most, at least one    *)

VARIABLES fifo,      (* the records waiting to be published, oldest first  *)
          exact,     (* it was not spoilt                                  *)
          saved,     (* the records a restart would find                   *)
          savedExact,(* they were not spoilt either                        *)
          accepted   (* how many records were ever put into it             *)

copy == <<saved, savedExact>>
vars == <<fifo, exact, copy, accepted>>

Init == fifo = <<>> /\ exact = TRUE /\ saved = <<>> /\ savedExact = TRUE /\ accepted = 0

(* A full buffer makes room by forgetting its oldest record, no more. *)
Put(r) == /\ accepted' = accepted + 1
          /\ UNCHANGED <<exact, copy>>
          /\ exact => fifo' = Append(IF Len(fifo) = Capacity THEN Tail(fifo) ELSE fifo, r)

Get == /\ exact => fifo # <<>> /\ fifo' = Tail(fifo)
       /\ UNCHANGED <<exact, copy, accepted>>

Clear == fifo' = <<>> /\ exact' = TRUE /\ UNCHANGED <<copy, accepted>>

(* Two writers clash, one of which may have put a record. *)
Spoil == /\ exact' = FALSE
         /\ accepted' \in {accepted, accepted + 1}
         /\ UNCHANGED copy

Save == /\ savedExact' \in BOOLEAN
        /\ savedExact' => exact /\ saved' = fifo
        /\ UNCHANGED <<fifo, exact, accepted>>

(* A restart resumes from the saved copy. *)
Restart == fifo' = saved /\ exact' = savedExact /\ UNCHANGED <<copy, accepted>>

(* The only copy is rewritten in place: power lost meanwhile loses it all. *)
Wipe == fifo' = <<>> /\ exact' = TRUE /\ saved' = <<>> /\ savedExact' = TRUE
        /\ UNCHANGED accepted

Next == \/ \E r \in Record : Put(r)
        \/ Get
        \/ Clear
        \/ Spoil
        \/ Save
        \/ Restart
        \/ Wipe

Spec == Init /\ [][Next]_vars
=============================================================================
