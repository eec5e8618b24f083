---------------------------- MODULE MCPublisher -----------------------------
(* Publisher for TLC: three records, of which the second has a bad year,   *)
(* time out after two ticks and are sent again once.                       *)
EXTENDS Publisher

MCMisdated == {2}
=============================================================================
