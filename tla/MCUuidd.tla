------------------------------ MODULE MCUuidd ------------------------------
(* Model checking of Uuidd. *)
EXTENDS Uuidd
=============================================================================
