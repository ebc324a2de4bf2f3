---------------------------- MODULE MCUuidClock ----------------------------
(***************************************************************************)
(* Two threads; the clock moves over three microseconds and is set back     *)
(* once.  A call asks for 1 or 10 UUIDs: 10 reserve a whole microsecond, and  *)
(* one more call in that microsecond exhausts MAX_ADJUSTMENT.               *)
(***************************************************************************)
EXTENDS UuidClock, TLC

CONSTANTS p1, p2

Threads == {p1, p2}
Calls == {1, 10}
Symmetry == Permutations(Threads)
=============================================================================
