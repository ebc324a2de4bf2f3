---------------------------- MODULE MCPtySession ----------------------------
(* Model checking of PtySession. *)
EXTENDS PtySession

MCSessions == {[maxsz |-> 0, hup |-> TRUE], [maxsz |-> 2, hup |-> FALSE]}
=============================================================================
