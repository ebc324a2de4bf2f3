--------------------------- MODULE MCUuidClients ----------------------------
(* Model checking of UuidClients, and of the clock under it, UuidCont. *)
EXTENDS UuidClients
=============================================================================
