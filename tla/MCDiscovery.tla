---------------------------- MODULE MCDiscovery ----------------------------
(* Model values for the search requests and callbacks of one session. *)
EXTENDS Discovery
=============================================================================
