----------------------------- MODULE MCSessions -----------------------------
(* Model values for the requests about the sessions of one BPP. *)
EXTENDS Sessions
=============================================================================
