---------------------------- MODULE MCDispatcher ----------------------------
(* Instance of Dispatcher for TLC: limits below, at and above the number of *)
(* payloads, and a limit that falls back to the default.                    *)
EXTENDS Dispatcher

MCInFlightSettings == {0, 1, 2, 5}
=============================================================================
