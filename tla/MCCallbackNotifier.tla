------------------------- MODULE MCCallbackNotifier -------------------------
(* Instances of CallbackNotifier for TLC.                                  *)
EXTENDS CallbackNotifier
=============================================================================
