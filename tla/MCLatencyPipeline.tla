-------------------------- MODULE MCLatencyPipeline -------------------------
(* Instance of LatencyPipeline for TLC.                                     *)
EXTENDS LatencyPipeline
=============================================================================
