--------------------------- MODULE MCRateLimiter ---------------------------
(* Two dispatch loops of one session, as two overlapping starts make        *)
(* possible, with different rates, whose calls reach Redis out of order.    *)
(* A bucket fills in two ticks and expires three ticks after its last use,  *)
(* the least that the assumption allows.                                    *)
EXTENDS RateLimiter, TLC

CONSTANTS c1, c2, s1

MCSessionOf == [c \in Callers |-> s1]
MCInterval == c1 :> 1 @@ c2 :> 2
=============================================================================
