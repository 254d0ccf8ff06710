------------------------- MODULE MCPreorderPipeline -------------------------
(* Instance of PreorderPipeline for TLC: two sessions with one payload each, *)
(* both with the same transaction_id, one with it or neither; and a run of   *)
(* two payloads beside an empty one, with a transaction_id and without.      *)
EXTENDS PreorderPipeline, TLC

CONSTANTS r1, r2, x

Pair(a, b) == r1 :> a @@ r2 :> b
MCLoads ==
    {<<Pair(1, 1), Pair(x, x)>>, <<Pair(1, 1), Pair(x, NoTxn)>>,
     <<Pair(1, 1), Pair(NoTxn, NoTxn)>>, <<Pair(2, 0), Pair(x, NoTxn)>>,
     <<Pair(2, 0), Pair(NoTxn, NoTxn)>>}
=============================================================================
