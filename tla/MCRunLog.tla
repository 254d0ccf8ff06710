------------------------------ MODULE MCRunLog ------------------------------
(***************************************************************************)
(* Two transactions; the first is answered twice, the second never.        *)
(***************************************************************************)
EXTENDS RunLog

MCOf == [h \in Handlers |-> CHOOSE t \in Txns : TRUE]
=============================================================================
