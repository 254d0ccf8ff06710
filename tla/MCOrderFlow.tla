---------------------------- MODULE MCOrderFlow ----------------------------
(***************************************************************************)
(* Two sets of runs: short ones over many catalogs and ways to answer, and *)
(* one catalog at many rates and durations.                                *)
(***************************************************************************)
EXTENDS OrderFlow

\* Two items, the second with or without a name; locations and fulfillments, of the
\* items and of the provider, named or not.
Catalogs ==
    [id : {"p"}, locations : {<<>>, <<"">>, <<"l2", "l1">>},
     fulfillments : {<<>>, <<[id |-> ""]>>, <<[id |-> "f2"]>>,
                     <<[id |-> ""], [id |-> "f1"], [id |-> "f2"]>>},
     items : {<<[id |-> "i1", location_id |-> l, fulfillment_id |-> f],
                [id |-> i, location_id |-> m, fulfillment_id |-> g]>> :
              i \in {"", "i2"}, l \in {"", "l1"}, m \in {"", "l2"}, f, g \in {"", "f1", "f2"}}]

Plain ==
    [id |-> "p", locations |-> <<"l1">>, fulfillments |-> <<[id |-> "f1"]>>,
     items |-> <<[id |-> "i1", location_id |-> "l1", fulfillment_id |-> "f1"]>>]

MCScenes ==
    [rps : {10}, secs : {1}, enabled : {TRUE}, idx : {0, 1, 2, 9}, prov : Catalogs, counts : BOOLEAN,
     ends : BOOLEAN, name : {"", "Asha"}, lenient : BOOLEAN, slow : {0}]
    \cup
    [rps : 1..31, secs : 1..8, enabled : BOOLEAN, idx : {0}, prov : {Plain}, counts : {TRUE},
     ends : {TRUE}, name : {""}, lenient : BOOLEAN, slow : {0, 1, 2, 5, 13}]
=============================================================================
