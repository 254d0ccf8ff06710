---------------------------- MODULE BatchDispatch ----------------------------
(***************************************************************************)
(* What the callers of DispatchConcurrentThrottled rely on                 *)
(* (internal/domain/pipeline/dispatcher.go): a batch of N payloads gets    *)
(* exactly one outcome each, in any order and possibly several at once,    *)
(* and the call returns only when every payload has its outcome, after     *)
(* which the results no longer change.  RunSelectStage, countSuccess and   *)
(* updateMetrics read the returned slice without any lock.                 *)
(***************************************************************************)
EXTENDS Naturals

CONSTANTS N,          \* number of payloads
          Outcomes,   \* what can be reported of a payload
          Unset       \* the zero DispatchResult, not an outcome

VARIABLES outcome,    \* [1..N -> Outcomes or Unset]
          returned    \* the call has returned

batchVars == <<outcome, returned>>

BatchInit ==
    /\ outcome = [k \in 1..N |-> Unset]
    /\ returned = FALSE

\* Some payloads that have no outcome yet get one.
Settle ==
    /\ ~returned
    /\ \E S \in SUBSET {k \in 1..N : outcome[k] = Unset}, o \in Outcomes :
          outcome' = [k \in 1..N |-> IF k \in S THEN o ELSE outcome[k]]
    /\ UNCHANGED returned

ReturnBatch ==
    /\ ~returned
    /\ \A k \in 1..N : outcome[k] # Unset
    /\ returned' = TRUE
    /\ UNCHANGED outcome

BatchNext == Settle \/ ReturnBatch

BatchSpec == BatchInit /\ [][BatchNext]_batchVars
=============================================================================
