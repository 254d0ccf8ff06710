----------------------------- MODULE Dispatcher -----------------------------
(***************************************************************************)
(* DispatchConcurrentThrottled (internal/domain/pipeline/dispatcher.go):   *)
(* the loop that hands a batch of payloads to sendFn, each in a goroutine  *)
(* of its own, paced by a throttle and bounded by a semaphore channel.     *)
(* The context may be cancelled at any moment.                             *)
(***************************************************************************)
EXTENDS Integers, FiniteSets

CONSTANTS N,                \* len(payloads)
          InFlightSettings  \* the maxInFlight arguments to consider

ASSUME DispatcherConstants == N \in Nat /\ InFlightSettings \subseteq Int

\* The outcomes of a payload: sendFn succeeded or failed, the throttle refused
\* (context.DeadlineExceeded), or the context was cancelled (ctx.Err()).
Sent == {"ok", "failed"}
NotSent == {"deadline", "cancelled"}
Unset == "unset"

Payloads == 1..N

VARIABLES
    limit,      \* the argument maxInFlight
    cancelled,  \* ctx.Err() # nil
    pc,         \* where the loop is
    i,          \* the loop index
    sem,        \* len(sem), the slots taken
    results,    \* the result slice
    gor         \* state of the goroutine of each payload

vars == <<limit, cancelled, pc, i, sem, results, gor>>

\* if maxInFlight <= 0 { maxInFlight = 256 }
Capacity(m) == IF m <= 0 THEN 256 ELSE m

Init ==
    /\ limit \in InFlightSettings
    /\ cancelled = FALSE
    /\ pc = "top"
    /\ i = 1
    /\ sem = 0
    /\ results = [k \in Payloads |-> Unset]
    /\ gor = [k \in Payloads |-> "none"]

\* results[j] = ctx.Err() for j = i .. len(payloads)-1
FillCancelled ==
    results' = [k \in Payloads |-> IF k >= i THEN "cancelled" ELSE results[k]]

-----------------------------------------------------------------------------
(* The loop.                                                               *)

\* The range is exhausted, or the context is seen cancelled at the top.
LoopTop ==
    /\ pc = "top"
    /\ \/ /\ i > N
          /\ pc' = "wait"
          /\ UNCHANGED results
       \/ /\ i <= N /\ cancelled
          /\ FillCancelled
          /\ pc' = "wait"
       \/ /\ i <= N /\ ~cancelled
          /\ pc' = "throttle"
          /\ UNCHANGED results
    /\ UNCHANGED <<limit, cancelled, i, sem, gor>>

\* throttle.Acquire lets the payload through; a nil throttle always does.
ThrottleAllows ==
    /\ pc = "throttle"
    /\ pc' = "select"
    /\ UNCHANGED <<limit, cancelled, i, sem, results, gor>>

\* Mutant: the refused payload is sent all the same.
ThrottleRefusesAndSends ==
    /\ pc = "throttle"
    /\ results' = [results EXCEPT ![i] = "deadline"]
    /\ pc' = "select"
    /\ UNCHANGED <<limit, cancelled, i, sem, gor>>

\* throttle.Acquire gives up: the payload is skipped, the loop goes on.
ThrottleRefuses ==
    /\ pc = "throttle"
    /\ results' = [results EXCEPT ![i] = "deadline"]
    /\ i' = i + 1
    /\ pc' = "top"
    /\ UNCHANGED <<limit, cancelled, sem, gor>>

\* select, case <-ctx.Done()
SelectCancelled ==
    /\ pc = "select" /\ cancelled
    /\ FillCancelled
    /\ pc' = "wait"
    /\ UNCHANGED <<limit, cancelled, i, sem, gor>>

\* Mutant: a slot more than the capacity.
SelectSlotOffByOne ==
    /\ pc = "select" /\ sem <= Capacity(limit)
    /\ sem' = sem + 1
    /\ pc' = "recheck"
    /\ UNCHANGED <<limit, cancelled, i, results, gor>>

\* select, case sem <- struct{}{}; both cases may be ready.
SelectSlot ==
    /\ pc = "select" /\ sem < Capacity(limit)
    /\ sem' = sem + 1
    /\ pc' = "recheck"
    /\ UNCHANGED <<limit, cancelled, i, results, gor>>

\* The context is looked at once more; the slot just taken is not given back.
RecheckCancelled ==
    /\ pc = "recheck" /\ cancelled
    /\ FillCancelled
    /\ pc' = "wait"
    /\ UNCHANGED <<limit, cancelled, i, sem, gor>>

\* wg.Add(1); go func(idx, payload)
Spawn ==
    /\ pc = "recheck" /\ ~cancelled
    /\ gor' = [gor EXCEPT ![i] = "sending"]
    /\ i' = i + 1
    /\ pc' = "top"
    /\ UNCHANGED <<limit, cancelled, sem, results>>

Active(k) == gor[k] \in {"sending", "releasing", "finishing"}

\* Mutant: the call does not wait for its goroutines.
ReturnEarly ==
    /\ pc = "wait"
    /\ pc' = "returned"
    /\ UNCHANGED <<limit, cancelled, i, sem, results, gor>>

\* wg.Wait(); return results
Return ==
    /\ pc = "wait"
    /\ \A k \in Payloads : ~Active(k)
    /\ pc' = "returned"
    /\ UNCHANGED <<limit, cancelled, i, sem, results, gor>>

-----------------------------------------------------------------------------
(* The goroutine of payload k.                                             *)

\* results[idx] = sendFn(ctx, idx, payload)
SendReturns(k) ==
    /\ gor[k] = "sending"
    /\ \E o \in Sent : results' = [results EXCEPT ![k] = o]
    /\ gor' = [gor EXCEPT ![k] = "releasing"]
    /\ UNCHANGED <<limit, cancelled, pc, i, sem>>

\* Mutant: the slot is kept.
ReleaseForgotten(k) ==
    /\ gor[k] = "releasing"
    /\ gor' = [gor EXCEPT ![k] = "finishing"]
    /\ UNCHANGED <<limit, cancelled, pc, i, sem, results>>

\* the second deferred call runs first: <-sem
Release(k) ==
    /\ gor[k] = "releasing"
    /\ sem' = sem - 1
    /\ gor' = [gor EXCEPT ![k] = "finishing"]
    /\ UNCHANGED <<limit, cancelled, pc, i, results>>

\* then wg.Done()
WgDone(k) ==
    /\ gor[k] = "finishing"
    /\ gor' = [gor EXCEPT ![k] = "done"]
    /\ UNCHANGED <<limit, cancelled, pc, i, sem, results>>

\* The caller's context is cancelled.
Cancel ==
    /\ ~cancelled /\ pc # "returned"
    /\ cancelled' = TRUE
    /\ UNCHANGED <<limit, pc, i, sem, results, gor>>

-----------------------------------------------------------------------------
Loop ==
    \/ LoopTop
    \/ ThrottleAllows
    \/ ThrottleRefuses
    \/ SelectCancelled
    \/ SelectSlot
    \/ RecheckCancelled
    \/ Spawn
    \/ Return

Goroutine(k) == SendReturns(k) \/ Release(k) \/ WgDone(k)

Terminated == pc = "returned" /\ UNCHANGED vars

Next == Loop \/ (\E k \in Payloads : Goroutine(k)) \/ Cancel \/ Terminated

SafetySpec == Init /\ [][Next]_vars

\* The loop and the goroutines are scheduled, throttle.Acquire returns and
\* sendFn returns (the HTTP client has a timeout).  Nobody need cancel.
Spec ==
    /\ SafetySpec
    /\ WF_vars(Loop)
    /\ \A k \in Payloads : WF_vars(Goroutine(k))

-----------------------------------------------------------------------------
(* Properties.                                                             *)

\* Type invariant: the loop variables, the slots, results and goroutines.
TypeOK ==
    /\ limit \in InFlightSettings
    /\ cancelled \in BOOLEAN
    /\ pc \in {"top", "throttle", "select", "recheck", "wait", "returned"}
    /\ i \in 1..(N + 1)
    /\ sem \in Nat
    /\ results \in [Payloads -> Sent \cup NotSent \cup {Unset}]
    /\ gor \in [Payloads -> {"none", "sending", "releasing", "finishing", "done"}]

\* At most maxInFlight calls of sendFn run at once, whatever is refused,
\* cancelled or released meanwhile.
InFlightBounded ==
    Cardinality({k \in Payloads : gor[k] = "sending"}) <= Capacity(limit)

\* A payload is reported sent (ok or failed) only after sendFn ran for it, and
\* reported refused or cancelled only when sendFn was and will never be called:
\* what the run's metrics count as failed before sending never reached the BPP.
OutcomeTellsWhetherSent ==
    \A k \in Payloads :
        /\ results[k] \in Sent => gor[k] \in {"releasing", "finishing", "done"}
        /\ results[k] \in NotSent => gor[k] = "none" /\ (k < i \/ pc \in {"wait", "returned"})
        /\ gor[k] \in {"releasing", "finishing", "done"} => results[k] \in Sent

\* The dispatcher implements BatchDispatch: one outcome per payload, all of
\* them set when the call returns, none changed afterwards.
Batch == INSTANCE BatchDispatch
           WITH Outcomes <- Sent \cup NotSent,
                outcome <- results,
                returned <- (pc = "returned")
ImplementsBatch == Batch!BatchSpec

\* The call returns, cancelled or not: a free slot always comes back to the
\* loop, although a cancelled loop keeps the slot it took last.
DispatchReturns == <>(pc = "returned")
=============================================================================
