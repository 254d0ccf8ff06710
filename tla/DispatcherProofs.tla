-------------------------- MODULE DispatcherProofs --------------------------
(***************************************************************************)
(* Proofs about the dispatch of a batch: first Dispatcher, for any number  *)
(* of payloads and any maxInFlight, then RateLimiter, the throttle that    *)
(* its loop calls, for any number of callers and any capacities.  The two  *)
(* state machines share no variable and no definition.                     *)
(*                                                                         *)
(* The bound on concurrent sends needs Slots (the semaphore has at least   *)
(* one slot per goroutine that holds one, and one for the loop between     *)
(* taking it and spawning); the refinement of BatchDispatch needs Progress *)
(* (which payloads have an outcome, given the loop index).                 *)
(*                                                                         *)
(* The bound on the rate needs Timely, Solvent and Covered: calls carry    *)
(* times that may go backwards, so a level may be negative and a bucket    *)
(* may expire while it owes; what it gave out is covered all the same.     *)
(* The pace of a run needs Scheduled.                                      *)
(***************************************************************************)
EXTENDS Dispatcher, RateLimiter, FiniteSetTheorems, TLAPS

\* Goroutines that have a slot of the semaphore.
Holders == {k \in Payloads : gor[k] \in {"sending", "releasing"}}

Slots ==
    /\ Cardinality(Holders) + (IF pc = "recheck" THEN 1 ELSE 0) <= sem
    /\ sem <= Capacity(limit)

Progress ==
    /\ pc \in {"throttle", "select", "recheck"} => i <= N
    /\ \A k \in Payloads : k < i => results[k] # Unset \/ gor[k] = "sending"
    /\ \A k \in Payloads : k >= i =>
          /\ gor[k] = "none"
          /\ results[k] = IF pc \in {"wait", "returned"} THEN "cancelled" ELSE Unset
    /\ \A k \in Payloads : gor[k] = "sending" => results[k] = Unset
    /\ pc = "returned" => \A k \in Payloads : ~Active(k)

\* The inductive invariant.
IInv == TypeOK /\ OutcomeTellsWhetherSent /\ Progress /\ Slots

-----------------------------------------------------------------------------
\* The initial states satisfy the inductive invariant.
LEMMA InitIInv == Init => IInv
<1> SUFFICES ASSUME Init PROVE IInv
  OBVIOUS
<1> USE DispatcherConstants DEF Payloads
<1>1. TypeOK
  <2>1. results \in [Payloads -> Sent \cup NotSent \cup {Unset}]
    BY DEF Init
  <2>2. gor \in [Payloads -> {"none", "sending", "releasing", "finishing", "done"}]
    BY DEF Init
  <2>3. i \in 1..(N + 1) /\ sem \in Nat
    BY DEF Init
  <2>4. cancelled \in BOOLEAN
    BY DEF Init
  <2> QED BY <2>1, <2>2, <2>3, <2>4 DEF Init, TypeOK
<1>2. OutcomeTellsWhetherSent
  BY DEF Init, OutcomeTellsWhetherSent, Sent, NotSent, Unset
<1>3. Progress
  BY DEF Init, Progress, Active
<1>4. Holders = {}
  BY DEF Init, Holders
<1>5. Slots
  BY <1>4, FS_EmptySet DEF Init, Slots, Capacity
<1> QED BY <1>1, <1>2, <1>3, <1>5 DEF IInv

\* There are finitely many goroutines, so the slots can be counted.
LEMMA HoldersFinite == IsFiniteSet(Holders) /\ Cardinality(Holders) \in Nat
<1>1. IsFiniteSet(Payloads)
  BY DispatcherConstants, FS_Interval DEF Payloads
<1> QED BY <1>1, FS_Subset, FS_CardinalityType DEF Holders

\* A goroutine that is about to release has a slot to give back.
LEMMA HolderHasSlot ==
  ASSUME TypeOK, Slots, NEW k \in Payloads, gor[k] \in {"sending", "releasing"}
  PROVE  sem >= 1 /\ Cardinality(Holders) >= 1
<1>1. k \in Holders
  BY DEF Holders
<1>2. Cardinality(Holders) # 0
  BY <1>1, HoldersFinite, FS_EmptySet
<1> QED BY <1>2, HoldersFinite DEF Slots, TypeOK

\* The slots stay accounted for: the step that spawns passes the loop's slot to
\* the goroutine, the one that releases gives it back.
LEMMA SlotsStep == TypeOK /\ Progress /\ Slots /\ [Next]_vars => Slots'
<1> SUFFICES ASSUME TypeOK, Progress, Slots, [Next]_vars PROVE Slots'
  OBVIOUS
<1> USE DispatcherConstants, HoldersFinite
<1> DEFINE extra == IF pc = "recheck" THEN 1 ELSE 0
<1>0. /\ Cardinality(Holders) + extra <= sem /\ sem <= Capacity(limit) /\ sem \in Nat
      /\ Cardinality(Holders) \in Nat /\ Capacity(limit) \in Nat /\ limit \in Int
  BY DEF Slots, TypeOK, Capacity
<1>1. CASE UNCHANGED <<gor, sem, limit>> /\ pc' # "recheck"
  <2>1. Holders' = Holders
    BY <1>1 DEF Holders
  <2> QED BY <1>0, <1>1, <2>1 DEF Slots
<1>2. CASE UNCHANGED <<gor, sem, limit, pc>>
  <2>1. Holders' = Holders
    BY <1>2 DEF Holders
  <2> QED BY <1>0, <1>2, <2>1 DEF Slots
<1>3. CASE SelectSlot
  <2>1. Holders' = Holders
    BY <1>3 DEF SelectSlot, Holders
  <2> QED BY <1>0, <1>3, <2>1 DEF SelectSlot, Slots
<1>4. CASE Spawn
  <2>1. i \in Payloads /\ gor[i] = "none"
    BY <1>4 DEF Spawn, Progress, TypeOK, Payloads
  <2>2. Holders' = Holders \cup {i} /\ i \notin Holders
    BY <1>4, <2>1 DEF Spawn, Holders, TypeOK
  <2>3. Cardinality(Holders') = Cardinality(Holders) + 1
    BY <2>2, FS_AddElement
  <2> QED BY <1>0, <1>4, <2>3 DEF Spawn, Slots
<1>5. ASSUME NEW k \in Payloads, SendReturns(k) PROVE Slots'
  <2>1. Holders' = Holders
    BY <1>5 DEF SendReturns, Holders, TypeOK
  <2> QED BY <1>0, <1>5, <2>1 DEF SendReturns, Slots
<1>6. ASSUME NEW k \in Payloads, Release(k) PROVE Slots'
  <2>1. Holders' = Holders \ {k} /\ k \in Holders
    BY <1>6 DEF Release, Holders, TypeOK
  <2>2. Cardinality(Holders') = Cardinality(Holders) - 1
    BY <2>1, FS_RemoveElement
  <2> QED BY <1>0, <1>6, <2>2 DEF Release, Slots
<1>7. ASSUME NEW k \in Payloads, WgDone(k) PROVE Slots'
  <2>1. Holders' = Holders
    BY <1>7 DEF WgDone, Holders, TypeOK
  <2> QED BY <1>0, <1>7, <2>1 DEF WgDone, Slots
<1> QED
  BY <1>1, <1>2, <1>3, <1>4, <1>5, <1>6, <1>7
  DEF Next, Loop, Goroutine, LoopTop, ThrottleAllows, ThrottleRefuses, SelectCancelled,
      RecheckCancelled, Return, Cancel, Terminated, vars

\* The part of the invariant that is not about counting slots.
OInv == TypeOK /\ OutcomeTellsWhetherSent /\ Progress

\* A cancellation fills the rest of the slice.
LEMMA FillStep ==
  ASSUME IInv, pc \in {"top", "select", "recheck"}, i <= N, FillCancelled, pc' = "wait",
         UNCHANGED <<limit, cancelled, i, sem, gor>>
  PROVE  OInv'
<1> USE DispatcherConstants
<1>1. TypeOK'
  BY DEF IInv, TypeOK, FillCancelled, NotSent, Payloads
<1>2. OutcomeTellsWhetherSent'
  BY DEF IInv, TypeOK, OutcomeTellsWhetherSent, Progress, FillCancelled, Sent, NotSent, Payloads
<1>3. Progress'
  BY DEF IInv, TypeOK, Progress, FillCancelled, Unset, Payloads
<1> QED BY <1>1, <1>2, <1>3 DEF OInv

\* Every step keeps that part.
LEMMA StepOInv == IInv /\ [Next]_vars => OInv'
<1> SUFFICES ASSUME IInv, [Next]_vars PROVE OInv'
  OBVIOUS
<1> USE DispatcherConstants DEF Payloads
<1>1. CASE LoopTop
  <2>1. CASE i <= N /\ cancelled
    BY <1>1, <2>1, FillStep DEF LoopTop, IInv, TypeOK
  <2>2. CASE ~(i <= N /\ cancelled)
    <3>1. /\ results' = results
          /\ pc = "top"
          /\ pc' = (IF i > N THEN "wait" ELSE "throttle")
          /\ UNCHANGED <<limit, cancelled, i, sem, gor>>
      BY <1>1, <2>2 DEF LoopTop, IInv, TypeOK
    <3>2. TypeOK'
      BY <3>1 DEF IInv, TypeOK
    <3>3. OutcomeTellsWhetherSent'
      BY <3>1 DEF IInv, TypeOK, OutcomeTellsWhetherSent
    <3>4. Progress'
      BY <3>1 DEF IInv, TypeOK, Progress, Active
    <3> QED BY <3>2, <3>3, <3>4 DEF OInv
  <2> QED BY <2>1, <2>2
<1>2. CASE ThrottleAllows
  BY <1>2 DEF ThrottleAllows, IInv, OInv, TypeOK, OutcomeTellsWhetherSent, Progress, Active
<1>3. CASE ThrottleRefuses
  <2>1. i \in Payloads /\ pc = "throttle" /\ gor[i] = "none" /\ results[i] = Unset
    BY <1>3 DEF ThrottleRefuses, IInv, TypeOK, Progress
  <2>2. TypeOK'
    BY <1>3, <2>1 DEF ThrottleRefuses, IInv, TypeOK, NotSent
  <2>3. OutcomeTellsWhetherSent'
    BY <1>3, <2>1 DEF ThrottleRefuses, IInv, TypeOK, OutcomeTellsWhetherSent, Sent, NotSent
  <2>4. Progress'
    BY <1>3, <2>1 DEF ThrottleRefuses, IInv, TypeOK, Progress, Active, Unset
  <2> QED BY <2>2, <2>3, <2>4 DEF OInv
<1>4. CASE SelectCancelled
  BY <1>4, FillStep DEF SelectCancelled, IInv, Progress
<1>5. CASE SelectSlot
  BY <1>5 DEF SelectSlot, IInv, OInv, TypeOK, OutcomeTellsWhetherSent, Progress, Active
<1>6. CASE RecheckCancelled
  BY <1>6, FillStep DEF RecheckCancelled, IInv, Progress
<1>7. CASE Spawn
  <2>1. i \in Payloads /\ pc = "recheck" /\ gor[i] = "none" /\ results[i] = Unset
    BY <1>7 DEF Spawn, IInv, TypeOK, Progress
  <2>2. TypeOK'
    BY <1>7, <2>1 DEF Spawn, IInv, TypeOK
  <2>3. OutcomeTellsWhetherSent'
    BY <1>7, <2>1 DEF Spawn, IInv, TypeOK, OutcomeTellsWhetherSent, Sent, NotSent, Unset
  <2>4. Progress'
    BY <1>7, <2>1 DEF Spawn, IInv, TypeOK, Progress, Active, Unset
  <2> QED BY <2>2, <2>3, <2>4 DEF OInv
<1>8. CASE Return
  BY <1>8 DEF Return, IInv, OInv, TypeOK, OutcomeTellsWhetherSent, Progress, Active
<1>9. ASSUME NEW k \in Payloads, SendReturns(k) PROVE OInv'
  <2>1. PICK o \in Sent : results' = [results EXCEPT ![k] = o]
    BY <1>9 DEF SendReturns
  <2>2. gor[k] = "sending" /\ k < i /\ pc # "returned"
    BY <1>9 DEF SendReturns, IInv, TypeOK, Progress, Active
  <2>3. TypeOK'
    BY <1>9, <2>1 DEF SendReturns, IInv, TypeOK
  <2>4. OutcomeTellsWhetherSent'
    BY <1>9, <2>1, <2>2 DEF SendReturns, IInv, TypeOK, OutcomeTellsWhetherSent, Sent, NotSent
  <2>5. Progress'
    BY <1>9, <2>1, <2>2 DEF SendReturns, IInv, TypeOK, Progress, Active, Sent, Unset
  <2> QED BY <2>3, <2>4, <2>5 DEF OInv
<1>10. ASSUME NEW k \in Payloads, Release(k) PROVE OInv'
  <2>1. sem - 1 \in Nat
    BY <1>10, HolderHasSlot DEF Release, IInv, TypeOK
  <2> QED BY <1>10, <2>1
          DEF Release, IInv, OInv, TypeOK, OutcomeTellsWhetherSent, Progress, Active
<1>11. ASSUME NEW k \in Payloads, WgDone(k) PROVE OInv'
  BY <1>11 DEF WgDone, IInv, OInv, TypeOK, OutcomeTellsWhetherSent, Progress, Active
<1>12. CASE Cancel
  BY <1>12 DEF Cancel, IInv, OInv, TypeOK, OutcomeTellsWhetherSent, Progress, Active
<1>13. CASE UNCHANGED vars
  BY <1>13 DEF vars, IInv, OInv, TypeOK, OutcomeTellsWhetherSent, Progress, Active
<1> QED
  BY <1>1, <1>2, <1>3, <1>4, <1>5, <1>6, <1>7, <1>8, <1>9, <1>10, <1>11, <1>12, <1>13
  DEF Next, Loop, Goroutine, Terminated

\* Every step keeps the inductive invariant.
LEMMA StepIInv == IInv /\ [Next]_vars => IInv'
  BY StepOInv, SlotsStep DEF IInv, OInv

-----------------------------------------------------------------------------
\* The loop variables, results and goroutines always have their types.
THEOREM TypeCorrect == SafetySpec => []TypeOK
<1>1. IInv => TypeOK
  BY DEF IInv
<1> QED BY InitIInv, StepIInv, <1>1, PTL DEF SafetySpec

\* Never more than maxInFlight requests (256 by default) are being sent.
THEOREM InFlightIsBounded == SafetySpec => []InFlightBounded
<1>1. IInv => InFlightBounded
  <2> SUFFICES ASSUME IInv PROVE InFlightBounded
    OBVIOUS
  <2> DEFINE S == {k \in Payloads : gor[k] = "sending"}
  <2>1. Cardinality(S) <= Cardinality(Holders) /\ Cardinality(S) \in Nat
    <3>1. S \in SUBSET Holders
      BY DEF Holders
    <3> QED BY <3>1, HoldersFinite, FS_Subset, FS_CardinalityType
  <2>2. Cardinality(Holders) <= Capacity(limit)
    BY HoldersFinite, DispatcherConstants DEF IInv, Slots, TypeOK, Capacity
  <2>3. Capacity(limit) \in Nat
    BY DispatcherConstants DEF IInv, TypeOK, Capacity
  <2> QED BY <2>1, <2>2, <2>3, HoldersFinite DEF InFlightBounded
<1> QED BY InitIInv, StepIInv, <1>1, PTL DEF SafetySpec

\* The outcome of a payload tells whether it was handed to sendFn.
THEOREM OutcomeIsTruthful == SafetySpec => []OutcomeTellsWhetherSent
<1>1. IInv => OutcomeTellsWhetherSent
  BY DEF IInv
<1> QED BY InitIInv, StepIInv, <1>1, PTL DEF SafetySpec

\* The dispatcher implements BatchDispatch: exactly one outcome per payload, and
\* the call returns a complete slice that nothing writes to any more.
THEOREM DispatcherImplementsBatch == SafetySpec => ImplementsBatch
<1> USE DispatcherConstants DEF Payloads
<1>1. Init => Batch!BatchInit
  BY DEF Init, Batch!BatchInit
<1>2. IInv /\ [Next]_vars => [Batch!BatchNext]_Batch!batchVars
  <2> SUFFICES ASSUME IInv, [Next]_vars
               PROVE  Batch!BatchNext \/ UNCHANGED Batch!batchVars
    OBVIOUS
  <2>1. ASSUME pc \in {"top", "select", "recheck"}, pc' = "wait", FillCancelled
        PROVE  Batch!Settle
    <3> DEFINE S == {k \in 1..N : k >= i}
    <3>1. S \in SUBSET {k \in 1..N : results[k] = Unset}
      BY <2>1 DEF IInv, TypeOK, Progress
    <3>2. results' = [k \in 1..N |-> IF k \in S THEN "cancelled" ELSE results[k]]
      BY <2>1 DEF FillCancelled
    <3>3. "cancelled" \in Sent \cup NotSent
      BY DEF NotSent
    <3> HIDE DEF S
    <3> QED BY <2>1, <3>1, <3>2, <3>3 DEF Batch!Settle
  <2>2. ASSUME NEW k \in 1..N, NEW o \in Sent \cup NotSent, results[k] = Unset,
               results' = [results EXCEPT ![k] = o], pc # "returned", pc' # "returned"
        PROVE  Batch!Settle
    <3>1. {k} \in SUBSET {j \in 1..N : results[j] = Unset}
      BY <2>2
    <3>2. results' = [j \in 1..N |-> IF j \in {k} THEN o ELSE results[j]]
      BY <2>2 DEF IInv, TypeOK
    <3> QED BY <2>2, <3>1, <3>2 DEF Batch!Settle
  <2>3. CASE LoopTop
    BY <2>3, <2>1 DEF LoopTop, Batch!BatchNext, Batch!batchVars
  <2>4. CASE ThrottleRefuses
    <3>1. i \in 1..N /\ results[i] = Unset
      BY <2>4 DEF ThrottleRefuses, IInv, TypeOK, Progress
    <3> QED BY <2>2, <2>4, <3>1 DEF ThrottleRefuses, NotSent, Batch!BatchNext
  <2>5. CASE SelectCancelled
    BY <2>5, <2>1 DEF SelectCancelled, Batch!BatchNext
  <2>6. CASE RecheckCancelled
    BY <2>6, <2>1 DEF RecheckCancelled, Batch!BatchNext
  <2>7. CASE ThrottleAllows \/ SelectSlot \/ Spawn \/ Cancel \/ UNCHANGED vars
    BY <2>7 DEF ThrottleAllows, SelectSlot, Spawn, Cancel, vars, Batch!batchVars
  <2>8. CASE Return
    <3>1. \A k \in 1..N : results[k] # Unset
      BY <2>8 DEF Return, Active, IInv, TypeOK, Progress, Unset
    <3> QED BY <2>8, <3>1 DEF Return, Batch!BatchNext, Batch!ReturnBatch
  <2>9. ASSUME NEW k \in Payloads, SendReturns(k) PROVE Batch!BatchNext
    <3>1. PICK o \in Sent : results' = [results EXCEPT ![k] = o]
      BY <2>9 DEF SendReturns
    <3>2. results[k] = Unset /\ pc # "returned" /\ pc' = pc
      BY <2>9 DEF SendReturns, IInv, Progress, Active
    <3> QED BY <2>2, <3>1, <3>2 DEF Batch!BatchNext
  <2>10. ASSUME NEW k \in Payloads, Release(k) \/ WgDone(k) PROVE UNCHANGED Batch!batchVars
    BY <2>10 DEF Release, WgDone, Batch!batchVars
  <2> QED
    BY <2>3, <2>4, <2>5, <2>6, <2>7, <2>8, <2>9, <2>10
    DEF Next, Loop, Goroutine, Terminated
<1> QED BY InitIInv, StepIInv, <1>1, <1>2, PTL DEF SafetySpec, ImplementsBatch, Batch!BatchSpec

-----------------------------------------------------------------------------
(* The rate limiter and the pacing throttle. *)

\* A call on its way to Redis carries a time of the window, at most MaxDelay old.
Timely ==
    /\ mark <= clock
    /\ \A c \in Callers : at[c] = "eval" =>
        mark <= stamp[c] /\ stamp[c] <= clock /\ clock - stamp[c] <= MaxDelay

\* A bucket owes no more than what it gains until the time it was last used: a time
\* before `last' takes units away, but never more than that.
Solvent ==
    \A b \in exists :
        /\ touched[b] <= clock
        /\ level[b] + MaxTokens(b) * (touched[b] - last[b]) >= 0

\* What a bucket has left and what it gave out in the window is covered by its
\* capacity and by what it gained; once it has expired, the time until then covers
\* what it gave out, so that a full one may take its place.
Covered ==
    \A b \in Buckets :
        \/ passed[b] = 0
        \/ /\ b \in exists
           /\ level[b] + passed[b] * Unit <= MaxTokens(b) * (Unit + last[b] - mark)
        \/ /\ b \notin exists
           /\ passed[b] * Unit <= MaxTokens(b) * (clock - mark - MaxDelay)

\* Once a run has started there is a throttle, and a loop that is dispatching has one.
Handed ==
    \A c \in Callers :
        /\ at[c] # "new" => throttle \in Callers
        /\ at[c] \notin {"new", "started"} => using[c] \in Callers

BucketsInv == LimiterTypeOK /\ Handed /\ Timely /\ Solvent /\ Covered

-----------------------------------------------------------------------------
\* Both capacities, GlobalMaxRPS and the session's, are at least one token.
LEMMA MaxTokensType == \A b \in Buckets : MaxTokens(b) \in Nat \ {0}
  BY RateLimiterConstants DEF MaxTokens

\* A bucket gains no less in a longer time: the one fact of nonlinear arithmetic that
\* the bounds on rates rest on.
LEMMA TimesMonotone ==
    ASSUME NEW m \in Nat, NEW x \in Int, NEW y \in Int, x <= y
    PROVE  m * x <= m * y /\ m * x \in Int /\ m * y \in Int
  OBVIOUS

\* What acquire_bucket computes before it takes a token (rate_limiter.go:13-38): no
\* more than the capacity, and no more than the old level and the gain since `last',
\* which is negative when the call was overtaken.
LEMMA RefillBound ==
    ASSUME LimiterTypeOK, NEW b \in Buckets, NEW now \in 0..MaxClock
    PROVE  /\ Refill(b, now) \in Int
           /\ Refill(b, now) <= MaxTokens(b) * Unit
           /\ b \in exists => Refill(b, now) <= level[b] + MaxTokens(b) * (now - last[b])
           /\ b \in exists => \/ Refill(b, now) = MaxTokens(b) * Unit
                              \/ Refill(b, now) = level[b] + MaxTokens(b) * (now - last[b])
           /\ b \notin exists => Refill(b, now) = MaxTokens(b) * Unit
           /\ MaxTokens(b) * Unit \in Nat
<1> DEFINE m == MaxTokens(b)
<1>1. m \in Nat /\ Unit \in Nat
  BY MaxTokensType, RateLimiterConstants
<1>2. level[b] \in Int /\ last[b] \in Int /\ now \in Int
  BY RateLimiterConstants DEF LimiterTypeOK
<1>3. (now - last[b]) * m = m * (now - last[b]) /\ m * (now - last[b]) \in Int /\ m * Unit \in Nat
  BY <1>1, <1>2
<1> QED
  BY <1>1, <1>2, <1>3 DEF Refill, Min2

\* A call keeps the buckets solvent and covered, whatever time it carries.
LEMMA AcquireKeeps ==
    ASSUME BucketsInv, NEW touch \in SUBSET Buckets, NEW taken \in SUBSET touch,
           NEW now \in 0..MaxClock, mark <= now, now <= clock, clock - now <= MaxDelay,
           \A b \in taken : Enough(b, now),
           Acquire(touch, taken, now), UNCHANGED <<clock, mark>>
    PROVE  /\ level' \in [Buckets -> Int] /\ \A b \in Buckets : level'[b] <= MaxTokens(b) * Unit
           /\ last' \in [Buckets -> 0..MaxClock] /\ touched' \in [Buckets -> 0..MaxClock]
           /\ exists' \in SUBSET Buckets /\ passed' \in [Buckets -> Nat]
           /\ Solvent' /\ Covered'
<1>1. clock \in Nat /\ mark \in Nat /\ now \in Nat /\ MaxDelay \in Nat /\ Unit \in Nat \ {0}
      /\ clock \in 0..MaxClock
  BY RateLimiterConstants DEF BucketsInv, LimiterTypeOK
<1>2. ASSUME NEW b \in Buckets
      PROVE  /\ level'[b] \in Int /\ level'[b] <= MaxTokens(b) * Unit
             /\ last'[b] \in 0..MaxClock /\ touched'[b] \in 0..MaxClock /\ passed'[b] \in Nat
             /\ b \in exists' => /\ touched'[b] <= clock
                                 /\ level'[b] + MaxTokens(b) * (touched'[b] - last'[b]) >= 0
             /\ \/ passed'[b] = 0
                \/ /\ b \in exists'
                   /\ level'[b] + passed'[b] * Unit <= MaxTokens(b) * (Unit + last'[b] - mark)
                \/ /\ b \notin exists'
                   /\ passed'[b] * Unit <= MaxTokens(b) * (clock - mark - MaxDelay)
  <2> DEFINE m == MaxTokens(b)
             full == Refill(b, now)
  <2>1. m \in Nat \ {0} /\ level[b] \in Int /\ last[b] \in Nat /\ touched[b] \in Nat /\ passed[b] \in Nat
        /\ last[b] \in 0..MaxClock /\ touched[b] \in 0..MaxClock /\ level[b] <= m * Unit
    BY <1>2, MaxTokensType, RateLimiterConstants DEF BucketsInv, LimiterTypeOK
  <2>2. /\ full \in Int /\ full <= m * Unit /\ m * Unit \in Nat
        /\ b \in exists => full <= level[b] + m * (now - last[b])
        /\ b \in exists => full = m * Unit \/ full = level[b] + m * (now - last[b])
        /\ b \notin exists => full = m * Unit
    BY <1>2, RefillBound DEF BucketsInv
  <2>3. /\ b \in exists => touched[b] <= clock /\ level[b] + m * (touched[b] - last[b]) >= 0
        /\ \/ passed[b] = 0
           \/ b \in exists /\ level[b] + passed[b] * Unit <= m * (Unit + last[b] - mark)
           \/ b \notin exists /\ passed[b] * Unit <= m * (clock - mark - MaxDelay)
    BY <1>2 DEF BucketsInv, Solvent, Covered
  <2>4. CASE b \notin touch
    <3>1. level'[b] = level[b] /\ last'[b] = last[b] /\ touched'[b] = touched[b]
          /\ passed'[b] = passed[b] /\ (b \in exists' <=> b \in exists)
      BY <1>2, <2>4 DEF Acquire
    <3> QED
      BY <2>1, <2>3, <3>1, UNCHANGED <<clock, mark>>
  <2>5. CASE b \in touch
    <3>1. /\ level'[b] = IF b \in taken THEN full - Unit ELSE full
          /\ b \in taken => full >= Unit
          /\ last'[b] = now /\ touched'[b] = clock /\ b \in exists'
          /\ passed'[b] = IF b \in taken THEN passed[b] + 1 ELSE passed[b]
      BY <1>2, <2>5, <2>1, <2>2 DEF Acquire, Enough
    <3> HIDE DEF m, full
    <3>2. level'[b] \in Int /\ level'[b] <= m * Unit /\ passed'[b] \in Nat
      BY <1>1, <2>1, <2>2, <3>1
    <3>3. level'[b] + m * (clock - now) >= 0
      <4>1. m * (clock - now) \in Nat
        BY <1>1, <2>1
      <4>2. CASE b \in taken \/ full = m * Unit
        BY <4>1, <4>2, <1>1, <2>2, <3>1
      <4>3. CASE b \notin taken /\ b \in exists /\ full = level[b] + m * (now - last[b])
        <5>1. m * (now - last[b]) + m * (clock - now) = m * (clock - last[b])
          BY <1>1, <2>1
        <5>2. m * (touched[b] - last[b]) <= m * (clock - last[b])
          BY <4>3, <1>1, <2>1, <2>3, TimesMonotone
        <5>3. m * (touched[b] - last[b]) \in Int /\ m * (clock - last[b]) \in Int /\ m * (now - last[b]) \in Int
          BY <1>1, <2>1
        <5> QED
          BY <4>1, <4>3, <5>1, <5>2, <5>3, <2>1, <2>3, <3>1
      <4> QED
        BY <4>2, <4>3, <2>2
    <3>4. full + passed[b] * Unit <= m * (Unit + now - mark)
      <4>0. m * (Unit + now - mark) = m * Unit + m * (now - mark) /\ m * (now - mark) \in Nat
        BY <1>1, <2>1
      <4>00. passed[b] * Unit \in Nat /\ passed[b] \in Int
        BY <1>1, <2>1
      <4>1. CASE passed[b] = 0
        <5>1. passed[b] * Unit = 0
          BY <4>1, <1>1
        <5> QED
          BY <4>0, <5>1, <2>2
      <4>2. CASE b \in exists /\ level[b] + passed[b] * Unit <= m * (Unit + last[b] - mark)
        <5>1. m * (now - last[b]) + m * (Unit + last[b] - mark) = m * (Unit + now - mark)
          BY <1>1, <2>1
        <5>2. m * (now - last[b]) \in Int /\ m * (Unit + last[b] - mark) \in Int
          BY <1>1, <2>1
        <5> QED
          BY <4>0, <4>00, <4>2, <5>1, <5>2, <2>1, <2>2
      <4>3. CASE b \notin exists /\ passed[b] * Unit <= m * (clock - mark - MaxDelay)
        <5>1. m * (clock - mark - MaxDelay) <= m * (now - mark)
          BY <1>1, <2>1, TimesMonotone
        <5>2. m * (clock - mark - MaxDelay) \in Int
          BY <1>1, <2>1
        <5> QED
          BY <4>0, <4>00, <4>3, <5>1, <5>2, <2>2
      <4> QED
        BY <4>1, <4>2, <4>3, <2>3
    <3>5. level'[b] + passed'[b] * Unit <= m * (Unit + now - mark)
      <4>1. (passed[b] + 1) * Unit = passed[b] * Unit + Unit /\ passed[b] * Unit \in Nat
        BY <1>1, <2>1
      <4>2. m * (Unit + now - mark) \in Int
        BY <1>1, <2>1
      <4> QED
        BY <4>1, <4>2, <3>1, <3>4, <1>1, <2>1, <2>2
    <3> QED
      BY <1>1, <3>1, <3>2, <3>3, <3>5 DEF m
  <2> QED
    BY <2>4, <2>5
<1>3. exists' \in SUBSET Buckets
  BY DEF Acquire, BucketsInv, LimiterTypeOK
<1>4. /\ level' = [b \in Buckets |-> level'[b]] /\ last' = [b \in Buckets |-> last'[b]]
      /\ touched' = [b \in Buckets |-> touched'[b]] /\ passed' = [b \in Buckets |-> passed'[b]]
  BY DEF Acquire
<1>5. /\ level' \in [Buckets -> Int] /\ last' \in [Buckets -> 0..MaxClock]
      /\ touched' \in [Buckets -> 0..MaxClock] /\ passed' \in [Buckets -> Nat]
  BY <1>2, <1>4
<1>6. Solvent'
  BY <1>2, <1>3 DEF Solvent, MaxTokens
<1>7. Covered'
  BY <1>2, <1>3 DEF Covered, MaxTokens, Buckets
<1> QED
  BY <1>2, <1>3, <1>5, <1>6, <1>7

-----------------------------------------------------------------------------
\* No bucket exists and nothing has been given out.
LEMMA LimiterInitInv == LimiterInit => BucketsInv
<1> SUFFICES ASSUME LimiterInit PROVE BucketsInv
  OBVIOUS
<1>1. loaded \in BOOLEAN
  BY Zenon DEF LimiterInit
<1>2. LimiterTypeOK
  <2>1. \A b \in Buckets : MaxTokens(b) * Unit \in Nat
    BY MaxTokensType, RateLimiterConstants
  <2> QED
    BY <1>1, <2>1, RateLimiterConstants DEF LimiterInit, LimiterTypeOK
<1>3. Handed /\ Timely /\ Solvent /\ Covered
  BY RateLimiterConstants DEF LimiterInit, Handed, Timely, Solvent, Covered
<1> QED
  BY <1>2, <1>3 DEF BucketsInv

\* startPreorder puts a throttle into the coordinator, and a stage takes the one it
\* finds there.
LEMMA StagesKeep ==
    ASSUME BucketsInv, NEW c \in Callers, Start(c) \/ BeginStage(c)
    PROVE  BucketsInv'
<1> USE DEF Goto, buckets
<1>1. UNCHANGED <<clock, loaded, next, due, stamp, level, last, exists, touched, passed, mark>>
  BY DEF Start, BeginStage
<1>2. at[c] # "eval" /\ \E p \in {"started", "idle"} : at' = [at EXCEPT ![c] = p]
  BY DEF Start, BeginStage
<1>3. Start(c) => throttle' \in Callers /\ UNCHANGED <<using, charge, granted>>
  BY DEF Start
<1>4. BeginStage(c) => /\ throttle' = throttle /\ throttle \in Callers
                       /\ using' = [using EXCEPT ![c] = throttle]
                       /\ charge' \in [Callers -> Sessions]
                       /\ granted' \in [Callers -> Int]
  <2> SUFFICES ASSUME BeginStage(c)
               PROVE  /\ throttle \in Callers
                      /\ charge' \in [Callers -> Sessions] /\ granted' \in [Callers -> Int]
    BY DEF BeginStage
  <2>1. throttle \in Callers
    BY DEF BeginStage, BucketsInv, Handed
  <2>2. -Interval[throttle] \in Int
    BY <2>1, RateLimiterConstants
  <2>3. granted' \in [Callers -> Int]
    <3>1. granted \in [Callers -> Int]
      BY DEF BucketsInv, LimiterTypeOK
    <3>2. \E v \in Int : granted' = [granted EXCEPT ![c] = v]
      BY <2>2, <3>1 DEF BeginStage
    <3> QED
      BY <3>1, <3>2
  <2>4. charge' \in [Callers -> Sessions]
    <3>1. charge \in [Callers -> Sessions]
      BY DEF BucketsInv, LimiterTypeOK
    <3> QED
      BY <3>1, RateLimiterConstants DEF BeginStage
  <2> QED
    BY <2>1, <2>3, <2>4
<1>5. throttle' \in Callers
  BY <1>3, <1>4
<1>6. LimiterTypeOK'
  <2>1. loaded' \in BOOLEAN
    BY <1>1 DEF BucketsInv, LimiterTypeOK
  <2>2. /\ using' \in [Callers -> Callers \cup {NoThrottle}]
        /\ charge' \in [Callers -> Sessions] /\ granted' \in [Callers -> Int]
    BY <1>3, <1>4 DEF BucketsInv, LimiterTypeOK
  <2> QED
    BY <1>1, <1>2, <1>5, <2>1, <2>2 DEF BucketsInv, LimiterTypeOK, MaxTokens
<1>7. Handed'
  <2>1. ASSUME NEW d \in Callers, at'[d] \notin {"new", "started"} PROVE using'[d] \in Callers
    <3>1. CASE Start(c)
      BY <2>1, <3>1, <1>3 DEF Start, BucketsInv, LimiterTypeOK, Handed
    <3>2. CASE BeginStage(c)
      BY <2>1, <3>2, <1>4 DEF BeginStage, BucketsInv, LimiterTypeOK, Handed
    <3> QED
      BY <3>1, <3>2
  <2> QED
    BY <1>5, <2>1 DEF Handed
<1>8. Timely'
  BY <1>1, <1>2 DEF BucketsInv, LimiterTypeOK, Timely
<1>9. Solvent' /\ Covered'
  BY <1>1 DEF BucketsInv, Solvent, Covered, MaxTokens
<1> QED
  BY <1>6, <1>7, <1>8, <1>9 DEF BucketsInv

\* Steps of a loop that leave the buckets alone, and start no call.
LEMMA PacingKeeps ==
    ASSUME BucketsInv, NEW c \in Callers,
           \/ Pace(c) \/ Waited(c) \/ Cancelled(c) \/ Advance(c) \/ Retry(c) \/ Unlimited(c)
    PROVE  BucketsInv'
<1> USE DEF Goto, Allow, buckets, stages
<1>1. UNCHANGED <<clock, loaded, throttle, using, charge, stamp, level, last, exists, touched, passed, mark>>
  BY DEF Pace, Waited, Cancelled, Advance, Retry, Unlimited
<1>2. /\ at[c] \notin {"new", "started"}
      /\ \E p \in {"wait", "call", "done", "idle", "allowed", "retry"} : at' = [at EXCEPT ![c] = p]
  BY DEF Pace, Waited, Cancelled, Advance, Retry, Unlimited
<1>3. next' \in [Callers -> Nat] /\ due' \in [Callers -> Nat] /\ granted' \in [Callers -> Int]
  <2>1. clock \in Nat /\ using[c] \in Callers /\ Interval[using[c]] \in Nat
    <3>1. clock \in Nat
      BY RateLimiterConstants DEF BucketsInv, LimiterTypeOK
    <3>2. using[c] \in Callers
      BY <1>2 DEF BucketsInv, Handed
    <3> QED
      BY <3>1, <3>2, RateLimiterConstants
  <2>2. next \in [Callers -> Nat] /\ due \in [Callers -> Nat] /\ granted \in [Callers -> Int]
    BY DEF BucketsInv, LimiterTypeOK
  <2>3. CASE Pace(c)
    <3>1. next[using[c]] \in Nat
      BY <2>1, <2>2
    <3>2. \E n \in Nat, w \in Nat : /\ next' = [next EXCEPT ![using[c]] = n]
                                   /\ due' = [due EXCEPT ![c] = w]
      BY <2>1, <2>3, <3>1 DEF Pace
    <3> QED
      BY <2>2, <2>3, <3>2 DEF Pace
  <2>4. CASE Waited(c) \/ Cancelled(c) \/ Retry(c) \/ Unlimited(c)
    <3>1. /\ next' = next
          /\ due' = due \/ due' = [due EXCEPT ![c] = 0]
          /\ granted' = granted \/ granted' = [granted EXCEPT ![c] = clock]
      BY <2>4 DEF Waited, Cancelled, Retry, Unlimited
    <3> QED
      BY <2>1, <2>2, <3>1
  <2>5. CASE Advance(c)
    BY <2>1, <2>2, <2>5 DEF Advance
  <2> QED
    BY <2>3, <2>4, <2>5
<1>4. LimiterTypeOK'
  <2>1. loaded' \in BOOLEAN
    BY <1>1 DEF BucketsInv, LimiterTypeOK
  <2> QED
    BY <1>1, <1>2, <1>3, <2>1 DEF BucketsInv, LimiterTypeOK, MaxTokens
<1>5. Timely' /\ Handed'
  BY <1>1, <1>2 DEF BucketsInv, LimiterTypeOK, Timely, Handed
<1>6. Solvent' /\ Covered'
  BY <1>1 DEF BucketsInv, Solvent, Covered, MaxTokens
<1> QED
  BY <1>4, <1>5, <1>6 DEF BucketsInv

\* A call begins with the time of the clock.
LEMMA StampKeeps ==
    ASSUME BucketsInv, NEW c \in Callers, Stamp(c)
    PROVE  BucketsInv'
<1> USE DEF Goto, buckets, stages, Stamp
<1>1. clock \in Nat /\ clock \in 0..MaxClock /\ MaxDelay \in Nat
  BY RateLimiterConstants DEF BucketsInv, LimiterTypeOK
<1>2. LimiterTypeOK'
  <2>1. loaded' \in BOOLEAN
    BY Zenon DEF BucketsInv, LimiterTypeOK
  <2> QED
    BY <1>1, <2>1 DEF BucketsInv, LimiterTypeOK, MaxTokens
<1>3. Timely' /\ Handed'
  BY <1>1 DEF BucketsInv, LimiterTypeOK, Timely, Handed
<1>4. Solvent' /\ Covered'
  BY DEF BucketsInv, Solvent, Covered, MaxTokens
<1> QED
  BY <1>2, <1>3, <1>4 DEF BucketsInv

\* The script runs, and its answer may be lost.
LEMMA EvalKeeps ==
    ASSUME BucketsInv, NEW c \in Callers, Eval(c) \/ EvalFails(c)
    PROVE  BucketsInv'
<1>1. /\ UNCHANGED <<clock, loaded, throttle, using, charge, next, due, mark>>
      /\ stamp' = [stamp EXCEPT ![c] = 0]
  BY DEF Eval, EvalFails, stages
<1>2. at[c] = "eval" /\ \E p \in {"allowed", "retry"} : at' = [at EXCEPT ![c] = p]
  BY DEF Eval, EvalFails, Allow, Deny, Goto
<1>3. granted' \in [Callers -> Int]
  <2>1. clock \in Int
    BY RateLimiterConstants DEF BucketsInv, LimiterTypeOK
  <2> QED
    BY <2>1 DEF Eval, EvalFails, Allow, Deny, BucketsInv, LimiterTypeOK
<1>4. UNCHANGED buckets \/ Script(c, TRUE) \/ Script(c, FALSE)
  BY DEF Eval, EvalFails
<1>5. /\ level' \in [Buckets -> Int] /\ \A b \in Buckets : level'[b] <= MaxTokens(b) * Unit
      /\ last' \in [Buckets -> 0..MaxClock] /\ touched' \in [Buckets -> 0..MaxClock]
      /\ exists' \in SUBSET Buckets /\ passed' \in [Buckets -> Nat]
      /\ Solvent' /\ Covered'
  <2>1. CASE UNCHANGED buckets
    BY <1>1, <2>1 DEF buckets, BucketsInv, LimiterTypeOK, Solvent, Covered, MaxTokens
  <2>2. CASE Script(c, TRUE) \/ Script(c, FALSE)
    <3> DEFINE now == stamp[c]
               s == charge[c]
    <3>1. now \in 0..MaxClock /\ mark <= now /\ now <= clock /\ clock - now <= MaxDelay
      BY <1>2 DEF BucketsInv, LimiterTypeOK, Timely
    <3>2. s \in Buckets /\ Global \in Buckets
      BY DEF Buckets, BucketsInv, LimiterTypeOK
    <3>3. \E touch \in SUBSET Buckets, taken \in SUBSET Buckets :
             /\ taken \subseteq touch /\ \A b \in taken : Enough(b, now)
             /\ Acquire(touch, taken, now)
      <4>1. CASE Acquire({Global}, {}, now)
        BY <3>2, <4>1
      <4>2. CASE Enough(Global, now) /\ Acquire({Global, s}, {Global}, now)
        BY <3>2, <4>2
      <4>3. CASE Enough(Global, now) /\ Enough(s, now) /\ Acquire({Global, s}, {Global, s}, now)
        BY <3>2, <4>3
      <4> QED
        BY <2>2, <4>1, <4>2, <4>3 DEF Script
    <3> PICK touch \in SUBSET Buckets, taken \in SUBSET Buckets :
             /\ taken \subseteq touch /\ \A b \in taken : Enough(b, now)
             /\ Acquire(touch, taken, now)
      BY <3>3
    <3> HIDE DEF now
    <3> QED
      BY <1>1, <3>1, AcquireKeeps
  <2> QED
    BY <1>4, <2>1, <2>2
<1>6. LimiterTypeOK'
  <2>1. loaded' \in BOOLEAN
    BY <1>1 DEF BucketsInv, LimiterTypeOK
  <2>2. 0 \in 0..MaxClock
    BY RateLimiterConstants
  <2> QED
    BY <1>1, <1>2, <1>3, <1>5, <2>1, <2>2 DEF BucketsInv, LimiterTypeOK, MaxTokens
<1>7. Timely' /\ Handed'
  BY <1>1, <1>2 DEF BucketsInv, LimiterTypeOK, Timely, Handed
<1> QED
  BY <1>5, <1>6, <1>7 DEF BucketsInv

\* Time passes: no call gets older than MaxDelay, and every bound grows.
LEMMA TickKeeps ==
    ASSUME BucketsInv, Tick
    PROVE  BucketsInv'
<1>1. UNCHANGED <<loaded, throttle, using, charge, at, next, due, stamp, level, last, exists,
                  touched, passed, mark, granted>>
  BY DEF Tick, buckets, stages
<1>2. clock' = clock + 1 /\ clock \in Nat /\ clock' \in 0..MaxClock /\ mark \in Nat
      /\ MaxDelay \in Nat
  BY RateLimiterConstants DEF Tick, BucketsInv, LimiterTypeOK
<1>3. LimiterTypeOK'
  BY <1>1, <1>2 DEF BucketsInv, LimiterTypeOK, MaxTokens
<1>4. Timely'
  <2>1. \A c \in Callers : stamp[c] \in Int
    BY RateLimiterConstants DEF BucketsInv, LimiterTypeOK
  <2> QED
    BY <1>1, <1>2, <2>1 DEF BucketsInv, Timely, Tick
<1>h. Handed'
  BY <1>1 DEF BucketsInv, Handed
<1>5. Solvent'
  <2>1. \A b \in exists : touched[b] \in Int
    BY RateLimiterConstants DEF BucketsInv, LimiterTypeOK
  <2> QED
    BY <1>1, <1>2, <2>1 DEF BucketsInv, Solvent, MaxTokens
<1>6. Covered'
  <2> SUFFICES ASSUME NEW b \in Buckets, b \notin exists,
                      passed[b] * Unit <= MaxTokens(b) * (clock - mark - MaxDelay)
               PROVE  passed[b] * Unit <= MaxTokens(b) * (clock' - mark - MaxDelay)
    BY <1>1 DEF BucketsInv, Covered, MaxTokens
  <2>1. MaxTokens(b) \in Nat /\ passed[b] * Unit \in Int
    BY MaxTokensType, RateLimiterConstants DEF BucketsInv, LimiterTypeOK
  <2>2. MaxTokens(b) * (clock - mark - MaxDelay) <= MaxTokens(b) * (clock' - mark - MaxDelay)
    BY <1>2, <2>1, TimesMonotone
  <2>3. MaxTokens(b) * (clock - mark - MaxDelay) \in Int /\ MaxTokens(b) * (clock' - mark - MaxDelay) \in Int
    BY <1>2, <2>1
  <2> QED
    BY <2>1, <2>2, <2>3
<1> QED
  BY <1>3, <1>4, <1>5, <1>6, <1>h DEF BucketsInv

\* A bucket that expires has had the time to fill since it was last used, and the
\* delay of a call on top of it.
LEMMA ExpireKeeps ==
    ASSUME BucketsInv, NEW b \in Buckets, Expire(b)
    PROVE  BucketsInv'
<1>1. /\ UNCHANGED <<clock, loaded, throttle, using, charge, at, next, due, stamp, mark, passed, granted>>
      /\ b \in exists /\ exists' = exists \ {b} /\ clock >= touched[b] + TTL
  BY DEF Expire, stages
<1>2. \A x \in Buckets \ {b} : level'[x] = level[x] /\ last'[x] = last[x] /\ touched'[x] = touched[x]
  BY DEF Expire, BucketsInv, LimiterTypeOK
<1>3. LimiterTypeOK'
  <2>1. 0 \in 0..MaxClock /\ \A x \in Buckets : 0 <= MaxTokens(x) * Unit
    BY MaxTokensType, RateLimiterConstants
  <2>2. loaded' \in BOOLEAN
    BY <1>1 DEF BucketsInv, LimiterTypeOK
  <2> QED
    BY <1>1, <2>1, <2>2 DEF BucketsInv, LimiterTypeOK, Expire, MaxTokens
<1>4. Timely' /\ Handed'
  BY <1>1 DEF BucketsInv, Timely, Handed
<1>5. Solvent'
  BY <1>1, <1>2 DEF BucketsInv, LimiterTypeOK, Solvent, MaxTokens
<1>6. Covered'
  <2> DEFINE m == MaxTokens(b)
  <2>1. m \in Nat /\ level[b] \in Int /\ last[b] \in Nat /\ touched[b] \in Nat /\ passed[b] \in Nat
        /\ clock \in Nat /\ mark \in Nat /\ TTL \in Nat /\ Unit \in Nat /\ MaxDelay \in Nat
        /\ TTL >= Unit + MaxDelay
    BY MaxTokensType, RateLimiterConstants DEF BucketsInv, LimiterTypeOK
  <2>2. level[b] + m * (touched[b] - last[b]) >= 0
    BY <1>1 DEF BucketsInv, Solvent
  <2>3. passed[b] = 0 \/ level[b] + passed[b] * Unit <= m * (Unit + last[b] - mark)
    BY <1>1 DEF BucketsInv, Covered
  <2>4. passed[b] = 0 \/ passed[b] * Unit <= m * (clock - mark - MaxDelay)
    <3> HIDE DEF m
    <3>1. m * (touched[b] - last[b]) + m * (Unit + last[b] - mark) = m * (Unit + touched[b] - mark)
      BY <2>1
    <3>2. m * (Unit + touched[b] - mark) <= m * (clock - mark - MaxDelay)
      <4>1. Unit + touched[b] - mark <= clock - mark - MaxDelay
        BY <1>1, <2>1
      <4>2. Unit + touched[b] - mark \in Int /\ clock - mark - MaxDelay \in Int
        BY <2>1
      <4> QED
        BY <2>1, <4>1, <4>2, TimesMonotone
    <3>3. /\ m * (touched[b] - last[b]) \in Int /\ m * (Unit + last[b] - mark) \in Int
          /\ m * (clock - mark - MaxDelay) \in Int /\ passed[b] * Unit \in Int
      BY <2>1
    <3> QED
      BY <2>1, <2>2, <2>3, <3>1, <3>2, <3>3
  <2> QED
    BY <1>1, <1>2, <2>4 DEF BucketsInv, Covered, MaxTokens
<1> QED
  BY <1>3, <1>4, <1>5, <1>6 DEF BucketsInv

\* The window opens while no call is on its way.
LEMMA OpenWindowKeeps ==
    ASSUME BucketsInv, OpenWindow
    PROVE  BucketsInv'
<1> USE DEF OpenWindow, stages
<1>1. LimiterTypeOK'
  <2>1. loaded' \in BOOLEAN
    BY DEF BucketsInv, LimiterTypeOK
  <2> QED
    BY <2>1, RateLimiterConstants DEF BucketsInv, LimiterTypeOK, MaxTokens
<1>2. Timely'
  BY RateLimiterConstants DEF BucketsInv, LimiterTypeOK, Timely
<1>3. Solvent' /\ Covered' /\ Handed'
  BY DEF Handed, BucketsInv, Solvent, Covered, MaxTokens
<1> QED
  BY <1>1, <1>2, <1>3 DEF BucketsInv

\* Every step of the limiter and of its callers keeps the invariant.
LEMMA LimiterNextInv == BucketsInv /\ [LimiterNext]_limiterVars => BucketsInv'
<1> SUFFICES ASSUME BucketsInv, [LimiterNext]_limiterVars PROVE BucketsInv'
  OBVIOUS
<1>1. CASE UNCHANGED limiterVars
  BY <1>1 DEF limiterVars, buckets, stages, BucketsInv, LimiterTypeOK, Handed, Timely, Solvent, Covered, MaxTokens
<1>2. CASE LimiterNext
  BY <1>2, StagesKeep, PacingKeeps, StampKeeps, EvalKeeps, TickKeeps, ExpireKeeps, OpenWindowKeeps DEF LimiterNext
<1> QED
  BY <1>1, <1>2

\* The invariant of the buckets holds in every reachable state.
LEMMA LimiterInvariance == LimiterSpec => []BucketsInv
BY LimiterInitInv, LimiterNextInv, PTL DEF LimiterSpec

\* LimiterTypeOK: callers and buckets keep their types, and no bucket ever holds more
\* than its capacity (the math.min of acquire_bucket), for any capacities.
THEOREM LimiterTypeCorrect == LimiterSpec => []LimiterTypeOK
<1>1. BucketsInv => LimiterTypeOK
  BY DEF BucketsInv
<1> QED BY LimiterInvariance, <1>1, PTL

\* RateBounded: with any number of callers and sessions, calls delayed by up to MaxDelay
\* that overtake one another, answers that are lost and buckets that expire, a window of
\* t ticks passes at most m + m * t / Unit tokens of a bucket of capacity m.
THEOREM RatesAreBounded == LimiterSpec => []RateBounded
<1>1. BucketsInv => RateBounded
  <2> SUFFICES ASSUME BucketsInv, NEW b \in Buckets
               PROVE  passed[b] * Unit <= MaxTokens(b) * (Unit + clock - mark)
    BY DEF RateBounded
  <2> DEFINE m == MaxTokens(b)
  <2>1. m \in Nat /\ level[b] \in Int /\ last[b] \in Nat /\ touched[b] \in Nat /\ passed[b] \in Nat
        /\ clock \in Nat /\ mark \in Nat /\ Unit \in Nat /\ MaxDelay \in Nat /\ mark <= clock
    BY MaxTokensType, RateLimiterConstants DEF BucketsInv, LimiterTypeOK, Timely
  <2>2. b \in exists => touched[b] <= clock /\ level[b] + m * (touched[b] - last[b]) >= 0
    BY DEF BucketsInv, Solvent
  <2>3. \/ passed[b] = 0
        \/ b \in exists /\ level[b] + passed[b] * Unit <= m * (Unit + last[b] - mark)
        \/ passed[b] * Unit <= m * (clock - mark - MaxDelay)
    BY DEF BucketsInv, Covered
  <2> HIDE DEF m
  <2>4. CASE passed[b] = 0
    <3>1. passed[b] * Unit = 0 /\ m * (Unit + clock - mark) >= 0
      BY <2>1, <2>4
    <3> QED BY <3>1 DEF m
  <2>5. CASE b \in exists /\ level[b] + passed[b] * Unit <= m * (Unit + last[b] - mark)
    <3>1. m * (touched[b] - last[b]) + m * (Unit + last[b] - mark) = m * (Unit + touched[b] - mark)
      BY <2>1
    <3>2. m * (Unit + touched[b] - mark) <= m * (Unit + clock - mark)
      BY <2>1, <2>2, <2>5, TimesMonotone
    <3>3. /\ m * (touched[b] - last[b]) \in Int /\ m * (Unit + last[b] - mark) \in Int
          /\ m * (Unit + clock - mark) \in Int /\ passed[b] * Unit \in Int
      BY <2>1
    <3>4. passed[b] * Unit <= m * (Unit + clock - mark)
      BY <2>1, <2>2, <2>5, <3>1, <3>2, <3>3
    <3> QED BY <3>4 DEF m
  <2>6. CASE passed[b] * Unit <= m * (clock - mark - MaxDelay)
    <3>1. m * (clock - mark - MaxDelay) <= m * (Unit + clock - mark)
      BY <2>1, TimesMonotone
    <3>2. m * (clock - mark - MaxDelay) \in Int /\ m * (Unit + clock - mark) \in Int /\ passed[b] * Unit \in Int
      BY <2>1
    <3>3. passed[b] * Unit <= m * (Unit + clock - mark)
      BY <2>6, <3>1, <3>2
    <3> QED BY <3>3 DEF m
  <2> QED
    BY <2>3, <2>4, <2>5, <2>6
<1> QED BY LimiterInvariance, <1>1, PTL

-----------------------------------------------------------------------------
\* A loop that is about to call Redis, or has called it, was last let through an
\* interval ago, and one that is waiting waits for that; the schedule of the throttle
\* it has is no earlier, whoever moved it.  Only a loop that has just been let through
\* has a schedule that has not moved yet.
Scheduled ==
    \A c \in Callers : using[c] \in Callers =>
        /\ granted[c] <= clock
        /\ at[c] # "allowed" => next[using[c]] >= granted[c] + Interval[using[c]]
        /\ at[c] = "wait" => due[c] >= granted[c] + Interval[using[c]]
        /\ at[c] \in {"call", "eval"} => clock >= granted[c] + Interval[using[c]]

\* No schedule is more than an interval ahead, so a loop never moves one back.
Bounded == \A u \in Callers : next[u] <= clock + Interval[u]

\* At the start no loop has a throttle, and no schedule has begun.
LEMMA InitScheduled == LimiterInit => Scheduled /\ Bounded
  BY RateLimiterConstants DEF LimiterInit, Scheduled, Bounded

\* A schedule begins now, or is set an interval ahead.
LEMMA NextBounded ==
    ASSUME LimiterTypeOK, Bounded, [LimiterNext]_limiterVars
    PROVE  Bounded'
<1>1. clock \in Nat /\ \A u \in Callers : next[u] \in Nat /\ Interval[u] \in Nat \ {0}
  BY RateLimiterConstants DEF LimiterTypeOK
<1>2. CASE next' = next /\ clock' \in {clock, clock + 1}
  BY <1>1, <1>2 DEF Bounded
<1>3. ASSUME NEW c \in Callers, Pace(c) \/ Advance(c) PROVE Bounded'
  BY <1>1, <1>3 DEF Pace, Advance, Bounded, LimiterTypeOK
<1>4. \/ next' = next /\ clock' \in {clock, clock + 1}
      \/ \E c \in Callers : Pace(c) \/ Advance(c)
  BY DEF LimiterNext, limiterVars, Start, BeginStage, Waited, Stamp, Cancelled, Retry, Eval,
         EvalFails, Unlimited, Expire, Tick, OpenWindow
<1> QED
  BY <1>2, <1>3, <1>4

\* A step that only moves schedules forward, and loops that were due stay so.
LEMMA NextScheduled ==
    ASSUME LimiterTypeOK, Handed, Bounded, Scheduled, [LimiterNext]_limiterVars
    PROVE  Scheduled'
<1>1. /\ clock \in Nat
      /\ \A c \in Callers : /\ next[c] \in Nat /\ due[c] \in Nat /\ granted[c] \in Int
                            /\ Interval[c] \in Nat \ {0}
  BY RateLimiterConstants DEF LimiterTypeOK
<1>2. CASE UNCHANGED <<using, at, next, due, granted>> /\ clock' \in {clock, clock + 1}
  BY <1>1, <1>2 DEF Scheduled
<1>3. ASSUME NEW c \in Callers, UNCHANGED clock,
             \A u \in Callers : next'[u] \in Nat /\ next'[u] >= next[u],
             \A d \in Callers \ {c} : /\ using'[d] = using[d] /\ at'[d] = at[d]
                                      /\ due'[d] = due[d] /\ granted'[d] = granted[d],
             using'[c] \in Callers =>
                 /\ granted'[c] <= clock
                 /\ at'[c] # "allowed" => next'[using'[c]] >= granted'[c] + Interval[using'[c]]
                 /\ at'[c] = "wait" => due'[c] >= granted'[c] + Interval[using'[c]]
                 /\ at'[c] \in {"call", "eval"} => clock >= granted'[c] + Interval[using'[c]]
      PROVE  Scheduled'
  <2> SUFFICES ASSUME NEW d \in Callers, using'[d] \in Callers
               PROVE  /\ granted'[d] <= clock'
                      /\ at'[d] # "allowed" => next'[using'[d]] >= granted'[d] + Interval[using'[d]]
                      /\ at'[d] = "wait" => due'[d] >= granted'[d] + Interval[using'[d]]
                      /\ at'[d] \in {"call", "eval"} => clock' >= granted'[d] + Interval[using'[d]]
    BY DEF Scheduled
  <2>1. CASE d = c
    BY <1>3, <2>1
  <2>2. CASE d # c
    BY <1>1, <1>3, <2>2 DEF Scheduled
  <2> QED
    BY <2>1, <2>2
<1>4. ASSUME NEW c \in Callers,
             \/ Pace(c) \/ Waited(c) \/ Stamp(c) \/ Cancelled(c) \/ Advance(c) \/ Retry(c)
             \/ Eval(c) \/ EvalFails(c) \/ Unlimited(c)
      PROVE  Scheduled'
  <2> DEFINE u == using[c]
  <2> USE DEF Goto, Allow, Deny, LimiterTypeOK, stages
  <2>1. UNCHANGED <<clock, using>>
    BY <1>4 DEF Pace, Waited, Stamp, Cancelled, Advance, Retry, Eval, EvalFails, Unlimited
  <2>2. \A d \in Callers \ {c} : at'[d] = at[d] /\ due'[d] = due[d] /\ granted'[d] = granted[d]
    BY <1>4 DEF Pace, Waited, Stamp, Cancelled, Advance, Retry, Eval, EvalFails, Unlimited
  <2>3. u \in Callers
    BY <1>4 DEF Handed, Pace, Waited, Stamp, Cancelled, Advance, Retry, Eval, EvalFails, Unlimited
  <2>4. /\ granted[c] <= clock
        /\ at[c] # "allowed" => next[u] >= granted[c] + Interval[u]
        /\ at[c] = "wait" => due[c] >= granted[c] + Interval[u]
        /\ at[c] \in {"call", "eval"} => clock >= granted[c] + Interval[u]
    BY <2>3 DEF Scheduled
  <2>5. /\ \A v \in Callers : next'[v] \in Nat /\ next'[v] >= next[v]
        /\ granted'[c] <= clock
        /\ at'[c] # "allowed" => next'[u] >= granted'[c] + Interval[u]
        /\ at'[c] = "wait" => due'[c] >= granted'[c] + Interval[u]
        /\ at'[c] \in {"call", "eval"} => clock >= granted'[c] + Interval[u]
    <3>1. CASE Pace(c)
      BY <1>1, <2>3, <2>4, <3>1 DEF Pace
    <3>2. CASE Waited(c) \/ Stamp(c) \/ Cancelled(c) \/ Retry(c)
      BY <1>1, <2>3, <2>4, <3>2 DEF Waited, Stamp, Cancelled, Retry
    <3>3. CASE Advance(c)
      <4>1. next' = [next EXCEPT ![u] = clock + Interval[u]] /\ at'[c] = "idle" /\ granted' = granted
        BY <3>3 DEF Advance
      <4>2. next[u] <= clock + Interval[u]
        BY <3>3, <2>3 DEF Advance, Bounded
      <4> QED
        BY <1>1, <2>3, <2>4, <4>1, <4>2
    <3>4. CASE Eval(c) \/ EvalFails(c) \/ Unlimited(c)
      <4>1. \/ at[c] \in {"call", "eval"} /\ at'[c] = "allowed" /\ granted'[c] = clock /\ next' = next
            \/ at[c] = "eval" /\ at'[c] = "retry" /\ granted' = granted /\ next' = next
        BY <3>4 DEF Eval, EvalFails, Unlimited
      <4> QED
        BY <1>1, <2>4, <4>1
    <3> QED
      BY <1>4, <3>1, <3>2, <3>3, <3>4
  <2> HIDE DEF u
  <2>6. using'[c] = u
    BY <2>1 DEF u
  <2> QED
    BY <1>3, <2>1, <2>2, <2>5, <2>6
<1>8. ASSUME NEW c \in Callers, Start(c) \/ BeginStage(c)
      PROVE  Scheduled'
  <2>1. CASE Start(c)
    BY <1>1, <2>1 DEF Start, Goto, LimiterTypeOK, Scheduled
  <2>2. CASE BeginStage(c)
    <3>1. /\ UNCHANGED <<clock, next, due>> /\ at[c] \in {"started", "idle"}
          /\ at' = [at EXCEPT ![c] = "idle"] /\ using' = [using EXCEPT ![c] = throttle]
          /\ granted' = [granted EXCEPT ![c] = IF using[c] = throttle THEN @ ELSE -Interval[throttle]]
      BY <2>2 DEF BeginStage, Goto
    <3>2. throttle \in Callers
      BY <3>1 DEF Handed
    <3>3. /\ using'[c] = throttle /\ at'[c] = "idle"
          /\ granted'[c] = IF using[c] = throttle THEN granted[c] ELSE -Interval[throttle]
      BY <3>1 DEF LimiterTypeOK
    <3>4. granted'[c] <= clock /\ next'[throttle] >= granted'[c] + Interval[throttle]
      <4>1. CASE using[c] = throttle
        BY <1>1, <3>1, <3>2, <3>3, <4>1 DEF Scheduled
      <4>2. CASE using[c] # throttle
        BY <1>1, <3>1, <3>2, <3>3, <4>2
      <4> QED
        BY <4>1, <4>2
    <3>5. \A d \in Callers \ {c} : /\ using'[d] = using[d] /\ at'[d] = at[d]
                                   /\ due'[d] = due[d] /\ granted'[d] = granted[d]
      BY <3>1 DEF LimiterTypeOK
    <3> QED
      BY <1>1, <1>3, <3>1, <3>3, <3>4, <3>5
  <2> QED
    BY <1>8, <2>1, <2>2
<1>5. CASE \E b \in Buckets : Expire(b)
  BY <1>2, <1>5 DEF Expire, stages
<1>6. CASE Tick \/ OpenWindow
  BY <1>2, <1>6 DEF Tick, OpenWindow, stages
<1>7. CASE UNCHANGED limiterVars
  BY <1>2, <1>7 DEF limiterVars, stages
<1> QED
  BY <1>4, <1>5, <1>6, <1>7, <1>8 DEF LimiterNext

\* Paced: a dispatch loop is let through at least an interval of the throttle it was
\* handed apart, whether it waits, is denied and retries, shares the throttle with
\* other loops, or the script was never loaded.
THEOREM GrantsArePaced == LimiterSpec => Paced
<1> DEFINE Inv == BucketsInv /\ Scheduled
<1>1. Inv /\ [LimiterNext]_limiterVars =>
          [\A c \in Callers :
              at[c] # "allowed" /\ at'[c] = "allowed" =>
                  clock - granted[c] >= Interval[using[c]]]_limiterVars
  <2> SUFFICES ASSUME LimiterTypeOK, Handed, Scheduled, LimiterNext, NEW c \in Callers,
                      at[c] # "allowed", at'[c] = "allowed"
               PROVE  clock - granted[c] >= Interval[using[c]]
    BY DEF BucketsInv
  <2>1. at[c] \in {"call", "eval"}
    <3> USE DEF Goto, Allow, Deny, LimiterTypeOK
    <3>1. ASSUME NEW d \in Callers,
                 \/ Start(d) \/ BeginStage(d)
                 \/ Pace(d) \/ Waited(d) \/ Stamp(d) \/ Cancelled(d) \/ Advance(d) \/ Retry(d)
          PROVE  at'[c] # "allowed"
      BY <3>1 DEF Start, BeginStage, Pace, Waited, Stamp, Cancelled, Advance, Retry
    <3>2. ASSUME NEW d \in Callers, Eval(d) \/ EvalFails(d) \/ Unlimited(d)
          PROVE  at[c] \in {"call", "eval"}
      BY <3>2 DEF Eval, EvalFails, Unlimited
    <3>3. CASE (\E b \in Buckets : Expire(b)) \/ Tick \/ OpenWindow
      BY <3>3 DEF Expire, Tick, OpenWindow
    <3> QED
      BY <3>1, <3>2, <3>3 DEF LimiterNext
  <2>2. using[c] \in Callers
    BY <2>1 DEF Handed
  <2>3. clock \in Nat /\ Interval[using[c]] \in Nat /\ granted[c] \in Int
    BY <2>2, RateLimiterConstants DEF LimiterTypeOK
  <2> QED
    BY <2>1, <2>2, <2>3 DEF Scheduled
<1>2. BucketsInv => LimiterTypeOK /\ Handed
  BY DEF BucketsInv
<1>3. LimiterSpec => [](Scheduled /\ Bounded)
  BY LimiterInvariance, InitScheduled, NextScheduled, NextBounded, <1>2, PTL DEF LimiterSpec
<1> QED
  BY LimiterInvariance, <1>1, <1>3, PTL DEF LimiterSpec, Paced
=============================================================================
