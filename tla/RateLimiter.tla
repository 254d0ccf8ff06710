---------------------------- MODULE RateLimiter ----------------------------
(***************************************************************************)
(* The two-tier rate limiter (session.RateLimiter with its Lua script) and *)
(* the pacing throttle in front of it (pacingThrottle.Acquire).            *)
(*                                                                         *)
(* A caller is the dispatch loop of a run.  Its start makes a throttle and *)
(* puts it into the coordinator, of which there is one: a stage takes the  *)
(* throttle it finds there, perhaps that of a later start, and several     *)
(* loops may share one.  A loop waits for the schedule of its throttle,    *)
(* reads the clock, and sends that time to the script, which takes a token *)
(* from the global bucket and then one from the session's.                 *)
(* Scripts are atomic, but calls reach Redis in any order, so the times    *)
(* they carry may go backwards.                                            *)
(*                                                                         *)
(* Levels are in units: a token is Unit units and a bucket of capacity m   *)
(* gains m units in each tick, so it fills in Unit ticks (in the code a    *)
(* tick is 1 ms and Unit is 1000).                                         *)
(***************************************************************************)
EXTENDS Integers

CONSTANTS
    Callers,        \* dispatch loops of the runs; they name the throttles as well
    NoThrottle,     \* before the first start
    Sessions,       \* their sessions
    SessionOf,      \* [Callers -> the session of the run]
    Global,         \* the key of the global bucket
    GlobalMax, SessionMax,
    Unit,           \* ticks in which a bucket fills
    TTL,            \* ticks after which an unused bucket expires
    MaxDelay,       \* ticks a call may take to reach Redis
    Interval,       \* [Callers -> interval of the throttle in ticks, 1 / rps]
    MaxClock        \* bound on time

Buckets == Sessions \cup {Global}

\* A bucket outlives the time it takes to fill (10 s against 1 s in the code) by
\* more than a call is delayed.
ASSUME RateLimiterConstants ==
    /\ SessionOf \in [Callers -> Sessions]
    /\ Global \notin Sessions
    /\ GlobalMax \in Nat \ {0} /\ SessionMax \in Nat \ {0}
    /\ Unit \in Nat \ {0} /\ MaxDelay \in Nat
    /\ TTL \in Nat /\ TTL >= Unit + MaxDelay
    /\ Interval \in [Callers -> Nat \ {0}] /\ MaxClock \in Nat
    /\ NoThrottle \notin Callers

VARIABLES
    clock,          \* time
    loaded,         \* RateLimiter.Init has loaded the script
    throttle,       \* BCoordinator.throttle
    using,          \* [Callers -> the throttle of the stage]
    charge,         \* [Callers -> the session of the stage]
    at,             \* [Callers -> where the loop is in Acquire]
    next,           \* [Callers -> pacingThrottle.next, 0 before the first call]
    due,            \* [Callers -> end of the wait it has computed, or 0]
    stamp,          \* [Callers -> the time it sends to the script, or 0]
    level,          \* [Buckets -> tokens, in units]
    last,           \* [Buckets -> last]
    exists,         \* the buckets that have not expired
    touched,        \* [Buckets -> when Redis last set its TTL]
    mark,           \* when the window in which tokens are counted began
    passed,         \* [Buckets -> tokens taken in the window]
    granted         \* [Callers -> when its throttle last let it through, or an
                    \* interval before time began]

buckets == <<level, last, exists, touched, passed>>
stages == <<throttle, using, charge>>
limiterVars == <<clock, loaded, stages, at, next, due, stamp, buckets, mark, granted>>

MaxTokens(b) == IF b = Global THEN GlobalMax ELSE SessionMax

Goto(c, a, b) == at[c] = a /\ at' = [at EXCEPT ![c] = b]

-----------------------------------------------------------------------------
(* startPreorder, BCoordinator *)

\* newPacingThrottle and SetThrottle.
Start(c) ==
    /\ Goto(c, "new", "started")
    /\ throttle' = c
    /\ UNCHANGED <<clock, loaded, using, charge, next, due, stamp, buckets, mark, granted>>

\* A stage hands c.throttle and c.sessionID to the dispatcher.  No lock covers the
\* two: the session may be that of any run started so far.
BeginStage(c) ==
    /\ Goto(c, "started", "idle") \/ Goto(c, "idle", "idle")
    /\ using' = [using EXCEPT ![c] = throttle]
    /\ \E d \in Callers : at[d] # "new" /\ charge' = [charge EXCEPT ![c] = SessionOf[d]]
    /\ granted' = [granted EXCEPT ![c] = IF using[c] = throttle THEN @ ELSE -Interval[throttle]]
    /\ UNCHANGED <<clock, loaded, throttle, next, due, stamp, buckets, mark>>

-----------------------------------------------------------------------------
(* pacingThrottle.Acquire *)

\* Mutant: a throttle that makes no wait of one tick.
PaceEarly(c) ==
    LET u == using[c]
        n == IF next[u] = 0 THEN clock ELSE next[u]
        early == clock + 1 < n IN
    /\ Goto(c, "idle", IF early THEN "wait" ELSE "call")
    /\ next' = [next EXCEPT ![u] = n]
    /\ due' = [due EXCEPT ![c] = IF early THEN n ELSE 0]
    /\ UNCHANGED <<clock, loaded, stages, stamp, buckets, mark, granted>>

\* Under the mutex: the schedule starts now, and says how long to wait.
Pace(c) ==
    LET u == using[c]
        n == IF next[u] = 0 THEN clock ELSE next[u]
        early == clock < n IN
    /\ Goto(c, "idle", IF early THEN "wait" ELSE "call")
    /\ next' = [next EXCEPT ![u] = n]
    /\ due' = [due EXCEPT ![c] = IF early THEN n ELSE 0]
    /\ UNCHANGED <<clock, loaded, stages, stamp, buckets, mark, granted>>

\* The wait is over, wherever another loop has moved the schedule meanwhile.
Waited(c) ==
    /\ clock >= due[c]
    /\ Goto(c, "wait", "call")
    /\ due' = [due EXCEPT ![c] = 0]
    /\ UNCHANGED <<clock, loaded, stages, next, stamp, buckets, mark, granted>>

\* ctx.Done in either select: Acquire returns false.
Cancelled(c) ==
    /\ Goto(c, "wait", "done") \/ Goto(c, "retry", "done")
    /\ due' = [due EXCEPT ![c] = 0]
    /\ UNCHANGED <<clock, loaded, stages, next, stamp, buckets, mark, granted>>

\* The next request of the throttle is due an interval after this one was allowed.
Advance(c) ==
    /\ Goto(c, "allowed", "idle")
    /\ next' = [next EXCEPT ![using[c]] = clock + Interval[using[c]]]
    /\ UNCHANGED <<clock, loaded, stages, due, stamp, buckets, mark, granted>>

\* A denied caller tries again after a while; the schedule has not advanced.
Retry(c) ==
    /\ Goto(c, "retry", "idle")
    /\ UNCHANGED <<clock, loaded, stages, next, due, stamp, buckets, mark, granted>>

-----------------------------------------------------------------------------
(* AcquireWithReason *)

\* It reads the clock and calls Redis.
Stamp(c) ==
    /\ loaded
    /\ Goto(c, "call", "eval")
    /\ stamp' = [stamp EXCEPT ![c] = clock]
    /\ UNCHANGED <<clock, loaded, stages, next, due, buckets, mark, granted>>

Allow(c, from) ==
    /\ Goto(c, from, "allowed")
    /\ granted' = [granted EXCEPT ![c] = clock]

Deny(c) ==
    /\ Goto(c, "eval", "retry")
    /\ UNCHANGED granted

Min2(a, b) == IF a < b THEN a ELSE b

\* Mutant: no math.min with the capacity.
RefillUncapped(b, now) ==
    IF b \in exists THEN level[b] + (now - last[b]) * MaxTokens(b)
                    ELSE MaxTokens(b) * Unit

\* The level of bucket b at time now: a new bucket is full.  A time before `last'
\* takes units away, which the next call gives back.
Refill(b, now) ==
    IF b \in exists THEN Min2(MaxTokens(b) * Unit, level[b] + (now - last[b]) * MaxTokens(b))
                    ELSE MaxTokens(b) * Unit

Enough(b, now) == Refill(b, now) >= Unit

\* acquire_bucket on each bucket of a set: those in `taken' lose a token.
Acquire(touch, taken, now) ==
    /\ level' = [b \in Buckets |->
                    IF b \in touch THEN Refill(b, now) - (IF b \in taken THEN Unit ELSE 0)
                                   ELSE level[b]]
    /\ last' = [b \in Buckets |-> IF b \in touch THEN now ELSE last[b]]
    /\ touched' = [b \in Buckets |-> IF b \in touch THEN clock ELSE touched[b]]
    /\ exists' = exists \cup touch
    /\ passed' = [b \in Buckets |-> IF b \in taken THEN passed[b] + 1 ELSE passed[b]]

\* Mutant: a script that does not write `last' when it grants.
ScriptKeepsLast(c, ok) ==
    LET b2 == {Global, charge[c]} IN
    /\ ok /\ \A b \in b2 : Enough(b, stamp[c])
    /\ level' = [b \in Buckets |-> IF b \in b2 THEN Refill(b, stamp[c]) - Unit ELSE level[b]]
    /\ passed' = [b \in Buckets |-> IF b \in b2 THEN passed[b] + 1 ELSE passed[b]]
    /\ touched' = [b \in Buckets |-> IF b \in b2 THEN clock ELSE touched[b]]
    /\ exists' = exists \cup b2
    /\ UNCHANGED last

\* The script answers ok.  The global bucket refuses, and the session's is not looked
\* at; or the session's refuses, and the global token is spent; or both have a token.
Script(c, ok) ==
    LET s == charge[c]
        now == stamp[c]
    IN \/ ~ok /\ ~Enough(Global, now) /\ Acquire({Global}, {}, now)
       \/ ~ok /\ Enough(Global, now) /\ ~Enough(s, now) /\ Acquire({Global, s}, {Global}, now)
       \/ ok /\ Enough(Global, now) /\ Enough(s, now) /\ Acquire({Global, s}, {Global, s}, now)

Eval(c) ==
    /\ \/ Script(c, TRUE) /\ Allow(c, "eval")
       \/ Script(c, FALSE) /\ Deny(c)
    /\ stamp' = [stamp EXCEPT ![c] = 0]
    /\ UNCHANGED <<clock, loaded, stages, next, due, mark>>

\* An error denies, whether the script did not run or its answer was lost.
EvalFails(c) ==
    /\ Deny(c)
    /\ UNCHANGED buckets \/ Script(c, TRUE)
    /\ stamp' = [stamp EXCEPT ![c] = 0]
    /\ UNCHANGED <<clock, loaded, stages, next, due, mark>>

\* Without the script everything is allowed.
Unlimited(c) ==
    /\ ~loaded
    /\ Allow(c, "call")
    /\ UNCHANGED <<clock, loaded, stages, next, due, stamp, buckets, mark>>

-----------------------------------------------------------------------------
(* Time *)

Tick ==
    /\ clock < MaxClock
    /\ \A c \in Callers : at[c] = "eval" => clock - stamp[c] < MaxDelay
    /\ clock' = clock + 1
    /\ UNCHANGED <<loaded, stages, at, next, due, stamp, buckets, mark, granted>>

Expire(b) ==
    /\ b \in exists /\ clock >= touched[b] + TTL
    /\ exists' = exists \ {b}
    /\ level' = [level EXCEPT ![b] = 0]
    /\ last' = [last EXCEPT ![b] = 0]
    /\ touched' = [touched EXCEPT ![b] = 0]
    /\ UNCHANGED <<clock, loaded, stages, at, next, due, stamp, mark, passed, granted>>

\* The window can begin at any time at which no call is on its way to Redis.
OpenWindow ==
    /\ mark = 0 /\ clock > 0
    /\ \A c \in Callers : at[c] # "eval"
    /\ mark' = clock
    /\ passed' = [b \in Buckets |-> 0]
    /\ UNCHANGED <<clock, loaded, stages, at, next, due, stamp, level, last, exists, touched, granted>>

-----------------------------------------------------------------------------
LimiterInit ==
    /\ clock = 0
    /\ loaded \in BOOLEAN
    /\ throttle = NoThrottle
    /\ using = [c \in Callers |-> NoThrottle]
    /\ charge = SessionOf
    /\ at = [c \in Callers |-> "new"]
    /\ next = [c \in Callers |-> 0]
    /\ due = [c \in Callers |-> 0]
    /\ stamp = [c \in Callers |-> 0]
    /\ level = [b \in Buckets |-> 0]
    /\ last = [b \in Buckets |-> 0]
    /\ exists = {}
    /\ touched = [b \in Buckets |-> 0]
    /\ mark = 0
    /\ passed = [b \in Buckets |-> 0]
    /\ granted = [c \in Callers |-> 0]

LimiterNext ==
    \/ \E c \in Callers :
          \/ Start(c) \/ BeginStage(c)
          \/ Pace(c) \/ Waited(c) \/ Stamp(c) \/ Cancelled(c) \/ Advance(c) \/ Retry(c)
          \/ Eval(c) \/ EvalFails(c) \/ Unlimited(c)
    \/ \E b \in Buckets : Expire(b)
    \/ Tick
    \/ OpenWindow

LimiterSpec == LimiterInit /\ [][LimiterNext]_limiterVars

-----------------------------------------------------------------------------
\* Type invariant: callers and buckets; no bucket holds more than its capacity.
LimiterTypeOK ==
    /\ clock \in 0..MaxClock
    /\ loaded \in BOOLEAN
    /\ throttle \in Callers \cup {NoThrottle}
    /\ using \in [Callers -> Callers \cup {NoThrottle}]
    /\ charge \in [Callers -> Sessions]
    /\ at \in [Callers -> {"new", "started", "idle", "wait", "call", "eval", "allowed", "retry", "done"}]
    /\ next \in [Callers -> Nat]
    /\ due \in [Callers -> Nat]
    /\ stamp \in [Callers -> 0..MaxClock]
    /\ level \in [Buckets -> Int]
    /\ \A b \in Buckets : level[b] <= MaxTokens(b) * Unit
    /\ last \in [Buckets -> 0..MaxClock]
    /\ exists \in SUBSET Buckets
    /\ touched \in [Buckets -> 0..MaxClock]
    /\ mark \in 0..MaxClock
    /\ passed \in [Buckets -> Nat]
    /\ granted \in [Callers -> Int]

\* "A Redis Lua token-bucket enforces both a global RPS ceiling and a per-session
\* cap" (README.md:10), whatever the order in which calls reach Redis and whether
\* buckets expire: in a window of t ticks a bucket of capacity m gives out at most
\* m tokens and the m * t / Unit that it gains (rate_limiter.go:13-38).
RateBounded ==
    \A b \in Buckets : passed[b] * Unit <= MaxTokens(b) * (Unit + clock - mark)

\* A dispatch loop is let through at least an interval of the throttle it was handed
\* apart, although a denied loop retries without moving the schedule, other loops
\* move the same schedule while it waits, and the limiter may be off
\* (routes.go:496-504, 532-554).  The throttle need not be the run's own
\* (coordinator.go:211, 241, 269), loops that share one are not kept apart, and the
\* request leaves only when the semaphore has room too (dispatcher.go:65).
Paced ==
    [][\A c \in Callers :
          at[c] # "allowed" /\ at'[c] = "allowed" =>
              clock - granted[c] >= Interval[using[c]]]_limiterVars
=============================================================================
