-------------------------- MODULE CallbackNotifier --------------------------
(***************************************************************************)
(* The in-process rendezvous between the HTTP callback handlers and the    *)
(* goroutine that runs a pre-order load test                               *)
(* (internal/domain/pipeline/callback_notifier.go).                        *)
(*                                                                         *)
(* Every on_select/on_init/on_confirm callback runs Notify(run, action) in *)
(* a goroutine of its own.  The goroutine of a run calls                   *)
(* WaitForCount(run, action, target, 30s) after each stage and             *)
(* Reset(run) once, when it ends.  A (run, action) pair maps to a counter  *)
(* and a channel of capacity one; both are made and deleted together under *)
(* the mutex, so they are one "cell" here.  The mutex covers getOrCreate   *)
(* and Reset only: a cell that getOrCreate returned is used unlocked, and  *)
(* may have been closed and dropped from the map meanwhile.                *)
(***************************************************************************)
EXTENDS Naturals, FiniteSets

CONSTANTS
    Runs,        \* run ids (uuids: no run id is a prefix of another)
    Callbacks,   \* inbound callback requests, one Notify call each
    NumStages,   \* stages of a run that wait for callbacks (3 in the code)
    MaxTarget,   \* largest number of requests a stage sent
    NoCell       \* "no entry in the map"

\* A map key, runID + ":" + action: the run and the position of its stage.
Keys == Runs \X (1..NumStages)

\* A cell is named after the getOrCreate call that allocates it: the Notify of
\* a callback, or the WaitForCount of a run's stage.  Each makes at most one.
Cells == Callbacks \cup Keys

ASSUME NotifierConstants ==
    /\ NumStages \in Nat
    /\ MaxTarget \in Nat
    /\ IsFiniteSet(Callbacks)
    /\ Callbacks \cap Keys = {}
    /\ NoCell \notin Cells

VARIABLES
    entry,     \* [Keys -> Cells or NoCell]: the maps counters and channels
    count,     \* [Cells -> Nat]: the atomic counter of each cell
    token,     \* [Cells -> 0..1]: what its channel of capacity one holds
    closed,    \* the cells whose channel is closed
    cpc,       \* program counter of each callback's Notify
    ckey,      \* the key each callback notifies
    ccell,     \* the cell each Notify got
    rpc,       \* program counter of each run's goroutine
    stage,     \* the stage each run is at
    target,    \* target of the current WaitForCount
    rcell,     \* the cell the current WaitForCount got
    timedOut,  \* the runs whose current WaitForCount saw its deadline
    result,    \* what the last WaitForCount returned
    alive      \* FALSE once a panic has ended the process

cbVars == <<cpc, ckey, ccell>>
runVars == <<rpc, stage, target, rcell, timedOut, result>>
cellVars == <<count, token, closed>>
vars == <<entry, count, token, closed, cpc, ckey, ccell, rpc, stage, target,
          rcell, timedOut, result, alive>>

Init ==
    /\ entry = [k \in Keys |-> NoCell]
    /\ count = [c \in Cells |-> 0]
    /\ token = [c \in Cells |-> 0]
    /\ closed = {}
    /\ cpc = [n \in Callbacks |-> "new"]
    /\ ckey \in [Callbacks -> Keys]
    /\ ccell = [n \in Callbacks |-> NoCell]
    /\ rpc = [r \in Runs |-> "between"]
    /\ stage = [r \in Runs |-> 1]
    /\ target = [r \in Runs |-> 0]
    /\ rcell = [r \in Runs |-> NoCell]
    /\ timedOut = {}
    /\ result = [r \in Runs |-> 0]
    /\ alive = TRUE

\* Mutant: every call makes a new cell.
getOrCreateAlways(k, fresh) == fresh

\* getOrCreate: the cell under key k, made on the spot when there is none.
getOrCreate(k, fresh) == IF entry[k] = NoCell THEN fresh ELSE entry[k]

-----------------------------------------------------------------------------
(* Notify, in the goroutine of callback n.                                 *)

NotifyGet(n) ==
    /\ alive /\ cpc[n] = "new"
    /\ LET c == getOrCreate(ckey[n], n) IN
         /\ entry' = [entry EXCEPT ![ckey[n]] = c]
         /\ ccell' = [ccell EXCEPT ![n] = c]
    /\ cpc' = [cpc EXCEPT ![n] = "add"]
    /\ UNCHANGED <<cellVars, ckey, runVars, alive>>

\* Mutant: only the first callback wakes the waiter.
NotifyAddFirstWakes(n) ==
    /\ alive /\ cpc[n] = "add"
    /\ count' = [count EXCEPT ![ccell[n]] = @ + 1]
    /\ cpc' = [cpc EXCEPT ![n] = IF count[ccell[n]] = 0 THEN "send" ELSE "done"]
    /\ UNCHANGED <<entry, token, closed, ckey, ccell, runVars, alive>>

\* ctr.Add(1)
NotifyAdd(n) ==
    /\ alive /\ cpc[n] = "add"
    /\ count' = [count EXCEPT ![ccell[n]] = @ + 1]
    /\ cpc' = [cpc EXCEPT ![n] = "send"]
    /\ UNCHANGED <<entry, token, closed, ckey, ccell, runVars, alive>>

\* The non-blocking send: a full buffer keeps its token, a closed channel
\* panics in the handler's goroutine, and no recover middleware is installed.
NotifySend(n) ==
    /\ alive /\ cpc[n] = "send"
    /\ IF ccell[n] \in closed
         THEN /\ alive' = FALSE
              /\ cpc' = [cpc EXCEPT ![n] = "panicked"]
              /\ UNCHANGED token
         ELSE /\ token' = [token EXCEPT ![ccell[n]] = 1]
              /\ cpc' = [cpc EXCEPT ![n] = "done"]
              /\ UNCHANGED alive
    /\ UNCHANGED <<entry, count, closed, ckey, ccell, runVars>>

-----------------------------------------------------------------------------
(* WaitForCount and Reset, in the goroutine of run r.                      *)

\* Entry of WaitForCount, after a stage that sent t > 0 requests.
WaitCall(r, t) ==
    /\ alive /\ rpc[r] = "between" /\ stage[r] <= NumStages
    /\ LET k == <<r, stage[r]>>
           c == getOrCreate(k, k)
       IN /\ entry' = [entry EXCEPT ![k] = c]
          /\ rcell' = [rcell EXCEPT ![r] = c]
    /\ target' = [target EXCEPT ![r] = t]
    /\ rpc' = [rpc EXCEPT ![r] = "check"]
    /\ UNCHANGED <<cellVars, cbVars, stage, timedOut, result, alive>>

\* Mutant: one callback short is enough.
WaitCheckOffByOne(r) ==
    /\ alive /\ rpc[r] = "check"
    /\ rpc' = [rpc EXCEPT ![r] =
                 IF count[rcell[r]] + 1 >= target[r] THEN "return" ELSE "select"]
    /\ UNCHANGED <<entry, cellVars, cbVars, stage, target, rcell, timedOut, result,
                   alive>>

\* ctr.Load() >= target, before the loop and after every receive.
WaitCheck(r) ==
    /\ alive /\ rpc[r] = "check"
    /\ rpc' = [rpc EXCEPT ![r] =
                 IF count[rcell[r]] >= target[r] THEN "return" ELSE "select"]
    /\ UNCHANGED <<entry, cellVars, cbVars, stage, target, rcell, timedOut, result,
                   alive>>

\* Mutant: a receive does not look at the counter again.
WaitReceiveNoRecheck(r) ==
    /\ alive /\ rpc[r] = "select"
    /\ token[rcell[r]] = 1 \/ rcell[r] \in closed
    /\ token' = [token EXCEPT ![rcell[r]] = 0]
    /\ UNCHANGED <<entry, count, closed, cbVars, runVars, alive>>

\* case <-ch: takes the token; a closed channel is always ready.
WaitReceive(r) ==
    /\ alive /\ rpc[r] = "select"
    /\ token[rcell[r]] = 1 \/ rcell[r] \in closed
    /\ token' = [token EXCEPT ![rcell[r]] = 0]
    /\ rpc' = [rpc EXCEPT ![r] = "check"]
    /\ UNCHANGED <<entry, count, closed, cbVars, stage, target, rcell, timedOut, result, alive>>

\* Mutant: the timer is armed again while no callback has come.
WaitDeadlineRearmed(r) ==
    /\ alive /\ rpc[r] = "select" /\ count[rcell[r]] > 0
    /\ timedOut' = timedOut \cup {r}
    /\ rpc' = [rpc EXCEPT ![r] = "return"]
    /\ UNCHANGED <<entry, cellVars, cbVars, stage, target, rcell, result, alive>>

\* case <-deadline
WaitDeadline(r) ==
    /\ alive /\ rpc[r] = "select"
    /\ timedOut' = timedOut \cup {r}
    /\ rpc' = [rpc EXCEPT ![r] = "return"]
    /\ UNCHANGED <<entry, cellVars, cbVars, stage, target, rcell, result, alive>>

\* return int(ctr.Load()): a second load of the counter.
WaitReturn(r) ==
    /\ alive /\ rpc[r] = "return"
    /\ result' = [result EXCEPT ![r] = count[rcell[r]]]
    /\ stage' = [stage EXCEPT ![r] = @ + 1]
    /\ rpc' = [rpc EXCEPT ![r] = "between"]
    /\ rcell' = [rcell EXCEPT ![r] = NoCell]        \* the locals of the call
    /\ target' = [target EXCEPT ![r] = 0]
    /\ timedOut' = timedOut \ {r}
    /\ UNCHANGED <<entry, cellVars, cbVars, alive>>

\* runPreorder returns: after the last stage, or early when a stage sent
\* nothing or its batch could not be built.
RunEnds(r) ==
    /\ alive /\ rpc[r] = "between"
    /\ rpc' = [rpc EXCEPT ![r] = "reset"]
    /\ UNCHANGED <<entry, cellVars, cbVars, stage, target, rcell, timedOut, result,
                   alive>>

\* Mutant: Reset forgets the prefix test.
KeysOfAnyRun(r) == {k \in Keys : entry[k] # NoCell}

\* The live keys that start with "r:".
KeysOf(r) == {k \in Keys : k[1] = r /\ entry[k] # NoCell}

\* Reset(r), under the mutex: close and forget every cell of the run.
Reset(r) ==
    /\ alive /\ rpc[r] = "reset"
    /\ closed' = closed \cup {entry[k] : k \in KeysOf(r)}
    /\ entry' = [k \in Keys |-> IF k \in KeysOf(r) THEN NoCell ELSE entry[k]]
    /\ rpc' = [rpc EXCEPT ![r] = "over"]
    /\ UNCHANGED <<count, token, cbVars, stage, target, rcell, timedOut, result, alive>>

-----------------------------------------------------------------------------
Notify(n) == NotifyGet(n) \/ NotifyAdd(n) \/ NotifySend(n)

RunStep(r) ==
    \/ \E t \in 1..MaxTarget : WaitCall(r, t)
    \/ WaitCheck(r)
    \/ WaitReceive(r)
    \/ WaitDeadline(r)
    \/ WaitReturn(r)
    \/ RunEnds(r)
    \/ Reset(r)

\* The process died, or every callback was handled and every run is over.
Terminated ==
    /\ \/ ~alive
       \/ /\ \A n \in Callbacks : cpc[n] = "done"
          /\ \A r \in Runs : rpc[r] = "over"
    /\ UNCHANGED vars

Next ==
    \/ \E n \in Callbacks : Notify(n)
    \/ \E r \in Runs : RunStep(r)
    \/ Terminated

SafetySpec == Init /\ [][Next]_vars

\* Goroutines that can run are scheduled.  The deadline is left out: what is
\* claimed with this specification does not rest on the 30 seconds.
Spec ==
    /\ SafetySpec
    /\ \A n \in Callbacks : WF_vars(NotifyAdd(n)) /\ WF_vars(NotifySend(n))
    /\ \A r \in Runs : WF_vars(WaitCheck(r)) /\ WF_vars(WaitReceive(r))
                       /\ WF_vars(WaitReturn(r))

\* The timer fires, and a run that is between two stages goes on.
TimerFairness ==
    \A r \in Runs : WF_vars(WaitDeadline(r)) /\ WF_vars(RunEnds(r)) /\ WF_vars(Reset(r))

-----------------------------------------------------------------------------
(* Properties.                                                             *)

\* Type invariant: the value sets of the maps, the cells and the program
\* counters of CallbackNotifier and its callers.
TypeOK ==
    /\ entry \in [Keys -> Cells \cup {NoCell}]
    /\ count \in [Cells -> Nat]
    /\ token \in [Cells -> {0, 1}]
    /\ closed \in SUBSET Cells
    /\ cpc \in [Callbacks -> {"new", "add", "send", "done", "panicked"}]
    /\ ckey \in [Callbacks -> Keys]
    /\ ccell \in [Callbacks -> Cells \cup {NoCell}]
    /\ rpc \in [Runs -> {"between", "check", "select", "return", "reset", "over"}]
    /\ stage \in [Runs -> 1..(NumStages + 1)]
    /\ target \in [Runs -> Nat]
    /\ rcell \in [Runs -> Cells \cup {NoCell}]
    /\ timedOut \in SUBSET Runs
    /\ result \in [Runs -> Nat]
    /\ alive \in BOOLEAN

Waiting(r) == rpc[r] \in {"check", "select", "return"}

\* A blocked WaitForCount whose target is reached is about to be woken: its
\* channel holds a token, or a Notify that has counted has yet to send.  The
\* one-slot buffer coalesces tokens without losing the wakeup.
NoLostWakeup ==
    \A r \in Runs :
        (alive /\ rpc[r] = "select" /\ count[rcell[r]] >= target[r])
            => \/ token[rcell[r]] = 1
               \/ \E n \in Callbacks : cpc[n] = "send" /\ ccell[n] = rcell[r]

\* WaitForCount never works on a cell that Reset has closed or dropped (it
\* would spin on the closed channel until its deadline and miss later
\* callbacks): Reset(run) runs in the run's own goroutine, and other runs'
\* Resets leave the key alone.
WaiterCellIsLive ==
    \A r \in Runs : Waiting(r) =>
        /\ stage[r] \in 1..NumStages
        /\ entry[<<r, stage[r]>>] = rcell[r]
        /\ rcell[r] # NoCell
        /\ rcell[r] \notin closed

\* The Notify calls on cell c that are past their Add.
Counted(c) == {n \in Callbacks : ccell[n] = c /\ cpc[n] \notin {"new", "add"}}

\* The counter is exact: it counts each Notify that passed its Add once, the
\* ones on a closed cell included.
CountExact == \A c \in Cells : count[c] = Cardinality(Counted(c))

\* A callback that came for a stage that is being waited for counts towards
\* that wait: the Notify and the WaitForCount hold the same cell.
CallbackReachesWaiter ==
    \A r \in Runs, n \in Callbacks :
        (Waiting(r) /\ ckey[n] = <<r, stage[r]>> /\ cpc[n] # "new")
            => ccell[n] = rcell[r]

\* WaitForCount returns fewer than its target only after its deadline.
ShortCountOnlyAfterDeadline ==
    [][\A r \in Runs : (rpc[r] = "return" /\ rpc'[r] = "between")
                           => r \in timedOut \/ result'[r] >= target[r]]_vars

\* Once enough callbacks are counted, a blocked WaitForCount is released
\* without help from its deadline.
EnoughCallbacksWake ==
    \A r \in Runs :
        (rpc[r] = "select" /\ count[rcell[r]] >= target[r])
            ~> (rpc[r] # "select" \/ ~alive)

\* Whatever callbacks arrive, a run gets past its waits once its timers fire,
\* and in the end closes and forgets its cells.
EveryRunIsReset == TimerFairness => \A r \in Runs : <>(rpc[r] = "over" \/ ~alive)

\* "Sessions are independent -- one team's load test doesn't interfere with
\* another's": a late callback of one run must not end the process that runs
\* the load tests of all.
CallbackNeverPanics == alive
=============================================================================
