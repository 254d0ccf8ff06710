# A TLA+ model of the seller app load tester

The load tester plays the buyer side (BAP) of ONDC against a seller app (BPP): a
team creates a session, discovers the seller's catalog, and starts runs that send
`select`, `init` and `confirm` requests at a given rate. The seller answers each
request with a callback of its own, and the load tester measures how long that
took. One process serves many sessions; their state is in Redis, their history in
MongoDB, and part of it (the coordinator, the notifier, the latency queue, the run
log) in the memory of the process.

This directory holds TLA+ modules for its concurrent parts and for what its
requests and reports say, TLC configurations that check them on small instances,
and TLAPS proofs for any instance.
`PROJECT.json` lists components, runs, the lines each definition models, the
hazards with the properties that cover them, the findings and the theorems.

Paths below are under `src/internal/` unless they say otherwise.

## 1. Inventory

| Component | State | Operations | Meets |
|---|---|---|---|
| Callback notifier `domain/pipeline/callback_notifier.go` | two maps, `runID:action` to a counter and to a channel of capacity one; a mutex | `Notify`, `WaitForCount`, `Reset` | callback handlers notify, the goroutine of a run waits and resets |
| Dispatcher `domain/pipeline/dispatcher.go` | result slice, semaphore channel, wait group | `DispatchConcurrentThrottled` | throttle, seller client, context |
| Run lifecycle `domain/session/manager.go`, `handlers/testing/routes.go` | `session:<id>:preorder` and `run:<id>` in Redis, `runs` in MongoDB | `startPreorder`/`StartRun`, `FinishRun`, `SetRunSystemMetrics`, `StopRun`, delete | one goroutine per run, HTTP handlers |
| Latency pipeline `handlers/callbacks/{record,routes}.go`, `finalizeRunLatencies` | `latencyQueue`, workers, `run_latency_events`, `run_latency_summary`, Redis counters, `sent_at` in the run log | callback handler, worker, upserts, finalization, clean-up | seller callbacks, MongoDB |
| Pre-order pipeline `domain/pipeline/{coordinator,select_batch,init_confirm_from_callbacks}.go`, `runPreorder` | the one `BCoordinator` (linker, throttle, core version, error injection), `txn:<id>` routes, stored callbacks | configure, send a stage, wait, build the next batch | dispatcher, notifier, callback handlers |
| Sessions `domain/session/manager.go`, `ports/session` | `session:<id>`, `bpp_session:<bpp>` in Redis, `sessions` in MongoDB | create, toggles, get, list, delete, clear | all HTTP handlers |
| Discovery `startDiscovery`, `uploadCatalog`, `on_search` | `session:<id>:catalog`, `discovery:<txn>` in Redis, `catalogs` in MongoDB | discover, poll, upload; read by starts | callback handlers, starts, deletes |
| Rate limiter `domain/session/rate_limiter.go` and pacing throttle (`routes.go`) | two token buckets in Redis; the schedule of a run | the Lua script, `AcquireWithReason`, `pacingThrottle.Acquire` | dispatcher |
| Run log `shared/runlog/{memory,redis}_store.go`, `flushRun` | stored payloads and times per run, action and transaction, in one of two stores | record, get, list, export or flush, clean up | pipeline, callbacks, payload page |
| Payloads `domain/pipeline/{select_batch,init_confirm_from_callbacks,coordinator}.go` | none | select orders from a catalog, `enrichInit`, `enrichConfirm`, error injection | catalog, stored callbacks |
| Reports `domain/latency/percentiles.go`, `session/manager.go`, `routes.go`, `src/cmd/export_run_metrics` | none | percentiles, summaries, journey metrics, the workbook's verdicts | finished runs |
| Seller and registry clients, signing, store clients, configuration, errors | caches and connections | one call each | everything |

What is hard to get right, and hard to test:

* **Interleaving.** Callback handlers, workers, dispatch goroutines, run goroutines
  and HTTP handlers run at once. The notifier's mutex is released before the cell
  it returns is used; `UpdateRunStatus`, the session toggles and `StartRun` read,
  decide and write in separate store calls.
* **Ordering.** Callbacks arrive before the answer to the request they answer,
  twice, late, after the run has been cleaned up, or not at all. The times sent to
  the rate limiter go backwards.
* **Failure.** Most errors of Redis and MongoDB are ignored (`_ =`), the process
  may stop at any call, keys expire.
* **Half-locked memory.** The default run log reads maps after it has released the
  lock, and keeps slices of request buffers that the server uses again.
* **Edges.** Which requests are corrupted depends on an index in a batch that
  shrinks; percentiles and verdicts cut fractions.
* **Timeouts.** The 30 s wait races the callback that completes it, the discovery
  poll races its payload.

A component is correct when: wake-ups are not lost and counts are exact
(notifier); every payload gets one truthful outcome and at most `maxInFlight` are
in flight (dispatcher); the stores describe runs truthfully and the session is
released (lifecycle); no acknowledged event is lost, the first outcome stands and
the summary accounts for each request (latency); an `init` or `confirm` follows
from a good callback credited to the same run, and runs end (pipeline); one usable
session per BPP, deletion is final (sessions); "ready" means there is a catalog and
"pending" ends (discovery); neither bucket exceeds its rate (limiter); what was
recorded is found, kept until it is written, and then released (run log); the order
that is confirmed is the one that was selected, and every name in it is accounted for
(payloads); percentiles have the rank they stand for and the workbook sees what was
injected (reports). Section 6 says where the code falls short of this.

## 2. Modules

`M.tla` is a component, `MCM.tla` and its `.cfg` files instantiate it for TLC,
`MProofs.tla` proves theorems about it (`DispatcherProofs` also about `RateLimiter`,
which paces what the dispatcher sends, and `PreorderPipelineProofs` also about
`OrderFlow`, the contents of what the pipeline sends). One action is one step between
two points at which somebody else can act: a Redis or MongoDB call, an atomic
operation, a channel operation, or everything done under one mutex. Operators whose
comment begins with "Mutant" are wrong variants of the definition that follows them,
kept to show that each property can fail; no specification uses them.

**CallbackNotifier.** The counter and the channel of a key are one *cell*, named
after the call that makes it. `NotifyGet/Add/Send` are the three unlocked steps of
`Notify`; `WaitCall/Check/Receive/Deadline/Return` those of `WaitForCount`;
`Reset` closes and removes the cells of a run under the mutex. `alive` turns FALSE
when a send meets a closed channel, a panic that nothing recovers.

**Dispatcher** and **BatchDispatch.** `Dispatcher` has the loop (`pc`, `i`), the
semaphore count `sem` and the state of each goroutine. `LoopTop`, `ThrottleAllows`
and `ThrottleRefuses`, `SelectSlot` and `SelectCancelled`, `RecheckCancelled`,
`Spawn` and `Return` are the loop; `SendReturns`, `Release`, `WgDone` a goroutine,
in the order of its deferred calls. `BatchDispatch` is what the callers rely on:
each payload gets one outcome, all are there when the call returns, none changes
afterwards. `ImplementsBatch` maps `results` to its outcomes and `pc = "returned"`
to its return.

**RunLifecycle.** One session. Start request `r`: `CheckSession`, `ReadPreorder`,
`CreateRun`, `Claim` (the last three are `StartRun`), `Prepare`, `RunStage`, the
three calls of `SetRunSystemMetrics`, then `FinishRun`: `StatusRead`,
`StatusWrite`, `SetIdle`, `SaveFinal`. Stop requests and a delete run beside it.
Each call may fail; `lost` records that one did or that the process crashed, and
properties that are only promised without failures say so. The session's key and the
document of a run expire (`ExpirePreorder`, `ExpireRun`); `expired` remembers the runs
that outlasted their document.

**LatencyPipeline.** One run, one pair of stages. Of time it keeps one bit per
transaction (`old`: 30 s have passed). An upsert is two steps, match and insert,
which a unique index makes safe; `indexed` is chosen in `Init`, because
`ensureLatencyIndexes` only logs the error when it cannot create the index. A `sent_at`
may be lost as it is written (`SendRequest`), as it is read (`Judge`, `ReadEvents`) or
later (`ExpireStamps`), as the Redis run log can without telling anybody; `unlogged` and
`unread` remember which. With the memory store both stay empty.
`RunReturns`, `ReadEvents`, `BulkMatch`, `BulkInsert`, `WriteSummary` are
`finalizeRunLatencies`, and `Cleanup` is `flushRun`.

**PreorderPipeline.** Runs of different sessions through the one coordinator. It
composes the two components above it: a stage is over when every payload has an
outcome, as `BatchDispatch` promises, and `Wait` ends with enough callbacks or at
the deadline, as `CallbackNotifier` shows. Payload contents are abstracted to
whether the next payload can be built from the stored callback. A run is started with
a `transaction_id` or without (`name`); with it all its payloads, and those of another
run that was given the same, have one transaction (`Txn`). `Callback(t, s)` is any
callback for a transaction that has a route, whether or not somebody asked for it and
however often it came; `unasked` remembers the first kind.

**Discovery.** One session's catalog: `StartDiscovery`, `LinkTxn`, `SearchReturns`,
`SetPending`, `Poll`, then `Save` and `SetReady`, or `SetFailed`; the on_search
handler; `UploadSave` and `UploadReady`; `StartCheck` and `StartLoad` of a start;
the two deletions; expiry and crashes.

**Sessions.** The sessions of one BPP, with a request per create, toggle, get, list,
delete or clear. `Arrive` picks the request, the other actions are the store calls; a
listing reads a page (`ReadPage`), looks at the index (`MatchPage`) and saves the
sessions that are past their time as expired (`MarkExpired`). `orderly` is a history
variable: FALSE once two requests overlapped or a toggle revived a session that had
been replaced.

**RateLimiter.** Dispatch loops, the coordinator's one throttle and the two buckets.
`Start` makes a pacing throttle and replaces the coordinator's; `BeginStage` takes the
one that is there, so a loop may use another run's, or share one. A token is `Unit`
units, so a bucket of capacity m gains m units a tick and all arithmetic is on
integers, as exact as the script's fractions. A caller's time is read in `Stamp` and
used in `Eval`, so calls overtake each other. `EvalFails` covers a script that did not
run and one whose answer was lost. `mark` and `passed` count the tokens taken in a
window that may open whenever no call is under way.

**RunLog.** The log of one run with everyone who uses it at once, on either store.
With the memory store a write takes the lock (`BeginWrite`) and gives it back
(`EndWrite`), and a read is two steps: `Fetch` gets the bucket under the lock,
`Read` looks into it without. `Fatal` is the runtime's "concurrent map read and map
write", possible between the two while somebody writes that bucket. `intact` says
whether the buffer a stored callback points into still holds it, `counted` which
transactions the wait had counted when it returned. With Redis a write
is HSET and EXPIRE, and a clean-up is a scan and a deletion. `Sender` is the goroutine
of a request, `Arrive`, `CallbackRecorded`, `GetTimestamp` a handler; `WaitReturns`,
`Build`, `List`, `FlushRun`, `Save`, `SaveEnds`, `CleanMemory` or `ScanKeys` and
`DeleteKeys` the run; `PageList` and `PageGet` the payload page.

**OrderPayloads, RunReports** and **OrderFlow.** The first two are functions: what the
requests of a run say (`SelectOrders`, `NormalizeSelect`, `EnrichInit`,
`EnrichConfirm`, `ShouldCorrupt`, `CorruptForStage`) and what is reported of it
(`PercentileMs` to `BehaviorRow`). `OrderFlow` applies them to a run: it follows one
transaction from its select to its confirm and counts the others, so that the batch
shrinks and indices move as they do in the code. JSON objects are records, an absent
member is `Nil`. Nothing here is recursive: `FirstNonEmpty` and `ItemCount` take the
first or last index that has what they look for, and `Sorted` puts at k the least
sample that has k samples up to it (`SortedSorts` compares it with `SortSeq`,
`SortedIsSorting` proves it). Strings the prover cannot read as literals have names
(`Empty`, `TestBuyer`).

### Abstractions

* Transactions, payloads, catalogs and sessions are model values. Signature
  verification of `on_select`, `on_init` and `on_confirm` is one nondeterministic
  outcome; of `on_search` it is modelled, because the order of two writes decides
  whether it happens.
* The seller is unconstrained: it accepts, refuses, times out, answers late, twice or
  never, and in `PreorderPipeline` sends callbacks nobody asked for, at most
  `MaxUnasked` of them good. In `LatencyPipeline` each transaction is sent once. Only
  in `OrderFlow` does it behave: it repeats the order, or parts of it, and either
  refuses what names something it does not have or lets everything pass. `OrderFlow`
  has a transaction for each payload.
* Which payload can be built from a callback is one bit in `PreorderPipeline`; what
  is built is in `OrderPayloads`. `PreorderPipeline` and `LatencyPipeline` use the run
  log as atomic; `RunLog` shows what of that holds.
* `RunLog` has one stage; the next batch reads another bucket than the one the stage
  writes. A behaviour has at most one fault (`faulty`).
* Reports keep shares as two counts and compare by multiplying out; averages,
  rounding and layout are left out. Of what the payloads fill in with fixed texts
  (addresses, payment terms, types, times) only the place, the person and the amount
  are kept.
* The four setters that configure the coordinator are one step in `PreorderPipeline`,
  which uses only the linker; `RateLimiter` has the throttle. With separate steps the
  settings of two sessions could be mixed as well.
* `Discovery` and `RunLifecycle` leave the session itself to `Sessions`: a request
  that `Manager.Get` refuses is no step.
* A route (`txn:<id>`) outlives the wait for its callback.
* The counters of the throttle and of the limiter only feed log lines and are left
  out.

## 3. Runs

| Run | Instance | Shows |
|---|---|---|
| `notifier` | 2 runs, 2 callbacks, 2 stages, targets to 2 | `NoLostWakeup`, `WaiterCellIsLive`, `CallbackReachesWaiter`, `ShortCountOnlyAfterDeadline`; liveness `EnoughCallbacksWake`, `EveryRunIsReset` |
| `notifier_panic` | 2 runs, 2 callbacks, 1 stage | violation of `CallbackNeverPanics` |
| `dispatcher` | 4 payloads; limits 0, 1, 2, 5 | `InFlightBounded`, `OutcomeTellsWhetherSent`, refinement `ImplementsBatch`, liveness `DispatchReturns` |
| `runs` | 2 starts, 1 stop, a delete, 2 stages, 1 run that may outlast its document | `RunningHasOwner`, `FinalStatusSaved`, `ThrottleMetricsSaved`, liveness `SessionIsReleased` |
| `latency` | 1 transaction, 2 callbacks, queue of 1, 1 worker, timestamps that may be lost | `NoEventVanishes`, `OutcomesRespectDeadline`, `SummaryAccountsForSends`, `FirstOutcomeStands`, liveness `QueueIsDrained` |
| `latency_counters` | the same | violation of `CountersReflectMongo` |
| `pipeline` | 2 runs; batches of (1, 1) and (2, 0), with and without a transaction_id, shared by the runs or not; 1 unasked callback | `RequestFollowsCallback`, `CallbackCreditedToItsRun`, liveness `EveryRunEnds` |
| `discovery` | 2 discoveries, 1 upload, 1 start, 1 delete, 1 callback | `StartFindsCatalog`, `PendingHasPoller`, `CatalogPassedVerification`, liveness `PendingEnds` |
| `sessions` | 3 requests of any kind, listings included, all at once if need be | `OneActiveSession`, `DeletionIsFinal` |
| `limiter` | 2 callers of one session with intervals 1 and 2, capacities 2 and 1, 3 ticks | `LimiterTypeOK`, `RateBounded`, `Paced` |
| `runlog` | 2 transactions, 2 callbacks of the first, either store, one fault | `SentAtIsFound`, `CountedCallbackIsUsed`, `FlushKeepsPayloads`, `RacesEndWithDispatch`, liveness `LogIsReleased` |
| `orders` | 864 catalogs (fulfillments, locations and items with and without names) with 10 requests in a second; one catalog at 1 to 31 requests a second for 1 to 8 seconds | `OrderIsCarriedThrough`, `NamesAreAccountedFor`, `PercentilesHaveTheirRank`, `InjectionIsVisible` |

The type invariants are theorems (section 4) and not repeated in the runs, except
that of the limiter: that a bucket never holds more than its capacity is part of it.

Why the bounds are enough for the cases that matter:

* *notifier*: two callbacks can meet one full channel; a second run shows that
  `Reset` touches only its own keys; a second stage, that cells are not mixed up.
  The proofs cover any number.
* *dispatcher*: limits below, at and above the batch size, and the default of 256
  for 0.
* *runs*: two starts race for the claim. Two stages suffice because no guard tells
  a stage from a later one. One run may lose its document (`MaxExpired`), whichever it
  is and whenever, beside one that keeps it.
* *latency*: two callbacks are a duplicate pair, one of which may be late; a queue
  of one is full while the other event waits, so the synchronous path runs. The
  proofs cover any number of transactions.
* *pipeline*: with (1, 1) two runs reconfigure the coordinator under each other;
  with (2, 0) one run has two payloads, in two transactions or one, and the other
  an empty batch. Both runs may have one transaction_id. One good callback that nobody
  asked for (`MaxUnasked`) is enough to reach a confirm without an init. The proofs
  cover any number.
* *discovery*: a second discovery and an upload can replace the status between any
  two calls of the first. The proofs cover any number.
* *sessions*: two creates and a third request of any kind, or a create, and a
  toggle or get that a delete overtakes: the least for either property to be at
  stake. The proofs cover any number.
* *limiter*: two ticks fill a bucket, calls are up to one tick late, and a bucket
  expires after three, the least that the assumption on the constants allows; three
  ticks let a bucket expire and be made anew inside a window. Two callers with
  different intervals can replace each other's throttle and share one; because of the
  intervals they are not interchangeable, so there is no symmetry. The proofs cover
  any number of callers and sessions, any capacities and any clock.
* *runlog*: one transaction that is answered twice and one that never is; two
  senders and two handlers are enough for every pair of reader and writer of a
  bucket. With one fault a failure can hit any one call, which is what each property
  excuses. The proofs cover any number of transactions and callbacks.
* *orders*: two items that name a location or a fulfillment of the provider, another
  one, or none, in all combinations with a provider that has none, nameless or
  several, the second item with a name or without; all choices and orders of items;
  the corrupted indices, one next to them and the last. Rates 1 to 31 pass the edges
  at 1, 10, 20 and 30, where the number of corrupted requests changes; eight seconds
  bring the share of a shrinking batch into the tolerance and out of it.
  `InjectionIsVisible` and the share of `NamesAreAccountedFor` are proved for every
  rate and duration.

Deadlock is checked except in `discovery`, `sessions`, `limiter`, `runlog` and
`orders`, where all requests may have been answered, a run may be over, or time may
have reached its bound.

### Fairness

`SafetySpec` has none. `Spec` adds weak fairness for what the code guarantees to
go on: runnable goroutines are scheduled by the Go runtime; `sendFn` and `Search`
return because the HTTP client has a timeout; `WaitForCount` and the discovery poll
have deadlines; handlers and workers that have begun go on. `LatencyPipeline` needs
only that workers are scheduled and MongoDB calls return. Nothing is assumed of
the seller (it need not call back), of clients (nobody need stop, cancel or
delete), of crashes, or of expiry, with one exception: `Discovery` assumes that a
status which a *fault* left behind expires in the end. `EnoughCallbacksWake` does
not use the fairness of the deadline: enough callbacks wake the waiter without it.
`RunLog` adds that Redis expires its keys; a handler that has begun goes on, but the
page need not be opened.
`DispatchReturns` and `EveryRunEnds` assume that `throttle.Acquire` returns; while
Redis keeps failing it does not (see section 6).

## 4. Proofs

All theorems are `SafetySpec => ...` (`LimiterSpec` and `FlowSpec` in the two modules
that share a proof module), for any value of the constants that satisfies the module's
named assumption, and rest on an inductive invariant (`IInv`, `BucketsInv`, `LogInv`,
`FlowInv`) that holds initially and is preserved by every step, the latter with a
lemma per action or group of actions. The assumptions say that sets of model values
are disjoint and numbers positive. These say more:
`TTL >= Unit + MaxDelay` in `RateLimiter` (a bucket lives for 10 s after its last use
and is full after one, rate_limiter.go); in `OrderFlow`, `ScenesAreRuns` (a run has a
rate and a duration), `ScenesAreShops` (a catalog has a provider with at least one
item, its names are strings, and none is one of the three `wrong-...-id` of
`corruptForStage`) and `NilIsAbsent` (`Nil` differs from what a present member can be).
`SortedSorts` in `RunReports` is a check of a definition that TLC evaluates; no proof
cites it.

* **CallbackNotifierProofs.** `NoLostWakeup` alone is not inductive: one must know
  that the callback and the waiter use the same cell. `Owned` (a cell is found only
  under the key it was made for), `Held` (a `Notify` holds the cell that is in the
  map, until the run's `Reset`) and `Open` (only that `Reset` closes it) give that;
  `ReturnJustified` gives `ShortCountOnlyAfterDeadline`. `CountExact` is proved with
  cardinality facts on the set of callbacks. The constants: `Callbacks` is finite.
* **DispatcherProofs.** `Slots` relates the semaphore to the goroutines that hold a
  slot (the slot that a cancelled loop keeps makes it an inequality) and yields
  `InFlightBounded`. `Progress` says which payloads have an outcome, given the loop
  index; with it each step is a step or a stutter of `BatchDispatch`, the theorem
  `DispatcherImplementsBatch`. For the limiter, `RateBounded` follows from `Covered`:
  what a bucket has left and what it gave out since the window opened is at most its
  capacity and what it gained. Two things make that delicate. Calls reach Redis with
  times that go backwards, which takes units away and moves `last` back, so `Timely`
  bounds how old a time is and `Solvent` how far a bucket can be in debt; and a bucket
  may expire while it owes, to be made anew and full, so `Covered` has a second case:
  by then the time since the last use pays for all it gave out, which is where the
  assumption on `TTL` is needed. `Paced` needs `Scheduled`: a loop that is about to be
  let through is due an interval after it last was, and so is the schedule of the
  throttle it holds, whoever moved that meanwhile; and `Bounded`: no schedule is more
  than an interval ahead, so loops that share a throttle never move it back.
* **RunLifecycleProofs.** `Documented` (a claimed run has a document until it expires),
  `Decided` (a finishing run has its verdict, and no final status is another), `Kept`
  and `Saved` (the throttle metrics survive the read-modify-write of a run that no stop
  request found) support `RunningHasOwner`, `FinalStatusSaved` and
  `ThrottleMetricsSaved`.
* **LatencyPipelineProofs.** `Handled`, `Queued`, `Carried`, `Authors`, `Judged` and
  `Covered` follow an event from handler to document and a transaction through
  finalization. `LateIsSettled` is the point of `OutcomesRespectDeadline`: when the
  clean-up removes `sent_at`, every transaction sent already has a document, so a
  late callback that can no longer be measured changes nothing. It holds for the
  transactions whose time the run log has kept, and `Covered` likewise.
  `FirstOutcomeStands` is an action property and follows action by action.
* **PreorderPipelineProofs.** `RequestFollowsCallback` speaks of requests that have
  left; `Sourced` says of every callback credited that it was asked for or is among
  the unasked, `Queued` that payloads still to be sent have a credited callback, and
  `InOrder` that a run starts with select and builds nothing after confirm. Nothing is
  assumed of transactions but that `Txn` gives each payload one. For `OrderFlow`,
  `FlowInv` says that each batch has as many requests as the one before it had
  successes. The rest is arithmetic. `ShareOfSecond` and `CorruptedOf` count the
  corrupted indices of a window and of a batch by a bijection with an interval;
  `ShareBounds` bounds the share of a batch of any length, above and below;
  `WithinTolerance` takes it through three shrinking batches, where only the confirm
  requests of a run of exactly five seconds need the exact count. `InjectionShows` is
  `InjectionIsVisible` at every rate and duration; `SharesAreInjected` is the second
  half of `NamesAreAccountedFor`.

  `OrderIsCarriedThrough` speaks of one point of the run and the first half of
  `NamesAreAccountedFor` of three, so neither is inductive. `OrderInv` describes the
  order at every point: `Shaped` (it has the members the code looks at), `Wronged` when
  the transaction was tainted (the provider or the first fulfillment has a name that
  is in no catalog), `Clean` when it was not (items and quantities of its select, names
  of the catalog, the place that was asked for). A
  clean order stays so through `Answer`, `EnrichInit` and `EnrichConfirm`
  (`InitIsClean`, `ConfirmIsClean`), which is where the quantities come back from the
  quote and the place from the recorded select; a wronged one stays wronged because
  the three keep all names (`AnswerKeeps`, `EnrichInitKeeps`, `EnrichConfirmKeeps`).
  Was the select clean to begin with? `CatalogOrderIsClean` says so for any choice of
  items; `SetToSeqLists` is what it needs of the fulfillments. TLC checked `OrderInv`
  on the states of `orders` before it was proved.

  `PercentilesHaveTheirRank` rests on what `Sorted` does with any latencies:
  `LeastElement` and `GreatestElement` (from the well-foundedness of the naturals) make
  its minimum exist, `SortedAt` gives the rank of the sample at k, `SortedIsSorting`
  says it is a sort, and `PercentileRank` turns the index of `percentileMs` into a rank.
* **RunLogProofs.** None of the properties is inductive. `Order` says who has
  sent by the time another reads, `Kept` that what was recorded stays until the
  clean-up unless a call failed. With the memory store a reader fetches a bucket under
  the lock and looks into it later, perhaps after the clean-up has replaced it:
  `RefsAreHeld` and `Fetched` say that the bucket it holds has what it will look for.
  `LockIsHeld` names the writers a reader can meet (`RacesEndWithDispatch`), and
  `Entries` whose callbacks are stored where. `CallbacksKept` and `CallbacksFetched` say
  that a counted callback is in the bucket, and in the one the run has fetched, until
  its request is built (`CountedCallbackIsUsed`); `Flushing` says that what
  is owed and not yet saved is still there under a key still to come
  (`FlushKeepsPayloads`).
* **DiscoveryProofs.** `Ready` carries `StartFindsCatalog` from the write of a catalog
  to the status that announces it, past deletions and further discoveries. For
  `CatalogPassedVerification` one follows a payload: `Routed` (a search that has left
  has a route that asks for verification if its session does), `Verified` (a callback
  that was let through answers such a search and passed) and `Arrived` (payloads and
  catalogs came in a callback that was let through).
* **SessionsProofs.** `Placed` says which requests can be at which call, and that
  those which use a target have one. With it nobody writes a session that is `Gone`,
  so `DeletionIsFinal` holds action by action, with any overlap and any failure.
  `OneActiveSession` needs `Settled`: a session that has a key is the one the index
  names, except while its deletion or its creation is half done.

Every safety property of a passing run is stated by a theorem. Only model-checked are
the liveness properties, because the prover does no fairness (`EnoughCallbacksWake`,
`EveryRunIsReset`, `DispatchReturns`, `SessionIsReleased`, `QueueIsDrained`,
`EveryRunEnds`, `PendingEnds`, `LogIsReleased`), and the two violations.

## 5. Findings

Each is a run that TLC must find violated.

* `notifier_panic`: a callback that took its cell before `Reset` sends on the
  channel that `Reset` closed. The panic is in the handler's goroutine, no recover
  middleware is installed, and it ends every session's runs, although "one team's
  load test doesn't interfere with another's" (README.md:7).
* `latency_counters`: finalization stores a failure for a transaction whose
  success is counted and still in the queue; record.go:144 says the counters
  reflect what is stored.

## 6. Seen, without a run of its own

Runs and sessions:

* Two starts pass the check of `StartRun` before either has claimed the session, or
  one starts while the last run is stopping; docs/openapi.yaml:297 promises a 409.
  The properties of `runs` hold with both active. `FinishRun` writes "idle" whichever
  run is active by then (manager.go:185), so the session looks idle under the second.
* A second session's start replaces the linker, the throttle, the core version and the
  error injection of a run that is sending (routes.go:654-661). Its routes then name
  the other session, and its next stage is paced by the other's rate, charged to the
  other's bucket and corrupted as the other asked (coordinator.go:211, 241, 269); two
  runs that share a throttle are not kept apart. What holds:
  `CallbackCreditedToItsRun` (the run is in the route too) and `Paced` (each loop
  keeps the interval of the throttle it has). `Paced` is about being let through; the
  semaphore comes after it.
* `run:<id>` is written before the run starts, with the TTL of the session (one hour
  by default), and not again until it ends, while `duration_sec` is unbounded. After a
  longer run `SetRunSystemMetrics` and `FinishRun` find no document (manager.go:188,
  324) and the run is saved nowhere; a document that goes between the two leaves it in
  MongoDB as "running". No call fails. `FinalStatusSaved` excepts such runs.
* After a crash the session stays "running" until its key expires: nothing recovers it.
* A stop that read the run's document before `SetRunSystemMetrics` wrote it takes the
  throttle metrics away again (`ThrottleMetricsSaved` is about the other runs).
* A toggle, a get or a listing that read a session before it was deleted saves it again,
  and the deleted session is back in MongoDB or in both stores; nothing else brings one
  back (`DeletionIsFinal`). src/README.md:74 calls the delete a soft one; it removes the
  documents (mongo_store.go:383-388).
* A stop request only changes what is stored; `runPreorder` looks at a context that
  nobody cancels, so the run goes through all its stages (README.md:44: "to abort
  mid-flight"). `RunStage` has no guard on the stored state.
* `OneActiveSession` needs its conditions. Even one at a time, create A, create B,
  toggle A (which moves the index back to A), create C leaves B and C both usable;
  two overlapping creates do the same. docs/openapi.yaml:106 states it without
  conditions.
* An error of Redis makes the limiter deny, and a denied caller tries again for
  ever; if Redis loses the script the run neither sends nor ends.
* A global token is spent when the session's bucket refuses. `RateBounded` counts
  it as given out, so the bound holds for it too.

Transactions and callbacks:

* A start with a `transaction_id` (routes.go:640) gives all payloads one transaction.
  Within a run they share one stored callback, so every init and confirm is the last
  order answered, and one latency event, so N requests are summarised as one
  (routes.go:1174-1194). Of two runs with the same id the one that linked it last takes
  the callbacks of both, and the other waits in vain; `CallbackCreditedToItsRun` permits
  that and says so.
* `buildBatchFromCallbacks` tries all transactions of the run, whatever was sent of them
  in the last stage, and the handler stores any callback that has a route. An `on_init`
  that nobody asked for makes a confirm without an init: the exception of
  `RequestFollowsCallback`.
* A callback without an Authorization header passes verification (record.go:25-27);
  `CatalogPassedVerification` is about headers that do not verify.
* With the Redis run log a `sent_at` that could not be written (coordinator.go:222),
  could not be read (record.go:186) or has expired (`RUN_PAYLOAD_TTL_SECONDS`) makes a
  late callback a success, and a request that is never answered is left out of the
  summary, without any error being noticed. docs/latency_metrics.md:43 says a late
  callback "is treated as **timeout**". `OutcomesRespectDeadline` and
  `SummaryAccountsForSends` name these cases and show that there are no others.
* The summary is counted before the bulk write: a document that a worker stores in
  between says success where the summary says failure. The opposite cannot happen
  (`SummaryAccountsForSends`).

Run log:

* `Fatal` is enabled: with the memory store, a callback that looks for its time, or
  the payload page, can meet a request being recorded, and the build of the next
  batch a late callback. `RacesEndWithDispatch` says when this is over.
* `Garbled` is reachable: the memory store, the default (config.go:96), keeps
  `ctx.Body()` without a copy (record.go:132), and the server reuses the buffer. An init
  can be built from the bytes of another request, although "`init` is built from the
  actual `on_select` response" (src/README.md:12). `CountedCallbackIsUsed` says only of
  the Redis store whose callback it is.
* A callback after the clean-up stays in memory until the process ends. In Redis it
  expires, unless its EXPIRE failed. `LogIsReleased` names both exceptions.
* When `Export` or a flush ends with an error the clean-up follows all the same, and
  what was recorded is lost (`FlushKeepsPayloads` is about flushes that succeed).
  `Export` of the memory store holds its lock over all calls to MongoDB.

Payloads and reports:

* Where no chosen item has a fulfillment, its own or the provider's, the fulfillment of
  the example payload stays in the order, and where none has a location the example's
  location does (select_batch.go:541-550): an uncorrupted request can name what the
  seller does not have. `NamesAreAccountedFor` says that these are the only two such
  names. A provider without a location does not have the locations of all its items
  ("location_id must be in provider.locations[].id", select_batch.go:403, :539):
  `OrderIsCarriedThrough` asks only where it has them.
* `enrichInit` passes over items without an id (init_confirm_from_callbacks.go:126,
  154): when the seller leaves the quantities out such an item is confirmed without
  one.
* A payload that `preparePayload` refuses is counted as sent and has no `sent_at`, so it
  is in the request metrics and in no summary.
* `enrichConfirm` fills no quantities: an `on_init` that leaves them out makes a
  confirm without. In `OrderFlow` only `on_select` leaves them out.
* Later stages have compacted batches, so when the seller refuses what is wrong each
  stage corrupts other transactions.
* The workbook calls a seller that refuses exactly the injected share "Higher" or
  "Lower than expected" at the rates where `floor(rps * 0.10)`, or one, is outside
  8 to 12 percent (1 to 8, 13 to 19, 26 to 29, 38 and 39), and in short runs at other
  rates. `InjectionIsVisible` is stated for the rest.

## 7. Not modelled

* `domain/pipeline/report.go`, `normalizeProviderID`, and `Count` with the counters of
  the run log: nothing in the repository calls them. Batches from example files are
  reached only with an empty run id.
* Signing and verification: stateless; the verdict is an outcome in the models. The
  registry client: a cached look-up. Store clients: thin wrappers, but for the
  several calls of `DelPattern`, which are in `RunLog`. Configuration, documentation
  routes and error envelopes: no state.
* The export command's input and the layout of its workbook. The reports of a run and of
  a session (`writeRunReport`, `sessionReport`), which add up what `RunReports` has.

## 8. Plan

Order of the work: first what carries a run (notifier, dispatcher, lifecycle,
latency, pipeline), then what surrounds it (discovery, sessions, limiter), then the
run log, the payloads and the reports. Those modules are done, and every safety
property of a passing run is a theorem. What is left:

1. An abstract specification of a run that `RunLifecycle` implements while no call
   fails.
2. The liveness properties as theorems, with a prover that does fairness.
