-------------------------- MODULE PreorderPipeline --------------------------
(***************************************************************************)
(* The pre-order runs of several sessions through the one BCoordinator of  *)
(* the process: startPreorder configures it, runPreorder takes a run       *)
(* through select, init and confirm (internal/handlers/testing/routes.go), *)
(* the coordinator sends the requests of a stage and buildBatchFromCallbacks *)
(* makes the next batch from the callbacks the seller has sent             *)
(* (internal/domain/pipeline).  Each run belongs to a session of its own.  *)
(*                                                                         *)
(* The dispatcher and the notifier appear as what Dispatcher and           *)
(* CallbackNotifier establish: a stage is over when every payload of it    *)
(* has an outcome, a wait returns with enough callbacks or at its deadline. *)
(***************************************************************************)
EXTENDS Naturals, FiniteSets

CONSTANTS Runs,        \* runs, each of a session of its own
          TxnIds,      \* transaction ids that clients give to their runs
          NoTxn,       \* the client gives none
          Loads,       \* what the starts ask for: a batch size for each run,
                       \* rps * duration_sec, or 0 when the catalog is empty,
                       \* and a transaction_id, perhaps that of another run
          NoRun,       \* nobody has configured the coordinator
          MaxUnasked   \* bound on callbacks to a run that has not asked for them

ASSUME PipelineConstants ==
    /\ Loads \subseteq [Runs -> Nat] \X [Runs -> TxnIds \cup {NoTxn}]
    /\ NoRun \notin Runs
    /\ NoTxn \notin TxnIds
    /\ MaxUnasked \in Nat

Stages == 1..3        \* select, init, confirm
Answers == 1..2       \* on_select, on_init: a batch is built from these; an
                      \* on_confirm is stored too, but no run reads it (RunLog)

VARIABLES
    size,       \* the batch size of each run
    name,       \* the transaction_id each run was started with
    linker,     \* the run whose startPreorder last configured the coordinator
    rpc,        \* program counter of each run
    stage,      \* the stage a run is in
    ppc,        \* progress of each payload of the stage
    route,      \* txn:<id> in Redis: the run and the session it names
    sent,       \* requests <<run, stage, payload>> handed to the seller client
    acks,       \* <<run, stage, txn>> of the good callbacks credited to the run
    unasked,    \* those of them that came before the run sent such a request
    usable      \* <<run, stage, txn>> whose stored callback is not a NACK

vars == <<size, name, linker, rpc, stage, ppc, route, sent, acks, unasked, usable>>

Payloads(r) == 1..size[r]
Indices == UNION {1..l[1][r] : l \in Loads, r \in Runs}

\* buildSelectPayloads: a new transaction per payload, or the client's for all.
Txn(r, i) == IF name[r] # NoTxn THEN name[r] ELSE <<r, i>>
Txns == UNION {{Txn(r, i) : i \in Payloads(r)} : r \in Runs}
NoRoute == [run |-> NoRun, session |-> NoRun]

Init ==
    /\ \E l \in Loads : size = l[1] /\ name = l[2]
    /\ linker = NoRun
    /\ rpc = [r \in Runs |-> "new"]
    /\ stage = [r \in Runs |-> 1]
    /\ ppc = [r \in Runs |-> [i \in Payloads(r) |-> "todo"]]
    /\ route = [t \in Txns |-> NoRoute]
    /\ sent = {}
    /\ acks = {}
    /\ unasked = {}
    /\ usable = {}

Goto(r, at) == rpc' = [rpc EXCEPT ![r] = at]

-----------------------------------------------------------------------------
(* startPreorder and the stages of run r.                                  *)

\* The select batch is there; SetTxnLinker, SetThrottle, SetCoreVersion and
\* SetErrorInjection overwrite what the last start left in the coordinator,
\* and the goroutine starts.
Configure(r) ==
    /\ rpc[r] = "new"
    /\ linker' = r
    /\ Goto(r, "sending")
    /\ UNCHANGED <<size, name, stage, ppc, route, sent, acks, unasked, usable>>

\* Mutant: the linker keeps the run it was made for.
LinkedByMaker(r, i) ==
    {route, [route EXCEPT ![Txn(r, i)] = [run |-> linker, session |-> linker]]}

\* c.linkTxn(runID, txnID): the run is an argument, the session is the linker's.
\* An error of Redis is ignored: the route stays as it was.
Linked(r, i) ==
    {route, [route EXCEPT ![Txn(r, i)] = [run |-> r, session |-> linker]]}

\* preparePayload fails, or the dispatcher refuses the payload: it is not sent.
Refuse(r, i) ==
    /\ rpc[r] = "sending" /\ ppc[r][i] = "todo"
    /\ ppc' = [ppc EXCEPT ![r][i] = "error"]
    /\ UNCHANGED <<size, name, linker, rpc, stage, route, sent, acks, unasked, usable>>

\* sendFn: the link (select only), the run log, and the request leaves.
Send(r, i) ==
    /\ rpc[r] = "sending" /\ ppc[r][i] = "todo"
    /\ route' \in IF stage[r] = 1 THEN Linked(r, i) ELSE {route}
    /\ sent' = sent \cup {<<r, stage[r], i>>}
    /\ ppc' = [ppc EXCEPT ![r][i] = "sent"]
    /\ UNCHANGED <<size, name, linker, rpc, stage, acks, unasked, usable>>

\* The seller call returns; a callback may have come before it.
SellerReturns(r, i) ==
    /\ ppc[r][i] = "sent"
    /\ \E o \in {"ok", "error"} : ppc' = [ppc EXCEPT ![r][i] = o]
    /\ UNCHANGED <<size, name, linker, rpc, stage, route, sent, acks, unasked, usable>>

\* countSuccess(results)
SentOk(r) == Cardinality({i \in Payloads(r) : ppc[r][i] = "ok"})

\* The dispatcher returns; a stage that reached nobody ends the run, and so
\* does an empty batch.
StageSent(r) ==
    /\ rpc[r] = "sending"
    /\ \A i \in Payloads(r) : ppc[r][i] \in {"ok", "error", "skip"}
    /\ Goto(r, IF SentOk(r) = 0 THEN "finish" ELSE "wait")
    /\ UNCHANGED <<size, name, linker, stage, ppc, route, sent, acks, unasked, usable>>

\* Mutant: the wait has no deadline.
WaitForAll(r) ==
    LET answered == \A i \in Payloads(r) : ppc[r][i] = "ok" => <<r, stage[r], Txn(r, i)>> \in acks IN
    /\ rpc[r] = "wait"
    /\ Goto(r, IF ~answered THEN "wait" ELSE IF stage[r] = 3 THEN "finish" ELSE "build")
    /\ UNCHANGED <<size, name, linker, stage, ppc, route, sent, acks, unasked, usable>>

\* WaitForCount returns, with enough callbacks or at its deadline, and the gap
\* between stages passes.
Wait(r) ==
    /\ rpc[r] = "wait"
    /\ Goto(r, IF stage[r] = 3 THEN "finish" ELSE "build")
    /\ UNCHANGED <<size, name, linker, stage, ppc, route, sent, acks, unasked, usable>>

\* Mutant: what the example would give, a payload for every transaction.
BuildableFromExample(r, i) == TRUE

\* buildBatchFromCallbacks takes a payload only for a transaction whose stored
\* callback of the stage is there and is not a NACK.
Buildable(r, i) == <<r, stage[r], Txn(r, i)>> \in usable

\* BuildInitBatchFromOnSelect, BuildConfirmBatchFromOnInit: the order of the
\* callback, enriched, is the next request.  The batch may be empty.
NextBatch(r) == [i \in Payloads(r) |-> IF Buildable(r, i) THEN "todo" ELSE "skip"]

BuildNext(r) ==
    /\ rpc[r] = "build"
    /\ ppc' = [ppc EXCEPT ![r] = NextBatch(r)]
    /\ stage' = [stage EXCEPT ![r] = @ + 1]
    /\ Goto(r, "sending")
    /\ UNCHANGED <<size, name, linker, route, sent, acks, unasked, usable>>

\* The deferred function: metrics, FinishRun, Reset and Cleanup of the run log.
Finish(r) ==
    /\ rpc[r] = "finish"
    /\ usable' = {u \in usable : u[1] # r}
    /\ Goto(r, "done")
    /\ UNCHANGED <<size, name, linker, stage, ppc, route, sent, acks, unasked>>

-----------------------------------------------------------------------------
\* Run r has sent a request of stage s for transaction t.
Asked(r, s, t) == \E q \in sent : q[1] = r /\ q[2] = s /\ Txn(r, q[3]) = t

\* Somebody calls /on_select or /on_init with transaction t: the
\* answer to a request, the same once more, or what nobody asked for.  The
\* handler looks the run up by the transaction, drops the body when there is
\* none, and otherwise stores it over an earlier one, whether the signature and
\* the payload are valid or not; a failed write is only logged.
Callback(t, s) ==
    LET entry == <<route[t].run, s, t>> IN
    /\ route[t].run # NoRun
    /\ \/ /\ usable' \in {usable, usable \cup {entry}}
          /\ acks' = acks \cup {entry}
          /\ IF Asked(route[t].run, s, t)
               THEN UNCHANGED unasked
               ELSE Cardinality(unasked) < MaxUnasked /\ unasked' = unasked \cup {entry}
       \/ /\ usable' = usable \ {entry}          \* a NACK
          /\ UNCHANGED <<acks, unasked>>
    /\ UNCHANGED <<size, name, linker, rpc, stage, ppc, route, sent>>

-----------------------------------------------------------------------------
Run(r) ==
    \/ Configure(r)
    \/ StageSent(r)
    \/ Wait(r)
    \/ BuildNext(r)
    \/ Finish(r)

Payload(r, i) == Refuse(r, i) \/ Send(r, i) \/ SellerReturns(r, i)

Terminated == (\A r \in Runs : rpc[r] = "done") /\ UNCHANGED vars

Next ==
    \/ \E r \in Runs : Run(r) \/ \E i \in Payloads(r) : Payload(r, i)
    \/ \E t \in Txns, s \in Answers : Callback(t, s)
    \/ Terminated

SafetySpec == Init /\ [][Next]_vars

\* The goroutines of a run are scheduled, seller calls return and the wait has
\* a deadline.  The seller need not answer.
Spec ==
    /\ SafetySpec
    /\ \A r \in Runs :
        /\ WF_vars(Run(r))
        /\ \A i \in Indices : WF_vars(i \in Payloads(r) /\ Payload(r, i))

-----------------------------------------------------------------------------
(* Properties.                                                             *)

\* Type invariant: settings, runs, payloads, routes and callbacks.
TypeOK ==
    /\ <<size, name>> \in Loads
    /\ linker \in Runs \cup {NoRun}
    /\ rpc \in [Runs -> {"new", "sending", "wait", "build", "finish", "done"}]
    /\ stage \in [Runs -> Stages]
    /\ DOMAIN ppc = Runs
    /\ \A r \in Runs : ppc[r] \in [Payloads(r) -> {"todo", "sent", "ok", "error", "skip"}]
    /\ route \in [Txns -> [run : Runs \cup {NoRun}, session : Runs \cup {NoRun}]]
    /\ \A q \in sent : q[1] \in Runs /\ q[2] \in Stages /\ q[3] \in Payloads(q[1])
    /\ acks \subseteq Runs \X Answers \X Txns
    /\ unasked \subseteq acks /\ usable \subseteq acks

\* "init is built from the actual on_select response, confirm from on_init"
\* (README.md:12): a run sends an init or a confirm only for a transaction whose
\* good callback of the stage before was credited to it, and which it had asked
\* the seller for, unless that callback came unasked: then a run may confirm
\* what it never sent an init for, but nothing it did not select itself.
RequestFollowsCallback ==
    \A q \in sent : q[2] > 1 =>
        LET t == Txn(q[1], q[3]) IN
        /\ <<q[1], q[2] - 1, t>> \in acks
        /\ Asked(q[1], q[2] - 1, t) \/ <<q[1], q[2] - 1, t>> \in unasked
        /\ Asked(q[1], 1, t)

\* A callback is credited only to a run that has sent a select with its
\* transaction, although the linker that routes it may be another run's by then.
\* A transaction of one run's own is so credited to that run; of two runs that
\* share a transaction_id, the one that linked it last takes the callbacks of
\* both (this property permits it).
CallbackCreditedToItsRun ==
    /\ \A t \in Txns : route[t].run # NoRun => Asked(route[t].run, 1, t)
    /\ \A e \in acks : Asked(e[1], 1, e[3])

\* A run ends whatever the seller does: calls that fail, callbacks that are
\* missing, NACKs, or an empty batch.
EveryRunEnds == \A r \in Runs : rpc[r] = "sending" ~> rpc[r] = "done"
=============================================================================
