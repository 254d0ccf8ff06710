------------------------------ MODULE OrderFlow ------------------------------
(***************************************************************************)
(* One run, seen from what its requests say: the batch of select requests  *)
(* is built and sent, some of it corrupted on purpose; the seller answers; *)
(* init and confirm requests are built from what it said and sent in turn; *)
(* at the end the run is reported on.  Of the batch the model follows one  *)
(* transaction in full, by its index, and counts the others.  Each payload *)
(* has a transaction of its own: in a run started with a transaction_id    *)
(* (routes.go:640-641) all orders share one recorded callback, and all the *)
(* inits and confirms repeat the last order that was answered.             *)
(*                                                                         *)
(* OrderPayloads has the requests, RunReports the reports.  The seller is  *)
(* external: it repeats the order it was asked for, and either refuses an  *)
(* order with a name that neither its catalog nor the example explains, or *)
(* lets everything pass.                                                   *)
(***************************************************************************)
EXTENDS OrderPayloads, RunReports

CONSTANT Scenes        \* runs and sellers to look at, each a record with
    \* rps, secs, enabled     the run and its error injection
    \* idx                    the transaction to follow
    \* prov                   the first provider of the catalog
    \* counts, ends, name     what the seller repeats of quantities and places,
    \*                        and the name it bills (or "")
    \* lenient                it lets every order pass
    \* slow                   how many callbacks of a stage take long

\* The names that errors are injected with are names of nothing.
Text == STRING \ {"wrong-item-id", "wrong-provider-id", "wrong-fulfillment-id"}

ASSUME ScenesAreRuns ==
    \A s \in Scenes :
        /\ s.rps \in Nat \ {0} /\ s.secs \in Nat \ {0} /\ s.idx \in 0..(s.rps * s.secs - 1)
        /\ s.enabled \in BOOLEAN /\ s.lenient \in BOOLEAN /\ s.slow \in Nat
        /\ s.counts \in BOOLEAN /\ s.ends \in BOOLEAN /\ s.name \in STRING

ASSUME ScenesAreShops ==
    \A s \in Scenes :
        /\ s.prov.id \in Text /\ s.prov.locations \in Seq(STRING)
        /\ s.prov.fulfillments \in Seq([id : Text])
        /\ s.prov.items \in Seq([id : Text, location_id : STRING, fulfillment_id : Text])
        /\ s.prov.items # <<>>

Actions == <<"select", "init", "confirm">>

VARIABLES
    scene,
    phase,      \* 1, 2, 3: select, init, confirm
    pc,         \* "build", "send", "answer", "lost" or "done"
    batch,      \* batch[s]: how many requests stage s sends
    idx,        \* the index in the batch of the transaction that is followed
    order,      \* its order; Nil when it has dropped out
    select,     \* its select, as recorded
    tainted     \* one of its requests was corrupted

flowVars == <<scene, phase, pc, batch, idx, order, select, tainted>>

\* The order of the example file: it names nothing of the catalog.
ExampleEnd == [gps |-> "g", area_code |-> "a", person |-> Nil]

Example ==
    [id |-> Nil, state |-> Nil, billing |-> Nil, amount |-> Nil, price |-> Nil, breakup |-> <<>>,
     provider |-> [id |-> "px", locations |-> {"lx"}],
     items |-> <<[id |-> "ix", count |-> 2, fulfillment_id |-> Nil, location_id |-> "lx"]>>,
     fulfillments |-> <<[id |-> "fx", end |-> ExampleEnd]>>]

\* Nil is none of the values that a member has when it is present: a name, a
\* quantity, a price, a place to deliver to, a provider.
ASSUME NilIsAbsent ==
    /\ Nil \notin STRING \cup Nat \cup {Empty, TestBuyer, "250"}
    /\ Nil # ExampleEnd
    /\ Nil \notin [id : STRING, locations : SUBSET (STRING \cup {"lx"})]

\* startPreorder: a batch of rps requests for each second.
FlowInit ==
    /\ scene \in Scenes
    /\ phase = 1 /\ pc = "build"
    /\ batch = <<scene.rps * scene.secs>> /\ idx = scene.idx
    /\ order = Nil /\ select = Nil /\ tainted = FALSE

-----------------------------------------------------------------------------
(* The seller.                                                             *)

\* It repeats what it was asked for, with a quote; on_select may leave out the
\* quantities, which are in the quote, and the place.
Answer(sent) ==
    [sent EXCEPT
        !.breakup = [k \in DOMAIN sent.items |->
                        [id |-> sent.items[k].id, count |-> sent.items[k].count]],
        !.price = "250",
        !.billing = IF scene.name = Empty THEN @ ELSE scene.name,
        !.items = [k \in DOMAIN @ |-> IF scene.counts \/ phase > 1 THEN @[k]
                                      ELSE [@[k] EXCEPT !.count = Nil]],
        !.fulfillments = [k \in DOMAIN @ |-> IF scene.ends \/ phase > 1 THEN @[k]
                                             ELSE [@[k] EXCEPT !.end = Nil]]]

\* What the catalog calls a fulfillment, and a location.
Fulfillments(prov) ==
    Range(Ids(prov.fulfillments)) \cup {prov.items[k].fulfillment_id : k \in DOMAIN prov.items}
Locations(prov) ==
    Range(prov.locations) \cup {prov.items[k].location_id : k \in DOMAIN prov.items}

\* The names of an order are those of the catalog.  An order none of whose items
\* has a fulfillment keeps the one of the example, and one none of whose items has
\* a location keeps that of the example: these two are all that is not the
\* catalog's, and the seller of the model takes them.
Known(o) ==
    LET prov == scene.prov
        fulfillments == {o.items[k].fulfillment_id : k \in DOMAIN o.items} \ {Empty}
        locations == {o.items[k].location_id : k \in DOMAIN o.items} \ {Empty} IN
    /\ o.provider.id = prov.id
    /\ Range(Ids(o.items)) \subseteq Range(Ids(prov.items))
    /\ fulfillments \subseteq Fulfillments(prov) /\ locations \subseteq Locations(prov)
    /\ Range(Ids(o.fulfillments)) = IF fulfillments = {} THEN {"fx"} ELSE fulfillments
    /\ IF locations = {} THEN o.provider.locations = {"lx"} ELSE o.provider.locations \subseteq locations

Valid(o) == Known(o) /\ o.state \in OrderStates \cup {Nil}

-----------------------------------------------------------------------------
(* The run.                                                                *)

Corrupted(n) == {i \in 0..(n - 1) : ShouldCorrupt(scene.enabled, scene.rps, i)}

\* The requests of stage s that are answered with a success.
Succeed(s) == IF scene.lenient THEN batch[s] ELSE batch[s] - Cardinality(Corrupted(batch[s]))

Go(from, to) == pc = from /\ pc' = to

BuildSelect ==
    /\ phase = 1 /\ Go("build", "send")
    /\ \E o \in SelectOrders(Example, <<scene.prov>>) : order' = NormalizeSelect(o)
    /\ UNCHANGED <<scene, phase, batch, idx, select, tainted>>

\* preparePayload, and the select that is sent is recorded.
SendRequest ==
    LET corrupt == idx \in Corrupted(batch[phase])
        sent == PreparePayload(Actions[phase], corrupt, order) IN
    /\ order # Nil /\ Go("send", "answer")
    /\ order' = sent /\ tainted' = (tainted \/ corrupt)
    /\ select' = IF phase = 1 THEN sent ELSE select
    /\ UNCHANGED <<scene, phase, batch, idx>>

\* buildBatchFromCallbacks: transactions with a callback stay, in their order, and
\* their requests are made from the callbacks.
NextStage ==
    LET refused == ~scene.lenient /\ ~Valid(order)
        before == IF scene.lenient THEN {} ELSE Corrupted(batch[phase]) \cap 0..(idx - 1) IN
    /\ phase < 3 /\ order # Nil /\ Go("answer", IF refused THEN "lost" ELSE "send")
    /\ phase' = phase + 1 /\ batch' = Append(batch, Succeed(phase))
    /\ idx' = idx - Cardinality(before)
    /\ order' = IF refused THEN Nil
                ELSE IF phase = 1 THEN EnrichInit(Answer(order), select)
                ELSE EnrichConfirm(Answer(order), "t")
    /\ UNCHANGED <<scene, select, tainted>>

\* The transaction has dropped out; the rest of the run goes on.
Without ==
    /\ pc = "lost" /\ phase < 3
    /\ phase' = phase + 1 /\ batch' = Append(batch, Succeed(phase))
    /\ UNCHANGED <<scene, pc, idx, order, select, tainted>>

FinishRun ==
    /\ phase = 3 /\ pc \in {"answer", "lost"} /\ pc' = "done"
    /\ UNCHANGED <<scene, phase, batch, idx, order, select, tainted>>

FlowNext == BuildSelect \/ SendRequest \/ NextStage \/ Without \/ FinishRun

FlowSpec == FlowInit /\ [][FlowNext]_flowVars

-----------------------------------------------------------------------------
(* The reports of the finished run.                                        *)

Samples(s) == [i \in 1..Succeed(s) |-> IF i <= scene.slow THEN 2 ELSE 1]

\* A request is counted as sent whether it succeeds or not.
Requests(s) == [sent |-> batch[s]]

Summary(s) == LatencySummary(Succeed(s), Samples(s))

StageJourney(s) == Journey(Requests(s), CallbackMetrics("completed", Nil, Summary(s)))
Journeys == <<StageJourney(1), StageJourney(2), StageJourney(3)>>

-----------------------------------------------------------------------------
(* Properties.                                                             *)

\* What the buyer confirms is what it selected: through two callbacks of a
\* seller that repeats the order the items, their quantities and the place to
\* deliver to stay, the amount is the quoted one, and every item is delivered by
\* a fulfillment of the order, from a location of the provider if it has one
\* ("location_id must be in provider.locations[].id", select_batch.go:403).  Only
\* an item without a name loses its quantity, when the seller leaves it out.
OrderIsCarriedThrough ==
    phase = 3 /\ pc = "send" /\ ~tainted =>
        /\ Ids(order.items) = Ids(select.items)
        /\ \A k \in DOMAIN order.items :
            order.items[k].count = IF order.items[k].id = Empty /\ ~scene.counts THEN Nil
                                   ELSE select.items[k].count
        /\ \A f \in Range(order.fulfillments) :
            f.end.gps = "g" /\ f.end.area_code = "a" /\ f.end.person # Nil
        /\ order.amount = "250" /\ order.id = "t"
        /\ \A item \in Range(order.items) :
            /\ DefaultFulfillmentId(scene.prov) # Empty =>
                item.fulfillment_id \in Range(Ids(order.fulfillments))
            /\ ProviderLocation(scene.prov) # Empty => item.location_id \in order.provider.locations

\* Of rps requests in a row as many are corrupted as README.md:176-178 says: one, or from
\* 10 on floor(rps * 0.10), and none at a rate of 1.
InjectedShare ==
    \A s \in DOMAIN batch :
        batch[s] >= scene.rps /\ scene.enabled =>
            Cardinality(Corrupted(batch[s]) \cap (batch[s] - scene.rps)..batch[s])
                = IF scene.rps = 1 THEN 0 ELSE IF scene.rps < 10 THEN 1 ELSE (scene.rps * 10) \div 100

\* Every name in a request is accounted for: it is one of the catalog, or one of
\* the two that the example leaves in an order whose items have no fulfillment or
\* no location (select_batch.go:541-550), exactly when neither the request nor one
\* before it that the seller let pass was corrupted; and as many are corrupted as
\* the README says.
NamesAreAccountedFor ==
    /\ pc = "answer" => Valid(order) = ~tainted
    /\ InjectedShare

Below(samples, v) == Cardinality({i \in DOMAIN samples : samples[i] < v})

\* The percentiles that are reported of a stage, those of the stored summary and
\* those computed from the events, agree and are samples of the rank they stand
\* for, counted without sorting, and they are in order.
PercentilesHaveTheirRank ==
    pc = "done" =>
        \A s \in 1..3 :
            LET j == Journeys[s]
                samples == Samples(s)
                report == StageReport(j, samples) IN
            /\ report.p95 = j.p95 /\ report.p50 <= report.p95 /\ report.p95 <= report.max
            /\ samples # <<>> =>
                \A p \in {<<50, report.p50>>, <<90, j.p90>>, <<95, j.p95>>, <<99, j.p99>>} :
                    /\ 100 * Below(samples, p[2]) <= p[1] * (Len(samples) - 1)
                    /\ p[1] * (Len(samples) - 1) < 100 * UpTo(samples, p[2])

\* The workbook "highlights error-injection behavior mismatches" (README.md:63): a
\* run of five seconds or more whose injected share is within the tolerance is
\* called OK when the seller refused exactly what was injected, and lower than
\* expected when it let everything pass.  Shorter runs and other rates, where the
\* README's own share is outside the tolerance, are called a mismatch.  The runs are
\* those with a transaction for each payload.
InjectionIsVisible ==
    pc = "done" =>
        LET row == BehaviorRow(Journeys, scene.enabled)
            All(verdict) == \A s \in 1..3 : row.checks[s] = verdict
            share == 100 * WrongCount(scene.rps) IN
        /\ ~scene.enabled => All("OK") /\ row.observation = "Baseline clean"
        /\ scene.enabled /\ scene.lenient =>
            All("Lower than expected") /\ row.observation = "Inconsistent"
        /\ scene.enabled /\ ~scene.lenient /\ scene.rps >= 10 /\ scene.secs >= 5
                /\ share >= 8 * scene.rps /\ share <= 12 * scene.rps =>
            All("OK") /\ row.observation = "Drop propagated"
=============================================================================
