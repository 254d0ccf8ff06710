-------------------------- MODULE LatencyPipeline --------------------------
(***************************************************************************)
(* How the outcome of a callback reaches MongoDB, for one run and one pair *)
(* of stages (select/on_select, init/on_init or confirm/on_confirm): the   *)
(* callback handler (internal/handlers/callbacks/record.go), the bounded   *)
(* queue and its workers (callbacks/routes.go), finalizeRunLatencies and   *)
(* the clean-up of the run (internal/handlers/testing/routes.go), and the  *)
(* run_latency_events collection (internal/ports/session/mongo_store.go).  *)
(*                                                                         *)
(* Of time the model keeps one bit per transaction: whether callbackTimeout*)
(* (30 s) has passed since the request was stamped.  An upsert looks for   *)
(* the document and then inserts it; only a unique index makes the two one *)
(* step, and ensureLatencyIndexes goes on without the index when it cannot *)
(* create it.  The sent_at of a transaction is in the run log; the one in  *)
(* Redis may fail to write it, to read it or to keep it, and nobody is     *)
(* told.  With the run log in memory, the default, these steps never       *)
(* happen: unlogged and unread stay empty.                                 *)
(***************************************************************************)
EXTENDS Naturals, Sequences, FiniteSets

CONSTANTS Txns,        \* transaction ids of the run
          Callbacks,   \* inbound callback requests, duplicates included
          QueueSize,   \* CALLBACK_LATENCY_QUEUE_SIZE
          Workers,     \* CALLBACK_LATENCY_WORKERS
          Finalizer,   \* author of the events finalizeRunLatencies writes
          NoTxn        \* the transaction of a callback not yet received

ASSUME LatencyConstants ==
    /\ QueueSize \in Nat \ {0} /\ Workers \in Nat \ {0}
    /\ Finalizer \notin Callbacks
    /\ NoTxn \notin Txns

Outcomes == {"success", "failure", "timeout"}
None == "none"

VARIABLES
    indexed,    \* the unique index of run_latency_events exists
    stamps,     \* transactions with a sent_at in the run log
    sent,       \* history: transactions whose request was sent
    unlogged,   \* history: those whose sent_at was not written, or expired
    unread,     \* history: late callbacks whose read of the sent_at failed
    accepted,   \* those of them the seller took without an error
    old,        \* transactions sent at least callbackTimeout ago
    cpc,        \* program counter of each callback handler
    txn,        \* the transaction of each callback
    late,       \* callbacks received callbackTimeout after their request
    eff,        \* outcome of each callback, then effectiveOutcome
    epc,        \* progress of the latency event of each callback
    queue,      \* latencyQueue
    held,       \* events that workers are writing
    docs,       \* run_latency_events: the authors of the documents of a txn
    counter,    \* Redis counters run:<id>:<action>:<outcome>
    fpc,        \* program counter of the run's goroutine
    cutoff,     \* transactions that are old at cutoffAt
    class,      \* outcome finalizeRunLatencies gives each transaction
    missing,    \* transactions it writes an event for
    unmatched,  \* those the bulk write found no document of
    summary,    \* run_latency_summary, one outcome per transaction counted
    fault       \* a MongoDB call, or finalizeRunLatencies' ListTxnIDs, has failed

requestVars == <<unlogged, stamps, sent, accepted, old>>
callbackVars == <<cpc, txn, late, eff, unread, counter>>
eventVars == <<epc, queue, held>>
finalVars == <<cutoff, class, missing, unmatched, summary>>
vars == <<indexed, unlogged, stamps, sent, accepted, old, cpc, txn, late, eff, unread,
          epc, queue, held, docs, counter, fpc, cutoff, class, missing, unmatched, summary, fault>>

Init ==
    /\ indexed \in BOOLEAN
    /\ stamps = {} /\ sent = {} /\ accepted = {} /\ old = {}
    /\ unlogged = {} /\ unread = {}
    /\ cpc = [c \in Callbacks |-> "new"]
    /\ txn = [c \in Callbacks |-> NoTxn]
    /\ late = {}
    /\ eff = [c \in Callbacks |-> None]
    /\ epc = [c \in Callbacks |-> None]
    /\ queue = <<>>
    /\ held = {}
    /\ docs = [t \in Txns |-> {}]
    /\ counter = [o \in Outcomes |-> 0]
    /\ fpc = "running"
    /\ cutoff = {} /\ missing = {} /\ unmatched = {}
    /\ class = [t \in Txns |-> None]
    /\ summary = [t \in Txns |-> None]
    /\ fault = FALSE

-----------------------------------------------------------------------------
(* The requests of the stage, and time.                                    *)

\* The goroutine of a payload stamps the transaction, which with the Redis run
\* log may fail unnoticed, and calls the seller, which accepts the request or
\* not; a callback may overtake the answer.
SendRequest(t) ==
    /\ fpc = "running"
    /\ t \notin sent
    /\ \/ stamps' = stamps \cup {t} /\ UNCHANGED unlogged
       \/ unlogged' = unlogged \cup {t} /\ UNCHANGED stamps
    /\ sent' = sent \cup {t}
    /\ accepted' \in {accepted, accepted \cup {t}}
    /\ UNCHANGED <<indexed, old, callbackVars, eventVars, docs, fpc, finalVars, fault>>

\* The hash with the timestamps of the stage expires, RUN_PAYLOAD_TTL_SECONDS
\* after the last of them was written.
ExpireStamps ==
    /\ stamps # {}
    /\ stamps' = {}
    /\ unlogged' = unlogged \cup stamps
    /\ UNCHANGED <<indexed, sent, accepted, old, callbackVars, eventVars, docs, fpc,
                   finalVars, fault>>

\* callbackTimeout has passed since t was sent.
Elapse(t) ==
    /\ t \in sent \ old
    /\ old' = old \cup {t}
    /\ UNCHANGED <<indexed, unlogged, stamps, sent, accepted, callbackVars, eventVars, docs, fpc,
                   finalVars, fault>>

-----------------------------------------------------------------------------
(* The handler of callback c.                                              *)

\* receivedAt := time.Now(); signature, payload and the ack status decide
\* between recordCallback and recordCallbackFailure.  GetTxnRoute may find no
\* route (never set, or expired): the callback is answered and forgotten.
Receive(c) ==
    /\ cpc[c] = "new"
    /\ \/ /\ \E t \in Txns, o \in {"success", "failure"} :
                /\ txn' = [txn EXCEPT ![c] = t]
                /\ eff' = [eff EXCEPT ![c] = o]
                /\ late' = IF t \in old THEN late \cup {c} ELSE late
          /\ cpc' = [cpc EXCEPT ![c] = "routed"]
       \/ /\ cpc' = [cpc EXCEPT ![c] = "dropped"]
          /\ UNCHANGED <<txn, eff, late>>
    /\ UNCHANGED <<indexed, requestVars, unread, counter, eventVars, docs, fpc, finalVars, fault>>

\* Mutant: no comparison with callbackTimeout.
EffectiveAnyTime(c, read) == eff[c]

\* GetTimestamp and the comparison of receivedAt with it: without a sent_at, or
\* when reading it fails, there is no latency and no timeout.
Effective(c, read) == IF read /\ txn[c] \in stamps /\ c \in late THEN "timeout" ELSE eff[c]

\* The first half of recordLatencyEventOnCallback: the effective outcome.  A read
\* that fails makes a difference only to a late callback.
Judge(c) ==
    \/ eff' = [eff EXCEPT ![c] = Effective(c, TRUE)] /\ UNCHANGED unread
    \/ /\ txn[c] \in stamps /\ c \in late
       /\ eff' = [eff EXCEPT ![c] = Effective(c, FALSE)]
       /\ unread' = unread \cup {c}

\* Mutant: an event the queue has no room for is given up.
RecordLatencyEventOrDrop(c) ==
    /\ cpc[c] = "routed"
    /\ Judge(c)
    /\ IF Len(queue) < QueueSize
       THEN /\ queue' = Append(queue, c)
            /\ epc' = [epc EXCEPT ![c] = "queued"]
       ELSE UNCHANGED <<queue, epc>>
    /\ cpc' = [cpc EXCEPT ![c] = "account"]
    /\ UNCHANGED <<indexed, requestVars, txn, late, counter, held, docs, fpc, finalVars, fault>>

\* recordLatencyEventOnCallback: enqueueLatencyEvent never blocks; when the
\* queue is full the handler writes the event itself.
RecordLatencyEvent(c) ==
    /\ cpc[c] = "routed"
    /\ Judge(c)
    /\ \/ /\ Len(queue) < QueueSize
          /\ queue' = Append(queue, c)
          /\ epc' = [epc EXCEPT ![c] = "queued"]
          /\ cpc' = [cpc EXCEPT ![c] = "account"]
       \/ /\ Len(queue) >= QueueSize
          /\ epc' = [epc EXCEPT ![c] = "match"]
          /\ cpc' = [cpc EXCEPT ![c] = "writing"]
          /\ UNCHANGED queue
    /\ UNCHANGED <<indexed, requestVars, txn, late, counter, held, docs, fpc, finalVars, fault>>

\* The synchronous write has returned, with or without an error.
SyncReturns(c) ==
    /\ cpc[c] = "writing"
    /\ epc[c] \in {"stored", "failed"}
    /\ cpc' = [cpc EXCEPT ![c] = "account"]
    /\ UNCHANGED <<indexed, requestVars, txn, late, eff, unread, counter, eventVars, docs, fpc,
                   finalVars, fault>>

\* IncrMetric of the effective outcome, Notify and the answer.
Account(c) ==
    /\ cpc[c] = "account"
    /\ counter' = [counter EXCEPT ![eff[c]] = @ + 1]
    /\ cpc' = [cpc EXCEPT ![c] = "done"]
    /\ UNCHANGED <<indexed, requestVars, txn, late, eff, unread, eventVars, docs, fpc,
                   finalVars, fault>>

-----------------------------------------------------------------------------
(* Writing events: by a worker, or by the handler that found the queue full. *)

\* latencyWorker: ev := <-c.latencyQueue
Dequeue ==
    /\ queue # <<>>
    /\ Cardinality(held) < Workers
    /\ queue' = Tail(queue)
    /\ held' = held \cup {Head(queue)}
    /\ epc' = [epc EXCEPT ![Head(queue)] = "match"]
    /\ UNCHANGED <<indexed, requestVars, callbackVars, docs, fpc, finalVars, fault>>

\* Mutant: a worker does not come back from an error.
UpsertMatchStuck(c) ==
    /\ epc[c] = "match"
    /\ \/ /\ docs[txn[c]] = {}
          /\ epc' = [epc EXCEPT ![c] = "insert"]
          /\ UNCHANGED <<held, fault>>
       \/ /\ docs[txn[c]] # {}
          /\ epc' = [epc EXCEPT ![c] = "stored"]
          /\ held' = held \ {c}
          /\ UNCHANGED fault
       \/ /\ epc' = [epc EXCEPT ![c] = "failed"]
          /\ fault' = TRUE
          /\ UNCHANGED held
    /\ UNCHANGED <<indexed, requestVars, callbackVars, queue, docs, fpc, finalVars>>

\* UpsertRunLatencyEvent looks for the document of the transaction; an error
\* is logged and the event given up.
UpsertMatch(c) ==
    /\ epc[c] = "match"
    /\ \/ /\ docs[txn[c]] = {}
          /\ epc' = [epc EXCEPT ![c] = "insert"]
          /\ UNCHANGED <<held, fault>>
       \/ /\ docs[txn[c]] # {}
          /\ epc' = [epc EXCEPT ![c] = "stored"]
          /\ held' = held \ {c}
          /\ UNCHANGED fault
       \/ /\ epc' = [epc EXCEPT ![c] = "failed"]
          /\ held' = held \ {c}
          /\ fault' = TRUE
    /\ UNCHANGED <<indexed, requestVars, callbackVars, queue, docs, fpc, finalVars>>

\* Mutant: $set where $setOnInsert is meant.
UpsertInsertOverwrites(c) ==
    /\ epc[c] = "insert"
    /\ docs' = [docs EXCEPT ![txn[c]] = {c}]
    /\ epc' = [epc EXCEPT ![c] = "stored"]
    /\ held' = held \ {c}
    /\ UNCHANGED <<indexed, requestVars, callbackVars, queue, fpc, finalVars, fault>>

\* The insert; with the unique index a document that came first stands.
UpsertInsert(c) ==
    /\ epc[c] = "insert"
    /\ docs' = IF indexed /\ docs[txn[c]] # {} THEN docs
               ELSE [docs EXCEPT ![txn[c]] = @ \cup {c}]
    /\ epc' = [epc EXCEPT ![c] = "stored"]
    /\ held' = held \ {c}
    /\ UNCHANGED <<indexed, requestVars, callbackVars, queue, fpc, finalVars, fault>>

-----------------------------------------------------------------------------
(* The run's goroutine, from the end of the stage on.                      *)

\* The callbacks the notifier has counted for the stage.
Notified == {c \in Callbacks : cpc[c] = "done"}

\* A stage nobody accepted is not waited for; otherwise WaitForCount returns
\* with enough callbacks, or 30 s after the last seller call.
StageOver ==
    \/ accepted = {}
    \/ Cardinality(Notified) >= Cardinality(accepted)
    \/ sent \subseteq old

\* runPreorder returns; finalizeRunLatencies sets cutoffAt.
RunReturns ==
    /\ fpc = "running"
    /\ StageOver
    /\ cutoff' = old
    /\ fpc' = "read"
    /\ UNCHANGED <<indexed, requestVars, callbackVars, eventVars, docs, class, missing, unmatched,
                   summary, fault>>

OutcomeBy(t, w) == IF w = Finalizer THEN class[t] ELSE eff[w]

\* The outcome of a transaction that has no event at the cutoff, where GetTimestamp
\* succeeds for the transactions of found.
MissingOutcome(t, found) == IF t \in found /\ t \in cutoff THEN "timeout" ELSE "failure"

\* Mutant: only the transactions that have an event are summarised.
PopulationOfEvents == {t \in Txns : docs[t] # {}}

\* Union of the transactions with a sent_at and those with an event.
Population == stamps \cup {t \in Txns : docs[t] # {}}

\* ListTxnIDs, GetRunLatencyEventsForStage and the loop that classifies; of
\* two documents of a transaction the cursor's last is used.  An error skips
\* the stage.
ReadEvents ==
    /\ fpc = "read"
    /\ \/ /\ \E last \in [Txns -> Callbacks \cup {None}], found \in SUBSET stamps :
                /\ \A t \in Txns : IF docs[t] = {} THEN last[t] = None ELSE last[t] \in docs[t]
                /\ class' = [t \in Txns |->
                               IF t \notin Population THEN None
                               ELSE IF docs[t] # {} THEN eff[last[t]] ELSE MissingOutcome(t, found)]
          /\ missing' = {t \in Population : docs[t] = {}}
          /\ fpc' = "bulkMatch"
          /\ UNCHANGED fault
       \/ /\ fpc' = "finish"
          /\ fault' = TRUE
          /\ UNCHANGED <<class, missing>>
    /\ cutoff' = {}
    /\ UNCHANGED <<indexed, requestVars, callbackVars, eventVars, docs, unmatched, summary>>

\* UpsertRunLatencyEventsBulk looks for each document ...
BulkMatch ==
    /\ fpc = "bulkMatch"
    /\ unmatched' = {t \in missing : docs[t] = {}}
    /\ fpc' = "bulkInsert"
    /\ UNCHANGED <<indexed, requestVars, callbackVars, eventVars, docs, cutoff, class, missing,
                   summary, fault>>

\* docs after finalizeRunLatencies has inserted the events of S.
Inserted(S) == [t \in Txns |-> IF t \in S /\ ~(indexed /\ docs[t] # {})
                               THEN docs[t] \cup {Finalizer} ELSE docs[t]]

\* ... and inserts the ones it did not find; when the bulk write fails each
\* event is upserted again, and some may fail for good.
BulkInsert ==
    /\ fpc = "bulkInsert"
    /\ \/ docs' = Inserted(unmatched) /\ UNCHANGED fault
       \/ /\ \E S \in SUBSET unmatched : docs' = Inserted(S)
          /\ fault' = TRUE
    /\ unmatched' = {}
    /\ fpc' = "summary"
    /\ UNCHANGED <<indexed, requestVars, callbackVars, eventVars, cutoff, class, missing, summary>>

\* UpsertRunLatencySummary stores the counts made before the bulk write.
WriteSummary ==
    /\ fpc = "summary"
    /\ \/ summary' = class /\ UNCHANGED fault
       \/ fault' = TRUE /\ UNCHANGED summary
    /\ fpc' = "finish"
    /\ UNCHANGED <<indexed, requestVars, callbackVars, eventVars, docs, cutoff, class, missing,
                   unmatched>>

\* FinishRun, then flushRun: the run log of the run is cleaned up.
Cleanup ==
    /\ fpc = "finish"
    /\ stamps' = {}
    /\ fpc' = "done"
    /\ UNCHANGED <<indexed, unlogged, sent, accepted, old, callbackVars, eventVars, docs,
                   finalVars, fault>>

-----------------------------------------------------------------------------
Handler(c) == RecordLatencyEvent(c) \/ SyncReturns(c) \/ Account(c)
Write(c) == UpsertMatch(c) \/ UpsertInsert(c)
Goroutine == RunReturns \/ ReadEvents \/ BulkMatch \/ BulkInsert \/ WriteSummary \/ Cleanup

Quiescent ==
    /\ fpc = "done"
    /\ \A c \in Callbacks : cpc[c] \in {"dropped", "done"} /\ epc[c] \in {None, "stored", "failed"}

Terminated == Quiescent /\ UNCHANGED vars

Next ==
    \/ \E t \in Txns : SendRequest(t) \/ Elapse(t)
    \/ \E c \in Callbacks : Receive(c) \/ Handler(c) \/ Write(c)
    \/ ExpireStamps
    \/ Dequeue
    \/ Goroutine
    \/ Terminated

SafetySpec == Init /\ [][Next]_vars

\* Workers are scheduled and MongoDB calls return, with or without an error.
\* Nothing else needs to happen for the queue to be drained.
Spec ==
    /\ SafetySpec
    /\ \A c \in Callbacks : WF_vars(Write(c))
    /\ WF_vars(Dequeue)

-----------------------------------------------------------------------------
(* Properties.                                                             *)

\* Type invariant: requests, handlers, events, documents and the summary.
TypeOK ==
    /\ indexed \in BOOLEAN /\ fault \in BOOLEAN
    /\ unlogged \subseteq sent /\ unread \subseteq Callbacks
    /\ stamps \subseteq sent /\ sent \subseteq Txns
    /\ accepted \subseteq sent /\ old \subseteq sent
    /\ cpc \in [Callbacks -> {"new", "dropped", "routed", "writing", "account",
                              "done"}]
    /\ txn \in [Callbacks -> Txns \cup {NoTxn}]
    /\ late \subseteq Callbacks
    /\ eff \in [Callbacks -> Outcomes \cup {None}]
    /\ epc \in [Callbacks -> {None, "queued", "match", "insert", "stored", "failed"}]
    /\ queue \in Seq(Callbacks) /\ Len(queue) <= QueueSize
    /\ held \subseteq Callbacks
    /\ docs \in [Txns -> SUBSET (Callbacks \cup {Finalizer})]
    /\ counter \in [Outcomes -> Nat]
    /\ fpc \in {"running", "read", "bulkMatch", "bulkInsert", "summary", "finish", "done"}
    /\ cutoff \subseteq sent /\ missing \subseteq Txns /\ unmatched \subseteq missing
    /\ class \in [Txns -> Outcomes \cup {None}]
    /\ summary \in [Txns -> Outcomes \cup {None}]

\* While the process lives, a callback the seller was told we have is not lost
\* between the handler and MongoDB: its event is in the queue, or being written, or
\* a document of its transaction exists, unless MongoDB refused it.
NoEventVanishes ==
    \A c \in Callbacks :
        /\ cpc[c] \in {"account", "done"} => epc[c] # None
        /\ epc[c] = "queued" => \E i \in 1..Len(queue) : queue[i] = c
        /\ epc[c] \in {"match", "insert"} => c \in held \/ cpc[c] = "writing"
        /\ epc[c] = "stored" => docs[txn[c]] # {}
        /\ epc[c] = "failed" => fault

\* What is stored respects the 30 s limit although the clean-up of the run
\* removes the sent_at a late callback is measured by: a success was received in
\* time, a timeout only follows 30 s, and finalizeRunLatencies, having heard
\* nothing, claims no success.  The exceptions for a success are a MongoDB error
\* and, with the Redis run log only, a sent_at that was not written, could not be
\* read or expired: such a late callback is stored as it came.
OutcomesRespectDeadline ==
    \A t \in Txns : \A w \in docs[t] :
        /\ OutcomeBy(t, w) = "success" =>
              w # Finalizer /\ (w \in late => fault \/ t \in unlogged \/ w \in unread)
        /\ OutcomeBy(t, w) = "timeout" => t \in old

\* Late or duplicate callbacks do not overwrite an outcome: no document is
\* changed or removed, and with the unique index the first stays the only one.
FirstOutcomeStands ==
    [][\A t \in Txns :
          /\ \A w \in docs[t] : w \in docs'[t] /\ OutcomeBy(t, w)' = OutcomeBy(t, w)
          /\ indexed /\ docs[t] # {} => docs'[t] = docs[t]]_vars

\* When the run is finished without an error, each request sent has an event and
\* is counted in the summary, once, except the ones the Redis run log has lost,
\* which nobody misses unless they were called back; and a transaction counted as
\* a success has a document that says so.
SummaryAccountsForSends ==
    /\ fpc \in {"finish", "done"} /\ ~fault =>
          \A t \in sent \ unlogged : docs[t] # {} /\ summary[t] # None
    /\ \A t \in Txns : summary[t] = "success" =>
          \E w \in docs[t] : OutcomeBy(t, w) = "success"

\* An event in the queue is written in the end, or refused by MongoDB.
QueueIsDrained ==
    \A c \in Callbacks : epc[c] = "queued" ~> epc[c] \in {"stored", "failed"}

\* "Counters should reflect the outcome we store in Mongo" (record.go:144):
\* once everything is quiet, when no call failed, the seller accepted
\* every request and each callback was in time and the only one of its
\* transaction, the success counter is the number of success documents.
CountersReflectMongo ==
    /\ Quiescent /\ ~fault /\ accepted = sent /\ late = {} /\ unlogged = {}
    /\ \A c, d \in Notified : txn[c] = txn[d] => c = d
    => counter["success"] =
          Cardinality({t \in Txns : \E w \in docs[t] : OutcomeBy(t, w) = "success"})
=============================================================================
