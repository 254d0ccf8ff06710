------------------------------- MODULE RunLog -------------------------------
(***************************************************************************)
(* The log of one run and everyone who uses it at once: the goroutines     *)
(* that record the requests they send (internal/domain/pipeline/           *)
(* coordinator.go), the handlers that record callbacks (internal/handlers/ *)
(* callbacks/record.go), the run itself, which builds the next batch, takes *)
(* stock, flushes and cleans up, and the page that shows a payload         *)
(* (internal/handlers/testing/routes.go).  Both stores of                  *)
(* internal/shared/runlog are modelled:                                    *)
(*                                                                         *)
(*   - memory: a map of maps under one RWMutex.  Writers write under the   *)
(*     lock; readers fetch a bucket under the lock and read it after       *)
(*     releasing it, and a payload is kept as the slice it came in;        *)
(*   - redis: one call per step, HSET and EXPIRE of a hash apart, and a    *)
(*     clean-up that lists the keys and then deletes them.                 *)
(*                                                                         *)
(* One stage is enough: the requests ("req"), their times ("ts") and the   *)
(* callbacks ("cb").  The counters of the stores are never read.           *)
(***************************************************************************)
EXTENDS Naturals

CONSTANTS Txns,        \* transactions of the run
          Handlers,    \* callback requests
          Of,          \* their transactions; several may be of one
          Nobody,      \* the lock is free; no transaction
          NoBody,      \* nothing stored
          Garbled      \* the bytes of some later request

ASSUME RunLogConstants ==
    /\ Of \in [Handlers -> Txns]
    /\ {"run", "page"} \cap Handlers = {}
    /\ Nobody \notin Txns \cup Handlers
    /\ {NoBody, Garbled} \cap (Txns \cup Handlers) = {}
    /\ NoBody # Garbled

Kinds == {"req", "ts", "cb"}
Bodies == [req |-> Txns, ts |-> Txns, cb |-> Handlers]
Buckets(k) == [Txns -> Bodies[k] \cup {NoBody}]
Users == Handlers \cup {"run", "page"}      \* those who read

VARIABLES
    backend,    \* RUN_STORE_BACKEND
    persist,    \* RUN_PERSISTENCE: "DB", "FS" or "none"; only flushRun looks at
                \* it, so it is chosen there
    log,        \* log[g][k][t]: g = 1 for the buckets made before the clean-up, 2
                \* for those made after it, 3 for no bucket, which stays empty
    gen,        \* the buckets the store has now
    lock,       \* Nobody, or who writes which kind of bucket under the lock
    ttl,        \* Redis keys that have an expiry
    spc,        \* progress of each sending goroutine
    hpc,        \* progress of each handler; "found" or "missing" tells what
                \* GetTimestamp returned
    intact,     \* handlers whose request buffer still holds their body
    rpc,        \* progress of the run
    counted,    \* transactions with a callback that WaitForCount has counted
    todo,       \* transactions the run has still to build a request for
    built,      \* <<transaction, body>> the next batch was built from
    listed,     \* transactions finalizeRunLatencies found
    keys,       \* keys still to flush, or to delete
    owed,       \* <<kind, transaction>> recorded when the flush began
    saved,      \* <<kind, transaction>> written to MongoDB or to files
    ppc,        \* progress of the page, with the transaction it chose
    ref,        \* the bucket a reader has fetched
    faulty,     \* a call failed, or a key expired under the run; the bound is
                \* one fault in a behaviour
    dead        \* the reader at which the runtime ended the process, or Nobody

settings == <<backend, persist>>
store == <<log, gen, lock, ttl>>
handlers == <<hpc, intact>>
run == <<rpc, counted, todo, built, listed, keys, owed, saved>>
vars == <<settings, store, spc, handlers, run, ppc, ref, faulty, dead>>

EmptyLog == [k \in Kinds |-> [t \in Txns |-> NoBody]]
Has(k, t) == log[gen][k][t] # NoBody
Recorded == {e \in {"req", "cb"} \X Txns : Has(e[1], e[2])}
Present == {k \in Kinds : \E t \in Txns : Has(k, t)}

Init ==
    /\ backend \in {"memory", "redis"}
    /\ persist = "none"
    /\ log = [g \in 1..3 |-> EmptyLog] /\ gen = 1
    /\ lock = Nobody /\ ttl = {}
    /\ spc = [t \in Txns |-> "new"]
    /\ hpc = [h \in Handlers |-> "idle"]
    /\ intact = Handlers
    /\ rpc = "send" /\ counted = {} /\ todo = Txns /\ built = {} /\ listed = {}
    /\ keys = {} /\ owed = {} /\ saved = {}
    /\ ppc = <<"list", Nobody>>
    /\ ref = [u \in Users |-> 0]
    /\ faulty = FALSE /\ dead = Nobody

-----------------------------------------------------------------------------
(* Writing.                                                                *)

\* What Get returns of a callback stored by h: Redis has the bytes, the memory
\* store a slice of a buffer that the server uses again.
Content(h) == IF backend = "redis" \/ h \in intact THEN h ELSE Garbled

Put(k, t, b) == [log EXCEPT ![gen][k][t] = b]

\* The first half of Record and RecordTimestamp: the write lock, or HSET.
BeginWrite(w, k, t, b) ==
    /\ IF backend = "memory"
       THEN lock = Nobody /\ lock' = <<w, k>> /\ UNCHANGED log
       ELSE log' = Put(k, t, b) /\ UNCHANGED lock
    /\ UNCHANGED <<gen, ttl, faulty>>

Fault == ~faulty /\ faulty' = TRUE

\* HSET returns an error; it may have been carried out.
WriteFails(k, t, b) ==
    /\ backend = "redis" /\ Fault
    /\ log' \in {log, Put(k, t, b)}
    /\ UNCHANGED <<gen, lock, ttl>>

\* Mutant: Record does not set the expiry of its key.
EndWriteNoExpire(k, t, b) ==
    /\ IF backend = "memory"
       THEN log' = Put(k, t, b) /\ lock' = Nobody
       ELSE UNCHANGED <<log, lock>>
    /\ UNCHANGED <<gen, ttl, faulty>>

\* The second half: the bucket is written and the lock given back, or EXPIRE,
\* which does nothing to a key that is gone and whose error is ignored.
EndWrite(k, t, b) ==
    /\ IF backend = "memory"
       THEN log' = Put(k, t, b) /\ lock' = Nobody /\ UNCHANGED <<ttl, faulty>>
       ELSE /\ \/ ttl' = ttl \cup ({k} \cap Present) /\ UNCHANGED faulty
               \/ Fault /\ UNCHANGED ttl
            /\ UNCHANGED <<log, lock>>
    /\ UNCHANGED gen

(* Reading.                                                                *)

\* The bucket that u reads next.
Kind(u) == CASE u \in Handlers -> "ts"
             [] u = "run"  -> IF rpc = "build" THEN "cb" ELSE "ts"
             [] u = "page" -> IF ppc[1] = "list" THEN "ts" ELSE "req"

\* The memory store fetches the bucket under the lock ...
Fetch(u) ==
    /\ backend = "memory" /\ ref[u] = 0 /\ lock = Nobody
    /\ ref' = [ref EXCEPT ![u] = IF Kind(u) \in Present THEN gen ELSE 3]
    /\ UNCHANGED <<settings, store, spc, handlers, run, ppc, faulty, dead>>

\* ... and reads it without.  What u is given is an entry per transaction.  HGET and
\* HGETALL of Redis are one call, whose error counts as nothing found.
Read(u, bucket) ==
    \/ /\ backend = "memory" /\ ref[u] # 0
       /\ ref' = [ref EXCEPT ![u] = 0]
       /\ bucket = log[ref[u]][Kind(u)] /\ UNCHANGED faulty
    \/ /\ backend = "redis" /\ UNCHANGED ref
       /\ \/ bucket = log[gen][Kind(u)] /\ UNCHANGED faulty
          \/ bucket = EmptyLog[Kind(u)] /\ Fault

\* Somebody writes the bucket that u reads.  What the build does is either a
\* read of the old or the new entry, or a fatal error of the runtime.
Fatal(u) ==
    /\ ref[u] = gen /\ lock # Nobody /\ lock[2] = Kind(u)
    /\ dead' = u
    /\ UNCHANGED <<settings, store, spc, handlers, run, ppc, ref, faulty>>

-----------------------------------------------------------------------------
(* The goroutine that sends the request of transaction t: Record,          *)
(* RecordTimestamp, and the request leaves.                                *)

SendOrder == <<"req", "ts">>

\* Mutant: the request leaves before its time is recorded.
SendStepsEarly == <<"new", "rec", "sent", "ts", "sent">>

SendSteps == <<"new", "rec", "recd", "ts", "sent">>

Sender(t) ==
    \E i \in 1..4 :
        LET k == SendOrder[(i + 1) \div 2]
            To(j) == spc' = [spc EXCEPT ![t] = SendSteps[j]] IN
        /\ spc[t] = SendSteps[i]
        /\ \/ i \in {1, 3} /\ BeginWrite(t, k, t, t) /\ To(i + 1)
           \/ i \in {1, 3} /\ WriteFails(k, t, t) /\ To(i + 2)
           \/ i \in {2, 4} /\ EndWrite(k, t, t) /\ To(i + 1)
        /\ UNCHANGED <<settings, handlers, run, ppc, ref, dead>>

(* The handler of callback h: Record, GetTimestamp, the answer.            *)

\* Mutant: Record is left to a goroutine, which has not run yet.
ArriveAnswersFirst(h) ==
    /\ hpc[h] = "idle" /\ spc[Of[h]] = "sent"
    /\ hpc' = [hpc EXCEPT ![h] = "recd"]
    /\ UNCHANGED <<settings, store, spc, intact, run, ppc, ref, faulty, dead>>

Arrive(h) ==
    /\ hpc[h] = "idle" /\ spc[Of[h]] = "sent"
    /\ \/ BeginWrite(h, "cb", Of[h], h) /\ hpc' = [hpc EXCEPT ![h] = "rec"]
       \/ WriteFails("cb", Of[h], h) /\ hpc' = [hpc EXCEPT ![h] = "recd"]
    /\ UNCHANGED <<settings, spc, intact, run, ppc, ref, dead>>

CallbackRecorded(h) ==
    /\ hpc[h] = "rec"
    /\ EndWrite("cb", Of[h], h)
    /\ hpc' = [hpc EXCEPT ![h] = "recd"]
    /\ UNCHANGED <<settings, spc, intact, run, ppc, ref, dead>>

GetTimestamp(h) ==
    /\ hpc[h] = "recd"
    /\ \E bucket \in Buckets("ts") :
        /\ Read(h, bucket)
        /\ hpc' = [hpc EXCEPT ![h] = IF bucket[Of[h]] = NoBody THEN "missing" ELSE "found"]
    /\ UNCHANGED <<settings, store, spc, intact, run, ppc, dead>>

\* The handler has returned; the server reads another request into its buffer.
ReuseBuffer(h) ==
    /\ hpc[h] \in {"found", "missing"} /\ h \in intact
    /\ backend = "memory"               \* no matter to Redis, which has the bytes
    /\ intact' = intact \ {h}
    /\ UNCHANGED <<settings, store, spc, hpc, run, ppc, ref, faulty, dead>>

-----------------------------------------------------------------------------
(* The run.                                                                *)

Goto(from, to) == rpc = from /\ rpc' = to
Others == <<settings, spc, handlers, ppc, dead>>

\* Handlers call Notify after Record and GetTimestamp.
Counted == {Of[h] : h \in {x \in Handlers : hpc[x] \in {"found", "missing"}}}

\* Mutant: the dispatcher does not wait for its goroutines.
WaitReturnsEarly ==
    /\ Goto("send", "build")
    /\ counted' = Counted
    /\ UNCHANGED <<Others, store, todo, built, listed, keys, owed, saved, ref, faulty>>

\* The dispatcher has returned, and so has WaitForCount, perhaps at its deadline.
WaitReturns ==
    /\ Goto("send", "build")
    /\ \A t \in Txns : spc[t] = "sent"
    /\ counted' = Counted
    /\ UNCHANGED <<Others, store, todo, built, listed, keys, owed, saved, ref, faulty>>

\* buildBatchFromCallbacks: Get of one transaction after another.
Build(t) ==
    /\ Goto("build", IF todo = {t} THEN "final" ELSE "build")
    /\ t \in todo /\ todo' = todo \ {t}
    /\ \E bucket \in Buckets("cb") :
        /\ Read("run", bucket)
        /\ built' = built \cup {<<t, Content(h)>> : h \in {bucket[t]} \ {NoBody}}
    /\ UNCHANGED <<Others, store, counted, listed, keys, owed, saved>>

\* finalizeRunLatencies: ListTxnIDs of the requests.
List ==
    /\ Goto("final", "flush")
    /\ \E bucket \in Buckets("ts") :
        Read("run", bucket) /\ listed' = {t \in Txns : bucket[t] # NoBody}
    /\ UNCHANGED <<Others, store, counted, todo, built, keys, owed, saved>>

\* Mutant: the filter takes the keys with five parts.
ExportableTimes == {"ts"}

\* Export and FlushToFilesystem write the payloads, not the times.
Exportable == {"req", "cb"}

\* flushRun: with nowhere to write, or a run that GetRun does not find, the log
\* is only cleaned up.  The memory store and Export list the keys first.
FlushRun ==
    /\ lock = Nobody
    /\ owed' = Recorded
    /\ persist' \in {"DB", "FS", "none"}
    /\ \/ persist' = "none" /\ keys' = {} /\ Goto("flush", "clean") /\ UNCHANGED faulty
       \/ persist' = "DB" /\ keys' = {} /\ Goto("flush", "clean") /\ Fault
       \/ /\ persist' # "none" /\ Goto("flush", "save") /\ UNCHANGED faulty
          /\ keys' = IF backend = "redis" /\ persist' = "FS" THEN Exportable
                     ELSE Exportable \cap Present
    /\ UNCHANGED <<backend, spc, handlers, ppc, dead, store, counted, todo, built, listed, saved, ref>>

\* One key after another, but Export of the memory store holds the lock for all
\* of them.  An error of MongoDB or of a file ends it, one of Redis skips the key.
Save ==
    /\ Goto("save", "save") /\ keys # {} /\ lock = Nobody
    /\ \E ks \in IF backend = "memory" /\ persist = "DB" THEN {keys} ELSE {{k} : k \in keys} :
        LET entries == {e \in Recorded : e[1] \in ks} IN
        \/ saved' = saved \cup entries /\ keys' = keys \ ks /\ UNCHANGED faulty
        \/ /\ \E some \in SUBSET entries : saved' = saved \cup some
           /\ keys' = {} /\ Fault
        \/ backend = "redis" /\ keys' = keys \ ks /\ Fault /\ UNCHANGED saved
    /\ UNCHANGED <<Others, store, counted, todo, built, listed, owed, ref>>

SaveEnds ==
    /\ Goto("save", "clean") /\ keys = {}
    /\ UNCHANGED <<Others, store, counted, todo, built, listed, keys, owed, saved, ref, faulty>>

\* Cleanup of the memory store, under the lock.
CleanMemory ==
    /\ backend = "memory" /\ lock = Nobody
    /\ Goto("clean", "done") /\ gen' = 2
    /\ UNCHANGED <<Others, log, lock, ttl, counted, todo, built, listed, keys, owed, saved, ref, faulty>>

\* Cleanup of the Redis store: DelPattern lists the keys, then deletes them.
ScanKeys ==
    /\ backend = "redis"
    /\ Goto("clean", "delete")
    /\ \/ keys' = Present /\ UNCHANGED faulty
       \/ keys' = {} /\ Fault
    /\ UNCHANGED <<Others, store, counted, todo, built, listed, owed, saved, ref>>

Without(ks) == [log EXCEPT ![1] = [k \in Kinds |-> IF k \in ks THEN EmptyLog[k] ELSE @[k]]]

DeleteKeys ==
    /\ Goto("delete", "done") /\ keys' = {}
    /\ \/ log' = Without(keys) /\ ttl' = ttl \ keys /\ UNCHANGED faulty
       \/ Fault /\ UNCHANGED <<log, ttl>>
    /\ UNCHANGED <<Others, gen, lock, counted, todo, built, listed, owed, saved, ref>>

-----------------------------------------------------------------------------
(* writeRunPayloadPage shows one request of the run.                       *)

\* ListTxnIDs, GetTimestamp and the choice of a transaction that has a time.
PageList ==
    /\ ppc[1] = "list"
    /\ \E bucket \in Buckets("ts") :
        LET found == {t \in Txns : bucket[t] # NoBody} IN
        /\ Read("page", bucket)
        /\ \/ \E t \in found : ppc' = <<"get", t>>
           \/ found = {} /\ ppc' = <<"none", Nobody>>
    /\ UNCHANGED <<settings, store, spc, handlers, run, dead>>

\* GetMulti of the chosen one.
PageGet ==
    /\ ppc[1] = "get"
    /\ \E bucket \in Buckets("req") :
        /\ Read("page", bucket)
        /\ ppc' = <<IF bucket[ppc[2]] = NoBody THEN "absent" ELSE "shown", Nobody>>
    /\ UNCHANGED <<settings, store, spc, handlers, run, dead>>

-----------------------------------------------------------------------------
\* Redis drops a key whose expiry has passed.
Expire(k) ==
    /\ k \in ttl \cap Present
    /\ log' = Without({k}) /\ ttl' = ttl \ {k}
    /\ IF rpc = "done" THEN UNCHANGED faulty ELSE Fault
    /\ UNCHANGED <<settings, gen, lock, spc, handlers, run, ppc, ref, dead>>

Reads(u) == CASE u \in Handlers -> hpc[u] = "recd"
              [] u = "run"  -> rpc \in {"build", "final"}
              [] u = "page" -> ppc[1] \in {"list", "get"}

Run == \/ WaitReturns \/ (\E t \in Txns : Build(t)) \/ List \/ FlushRun \/ Save
       \/ SaveEnds \/ CleanMemory \/ ScanKeys \/ DeleteKeys

Handler(h) == CallbackRecorded(h) \/ GetTimestamp(h)

Next ==
    \/ /\ dead = Nobody
       /\ \/ \E t \in Txns : Sender(t)
          \/ \E h \in Handlers : Arrive(h) \/ Handler(h) \/ ReuseBuffer(h)
          \/ \E u \in Users : Fatal(u) \/ (Reads(u) /\ Fetch(u))
          \/ Run \/ PageList \/ PageGet
    \/ \E k \in Kinds : Expire(k)

SafetySpec == Init /\ [][Next]_vars

\* Goroutines are scheduled, calls return, and Redis expires its keys.  Nobody
\* has to send a callback or look at the page.
Spec ==
    /\ SafetySpec
    /\ \A t \in Txns : WF_vars(dead = Nobody /\ Sender(t))
    /\ \A h \in Handlers : WF_vars(dead = Nobody /\ (Handler(h) \/ (Reads(h) /\ Fetch(h))))
    /\ WF_vars(dead = Nobody /\ (Run \/ (Reads("run") /\ Fetch("run"))))
    /\ \A k \in Kinds : WF_vars(Expire(k))

-----------------------------------------------------------------------------
(* Properties.                                                             *)

\* The logs there can be.
Logs == [1..3 -> [Kinds -> [Txns -> Txns \cup Handlers \cup {NoBody}]]]

\* Type invariant: every log holds buckets of transactions, and everyone who uses it is
\* at one of its steps.
TypeOK ==
    /\ backend \in {"memory", "redis"}
    /\ persist \in {"DB", "FS", "none"}
    /\ log \in Logs
    /\ gen \in {1, 2}
    /\ ttl \in SUBSET Kinds
    /\ spc \in [Txns -> {"new", "rec", "recd", "ts", "sent"}]
    /\ hpc \in [Handlers -> {"idle", "rec", "recd", "found", "missing"}]
    /\ intact \in SUBSET Handlers
    /\ rpc \in {"send", "build", "final", "flush", "save", "clean", "delete", "done"}
    /\ counted \in SUBSET Txns /\ todo \in SUBSET Txns /\ listed \in SUBSET Txns
    /\ built \in SUBSET (Txns \X (Handlers \cup {Garbled}))
    /\ keys \in SUBSET Kinds
    /\ owed \in SUBSET ({"req", "cb"} \X Txns) /\ saved \in SUBSET ({"req", "cb"} \X Txns)
    /\ \E a \in {"list", "get", "none", "shown", "absent"}, t \in Txns \cup {Nobody} : ppc = <<a, t>>
    /\ ref \in [Users -> 0..3]
    /\ faulty \in BOOLEAN
    /\ dead \in Users \cup {Nobody}

\* Sent requests are known: a callback that looks for the time its request was
\* sent finds it, however fast it came, and finalizeRunLatencies finds every
\* request, unless Redis failed or the log was already cleaned up.  Likewise a
\* request that the page has listed has a payload, although the two are read from
\* different buckets while requests are being recorded.
SentAtIsFound ==
    /\ \A h \in Handlers : hpc[h] = "missing" => faulty \/ rpc = "done"
    /\ rpc \in {"flush", "save", "clean", "delete", "done"} => faulty \/ listed = Txns
    /\ ppc[1] = "absent" => faulty \/ rpc = "done"

\* A callback that made WaitForCount return is used: the batch that is built next
\* has a request for its transaction, although Record (record.go:130) and Notify
\* (record.go:158) are apart and callbacks go on arriving while it is built, unless
\* Redis failed.  With the Redis store the body is a callback of that transaction;
\* with the memory store it may be the bytes of a later request, which contradicts
\* "init is built from the actual on_select response" (README.md:12).
CountedCallbackIsUsed ==
    rpc # "send" /\ ~faulty =>
        \A t \in counted \ todo : \E p \in built :
            /\ p[1] = t
            /\ backend = "redis" => p[2] \in Handlers /\ Of[p[2]] = t

\* flushRun writes before it cleans up: when nothing failed, every request and
\* every callback that was there when it began is in MongoDB or in the files.  After
\* a failed export the log is cleaned up all the same (routes.go:1356), and is lost.
FlushKeepsPayloads ==
    rpc = "done" /\ persist # "none" /\ ~faulty =>
        owed \cup {<<"req", t>> : t \in Txns} \subseteq saved

\* A finished run leaves nothing behind: what a callback records after the
\* clean-up expires in Redis.  In memory it stays, but never more than callbacks.
LogIsReleased ==
    rpc = "done" ~>
        \/ Present = {} \/ dead # Nobody
        \/ backend = "redis" /\ faulty
        \/ backend = "memory" /\ Present = {"cb"}

\* The fatal error of a map that is read while it is written can end the process
\* as long as requests are sent, and as the next batch is built from callbacks
\* that still arrive.  After the dispatcher has returned, the times are safe:
\* neither a late callback, nor finalizeRunLatencies, nor the page meets a writer.
RacesEndWithDispatch == dead # Nobody => rpc = "send" \/ (dead = "run" /\ rpc = "build")
=============================================================================
