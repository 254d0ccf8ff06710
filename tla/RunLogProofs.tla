---------------------------- MODULE RunLogProofs ----------------------------
(***************************************************************************)
(* Proofs about RunLog for any transactions and any callback requests, on  *)
(* either store.                                                           *)
(*                                                                         *)
(* None of the four properties is inductive.  That what was recorded       *)
(* before a request left is found needs Order (who has sent by the time    *)
(* another reads), Kept (a recorded entry stays until the clean-up unless  *)
(* a call failed) and, because the memory store fetches a bucket under     *)
(* the lock and reads it after, RefsAreHeld and Fetched (the bucket a      *)
(* reader holds has the entry it is about to look for).  The races need    *)
(* LockIsHeld and the flush Flushing.  That a counted callback is used     *)
(* needs the same of the callbacks: Counting (who was counted),            *)
(* CallbacksKept and CallbacksFetched, and Entries for the bodies.         *)
(* LogInv is their conjunction with the properties.                        *)
(***************************************************************************)
EXTENDS RunLog, TLAPS

\* The lock is held by a goroutine or a handler in the middle of its write.
LockIsHeld ==
    lock # Nobody =>
        /\ backend = "memory"
        /\ \/ \E t \in Txns : lock = <<t, "req">> /\ spc[t] = "rec"
           \/ \E t \in Txns : lock = <<t, "ts">> /\ spc[t] = "ts"
           \/ \E h \in Handlers : lock = <<h, "cb">> /\ hpc[h] = "rec"

\* What has happened by now: WaitReturns waited for the senders, callbacks answer
\* requests that left, the buckets are replaced only by the clean-up, and the page
\* chose a transaction whose time it has seen.
Order ==
    /\ rpc # "send" => \A t \in Txns : spc[t] = "sent"
    /\ rpc # "done" => gen = 1
    /\ \A h \in Handlers : hpc[h] # "idle" => spc[Of[h]] = "sent"
    /\ ppc[1] = "get" => ppc[2] \in Txns /\ spc[ppc[2]] \in {"ts", "sent"}

\* A bucket is fetched only for the read that follows, and only in memory.
RefsAreHeld ==
    /\ backend = "redis" => \A u \in Users : ref[u] = 0
    /\ \A h \in Handlers : ref[h] # 0 => hpc[h] = "recd"
    /\ ref["run"] # 0 => rpc \in {"build", "final"}

\* Callbacks are stored under their own transactions, and a time only after the
\* request it belongs to.
Entries ==
    \A g \in 1..3, t \in Txns :
        /\ log[g]["cb"][t] # NoBody => log[g]["cb"][t] \in Handlers /\ Of[log[g]["cb"][t]] = t
        /\ log[g]["ts"][t] # NoBody => spc[t] \in {"ts", "sent"}

\* No call failed, and the log was not cleaned up.
Whole == ~faulty /\ rpc # "done"

\* What was written stays: the request from the end of its Record on (of its HSET in
\* Redis), and its time likewise.
Kept ==
    Whole => \A t \in Txns :
        /\ spc[t] \in {"recd", "ts", "sent"} \/ (spc[t] = "rec" /\ backend = "redis") =>
              log[1]["req"][t] # NoBody
        /\ spc[t] = "sent" \/ (spc[t] = "ts" /\ backend = "redis") => log[1]["ts"][t] # NoBody

\* A reader that needs an entry has not fetched a bucket without it.
Fetched ==
    Whole =>
        /\ \A h \in Handlers : ref[h] # 0 => log[ref[h]]["ts"][Of[h]] # NoBody
        /\ rpc = "final" /\ ref["run"] # 0 => \A t \in Txns : log[ref["run"]]["ts"][t] # NoBody
        /\ ppc[1] = "get" /\ ref["page"] # 0 => log[ref["page"]]["req"][ppc[2]] # NoBody

\* What is owed and not saved yet is still there, under a key still to come.
Flushing ==
    /\ ~faulty /\ rpc = "save" =>
          /\ \A e \in owed : e \in saved \/ (e[1] \in keys /\ e \in Recorded)
          /\ \A t \in Txns : <<"req", t>> \in owed
    /\ ~faulty /\ rpc \in {"clean", "delete", "done"} /\ persist # "none" =>
          owed \cup {<<"req", t>> : t \in Txns} \subseteq saved

\* The batch is built after the wait, and what was counted has had its Record.
Counting ==
    /\ rpc = "send" => todo = Txns
    /\ \A t \in counted : \E h \in Handlers : Of[h] = t /\ hpc[h] \in {"found", "missing"}

\* A recorded callback stays, or gives way to another of its transaction.
CallbacksKept ==
    Whole => \A h \in Handlers :
        hpc[h] \in {"recd", "found", "missing"} \/ (hpc[h] = "rec" /\ backend = "redis") =>
            log[1]["cb"][Of[h]] # NoBody

\* The bucket the run has fetched has the callbacks that were counted.
CallbacksFetched ==
    Whole /\ rpc = "build" /\ ref["run"] # 0 =>
        \A t \in counted : log[ref["run"]]["cb"][t] # NoBody

\* The inductive invariant.
LogInv == /\ TypeOK /\ LockIsHeld /\ Order /\ RefsAreHeld /\ Entries /\ Kept /\ Fetched /\ Flushing
          /\ Counting /\ CallbacksKept /\ CallbacksFetched
          /\ SentAtIsFound /\ RacesEndWithDispatch /\ CountedCallbackIsUsed

-----------------------------------------------------------------------------
\* Put changes one entry, of the present generation.
LEMMA PutEntry ==
    ASSUME TypeOK, NEW k \in Kinds, NEW t \in Txns, NEW b \in Txns \cup Handlers
    PROVE  /\ Put(k, t, b) \in Logs
           /\ \A g \in 1..3, j \in Kinds, u \in Txns :
                 Put(k, t, b)[g][j][u] = IF g = gen /\ j = k /\ u = t THEN b ELSE log[g][j][u]
<1> DEFINE B == Txns \cup Handlers \cup {NoBody}
<1>1. log \in [1..3 -> [Kinds -> [Txns -> B]]]
  BY Zenon DEF TypeOK, Logs
<1>2. gen \in 1..3 /\ b \in B
  <2>1. gen = 1 \/ gen = 2
    BY DEF TypeOK
  <2> QED
    BY <2>1
<1> HIDE DEF B
<1>3. Put(k, t, b) \in [1..3 -> [Kinds -> [Txns -> B]]]
  BY <1>1, <1>2 DEF Put
<1>4. \A g \in 1..3, j \in Kinds, u \in Txns :
        Put(k, t, b)[g][j][u] = IF g = gen /\ j = k /\ u = t THEN b ELSE log[g][j][u]
  BY <1>1, <1>2 DEF Put
<1> QED
  BY <1>3, <1>4 DEF B, Logs

\* Without empties whole buckets of the first generation.
LEMMA WithoutEntry ==
    ASSUME TypeOK, NEW ks
    PROVE  /\ Without(ks) \in Logs
           /\ \A g \in 1..3, j \in Kinds, u \in Txns : Without(ks)[g][j][u] \in {NoBody, log[g][j][u]}
<1> DEFINE B == Txns \cup Handlers \cup {NoBody}
<1>1. \A j \in Kinds : EmptyLog[j] = [t \in Txns |-> NoBody]
  BY DEF EmptyLog
<1>2. log \in [1..3 -> [Kinds -> [Txns -> B]]] /\ NoBody \in B
  BY Zenon DEF TypeOK, Logs
<1> HIDE DEF B
<1>3. \A j \in Kinds : EmptyLog[j] \in [Txns -> B] /\ \A u \in Txns : EmptyLog[j][u] = NoBody
  BY <1>1, <1>2
<1> DEFINE one == [j \in Kinds |-> IF j \in ks THEN EmptyLog[j] ELSE log[1][j]]
<1>4. one \in [Kinds -> [Txns -> B]]
  BY <1>2, <1>3
<1>5. \A j \in Kinds, u \in Txns : one[j][u] \in {NoBody, log[1][j][u]}
  BY <1>3
<1>6. Without(ks) = [log EXCEPT ![1] = one]
  BY Zenon DEF Without
<1> HIDE DEF one
<1>7. Without(ks) \in [1..3 -> [Kinds -> [Txns -> B]]]
  BY <1>2, <1>4, <1>6
<1>8. \A g \in 1..3 : Without(ks)[g] = IF g = 1 THEN one ELSE log[g]
  BY <1>2, <1>6
<1> QED
  BY <1>5, <1>7, <1>8 DEF B, Logs

\* Handlers and finalizeRunLatencies read times, the batch is built from callbacks, and
\* the page reads times and then requests.
LEMMA KindOf ==
    /\ \A h \in Handlers : Kind(h) = "ts"
    /\ Kind("run") = IF rpc = "build" THEN "cb" ELSE "ts"
    /\ Kind("page") = IF ppc[1] = "list" THEN "ts" ELSE "req"
<1>1. "run" \notin Handlers /\ "page" \notin Handlers
  BY RunLogConstants
<1>2. ASSUME NEW h \in Handlers PROVE Kind(h) = "ts"
  BY <1>1, <1>2 DEF Kind
<1>3. Kind("run") = IF rpc = "build" THEN "cb" ELSE "ts"
  BY <1>1 DEF Kind
<1>4. Kind("page") = IF ppc[1] = "list" THEN "ts" ELSE "req"
  BY <1>1 DEF Kind
<1> QED
  BY <1>2, <1>3, <1>4

\* The six things a sending goroutine does, in the order of the code: Record, then
\* RecordTimestamp, each in two halves or failed at once.
LEMMA SenderCases ==
    ASSUME NEW t \in Txns, Sender(t), spc \in [Txns -> {"new", "rec", "recd", "ts", "sent"}]
    PROVE  /\ \/ /\ spc[t] = "new" /\ BeginWrite(t, "req", t, t) /\ spc' = [spc EXCEPT ![t] = "rec"]
              \/ /\ spc[t] = "new" /\ WriteFails("req", t, t) /\ spc' = [spc EXCEPT ![t] = "recd"]
              \/ /\ spc[t] = "rec" /\ EndWrite("req", t, t) /\ spc' = [spc EXCEPT ![t] = "recd"]
              \/ /\ spc[t] = "recd" /\ BeginWrite(t, "ts", t, t) /\ spc' = [spc EXCEPT ![t] = "ts"]
              \/ /\ spc[t] = "recd" /\ WriteFails("ts", t, t) /\ spc' = [spc EXCEPT ![t] = "sent"]
              \/ /\ spc[t] = "ts" /\ EndWrite("ts", t, t) /\ spc' = [spc EXCEPT ![t] = "sent"]
           /\ UNCHANGED <<settings, handlers, run, ppc, ref, dead>>
<1> DEFINE k(i) == SendOrder[(i + 1) \div 2]
<1>1. k(1) = "req" /\ k(2) = "req" /\ k(3) = "ts" /\ k(4) = "ts"
  BY DEF SendOrder
<1>2. /\ SendSteps[1] = "new" /\ SendSteps[2] = "rec" /\ SendSteps[3] = "recd"
      /\ SendSteps[4] = "ts" /\ SendSteps[5] = "sent"
  BY DEF SendSteps
<1>3. PICK i \in 1..4 :
        /\ spc[t] = SendSteps[i]
        /\ \/ i \in {1, 3} /\ BeginWrite(t, k(i), t, t) /\ spc' = [spc EXCEPT ![t] = SendSteps[i + 1]]
           \/ i \in {1, 3} /\ WriteFails(k(i), t, t) /\ spc' = [spc EXCEPT ![t] = SendSteps[i + 2]]
           \/ i \in {2, 4} /\ EndWrite(k(i), t, t) /\ spc' = [spc EXCEPT ![t] = SendSteps[i + 1]]
        /\ UNCHANGED <<settings, handlers, run, ppc, ref, dead>>
  BY DEF Sender
<1> HIDE DEF k
<1>4. i = 1 \/ i = 2 \/ i = 3 \/ i = 4
  OBVIOUS
<1> QED
  BY <1>1, <1>2, <1>3, <1>4

\* A write, or either half of one, changes at most its own entry, and forgets no fault.
LEMMA WriteEffect ==
    ASSUME TypeOK, NEW w, NEW k \in Kinds, NEW t \in Txns, NEW b \in Txns \cup Handlers,
           BeginWrite(w, k, t, b) \/ EndWrite(k, t, b) \/ WriteFails(k, t, b)
    PROVE  /\ UNCHANGED gen
           /\ log' = log \/ log' = Put(k, t, b)
           /\ faulty => faulty'
           /\ faulty' \in BOOLEAN
           /\ ttl' \in SUBSET Kinds
BY DEF BeginWrite, EndWrite, WriteFails, Fault, TypeOK

\* A read gives up the fetched bucket and returns it, or what Redis has now; only a
\* fault returns nothing for want of an answer.
LEMMA ReadEffect ==
    ASSUME TypeOK, RefsAreHeld, NEW u \in Users, NEW bucket, Read(u, bucket)
    PROVE  /\ ref' \in [Users -> 0..3] /\ ref'[u] = 0
           /\ \A v \in Users \ {u} : ref'[v] = ref[v]
           /\ faulty => faulty'
           /\ faulty' \in BOOLEAN
           /\ \/ ref[u] \in 1..3 /\ bucket = log[ref[u]][Kind(u)]
              \/ backend = "redis" /\ bucket = log[gen][Kind(u)]
              \/ faulty' /\ bucket = [t \in Txns |-> NoBody]
<1>1. ref \in [Users -> 0..3]
  BY DEF TypeOK
<1>2. CASE backend = "memory" /\ ref[u] # 0 /\ ref' = [ref EXCEPT ![u] = 0]
           /\ bucket = log[ref[u]][Kind(u)] /\ UNCHANGED faulty
  <2>1. ref[u] \in 1..3 /\ ref' \in [Users -> 0..3] /\ ref'[u] = 0 /\ \A v \in Users \ {u} : ref'[v] = ref[v]
    BY <1>1, <1>2
  <2>2. faulty' \in BOOLEAN
    BY <1>2 DEF TypeOK
  <2> QED
    BY <1>2, <2>1, <2>2
<1>3. CASE backend = "redis" /\ UNCHANGED ref /\ bucket = log[gen][Kind(u)] /\ UNCHANGED faulty
  BY <1>1, <1>3 DEF TypeOK, RefsAreHeld
<1>4. CASE backend = "redis" /\ UNCHANGED ref /\ bucket = EmptyLog[Kind(u)] /\ Fault
  <2>1. Kind(u) \in Kinds
    BY KindOf DEF Users, Kinds
  <2>2. EmptyLog[Kind(u)] = [t \in Txns |-> NoBody]
    BY <2>1 DEF EmptyLog
  <2>3. faulty'
    BY <1>4 DEF Fault
  <2> QED
    BY <1>1, <1>4, <2>2, <2>3 DEF RefsAreHeld
<1> QED
  BY <1>2, <1>3, <1>4 DEF Read

-----------------------------------------------------------------------------
\* Initially nothing is recorded.
LEMMA InitLogInv == Init => LogInv
<1> SUFFICES ASSUME Init PROVE LogInv
  OBVIOUS
<1>1. \A g \in 1..3 : log[g] = EmptyLog
  BY DEF Init
<1>2. EmptyLog \in [Kinds -> [Txns -> Txns \cup Handlers \cup {NoBody}]]
  BY DEF EmptyLog
<1>3. \A k \in Kinds, t \in Txns : EmptyLog[k][t] = NoBody
  BY DEF EmptyLog
<1>4. TypeOK
  <2>1. log \in Logs
    BY <1>2 DEF Init, Logs
  <2>2. faulty \in BOOLEAN
    BY DEF Init
  <2> QED
    BY <2>1, <2>2 DEF Init, TypeOK
<1>5. LockIsHeld /\ Order /\ RefsAreHeld
  BY DEF Init, LockIsHeld, Order, RefsAreHeld, Users
<1>6. Entries
  <2>1. "cb" \in Kinds /\ "ts" \in Kinds
    BY DEF Kinds
  <2> QED
    BY <1>1, <1>3, <2>1 DEF Entries
<1>7. Kept /\ Fetched /\ Flushing
  BY DEF Init, Kept, Fetched, Flushing, Users, Whole
<1>8. SentAtIsFound /\ RacesEndWithDispatch /\ CountedCallbackIsUsed
  BY DEF Init, SentAtIsFound, RacesEndWithDispatch, CountedCallbackIsUsed
<1>9. Counting /\ CallbacksKept /\ CallbacksFetched
  BY DEF Init, Counting, CallbacksKept, CallbacksFetched
<1> QED
  BY <1>4, <1>5, <1>6, <1>7, <1>8, <1>9 DEF LogInv

-----------------------------------------------------------------------------
\* Senders keep the types.
LEMMA SenderType ==
    ASSUME TypeOK, NEW t \in Txns, Sender(t)
    PROVE  TypeOK'
<1>1. UNCHANGED <<settings, handlers, run, ppc, ref, dead>>
  BY DEF Sender
<1>2. "req" \in Kinds /\ "ts" \in Kinds
  BY DEF Kinds
<1>3. spc \in [Txns -> {"new", "rec", "recd", "ts", "sent"}]
  BY DEF TypeOK
<1>4. UNCHANGED gen /\ faulty' \in BOOLEAN /\ ttl' \in SUBSET Kinds
      /\ log' \in Logs
  <2>1. \E k \in Kinds : BeginWrite(t, k, t, t) \/ EndWrite(k, t, t) \/ WriteFails(k, t, t)
    BY <1>2, <1>3, SenderCases
  <2>2. PICK k \in Kinds : BeginWrite(t, k, t, t) \/ EndWrite(k, t, t) \/ WriteFails(k, t, t)
    BY <2>1
  <2>3. UNCHANGED gen /\ faulty' \in BOOLEAN /\ ttl' \in SUBSET Kinds /\ (log' = log \/ log' = Put(k, t, t))
    BY <2>2, WriteEffect
  <2>4. log \in Logs
    BY DEF TypeOK
  <2> QED
    BY <2>3, <2>4, PutEntry
<1>5. spc' \in [Txns -> {"new", "rec", "recd", "ts", "sent"}]
  BY <1>3, SenderCases
<1> QED
  BY <1>1, <1>4, <1>5 DEF TypeOK, settings, handlers, run

\* Handlers keep the types.
LEMMA HandlerType ==
    ASSUME TypeOK, RefsAreHeld, NEW h \in Handlers, Arrive(h) \/ Handler(h) \/ ReuseBuffer(h)
    PROVE  TypeOK'
<1>0. "cb" \in Kinds /\ Of[h] \in Txns /\ h \in Users
  BY RunLogConstants DEF Kinds, Users
<1>1. CASE Arrive(h) \/ CallbackRecorded(h)
  <2>1. BeginWrite(h, "cb", Of[h], h) \/ EndWrite("cb", Of[h], h) \/ WriteFails("cb", Of[h], h)
    BY <1>1 DEF Arrive, CallbackRecorded
  <2>2. UNCHANGED gen /\ faulty' \in BOOLEAN /\ ttl' \in SUBSET Kinds /\ (log' = log \/ log' = Put("cb", Of[h], h))
    BY <1>0, <2>1, WriteEffect
  <2>3. log' \in Logs
    <3>1. log \in Logs
      BY DEF TypeOK
    <3> QED
      BY <1>0, <2>2, <3>1, PutEntry
  <2>4. hpc' \in [Handlers -> {"idle", "rec", "recd", "found", "missing"}]
    BY <1>1 DEF Arrive, CallbackRecorded, TypeOK
  <2>5. UNCHANGED <<settings, spc, intact, run, ppc, ref, dead>>
    BY <1>1 DEF Arrive, CallbackRecorded
  <2> QED
    BY <2>2, <2>3, <2>4, <2>5 DEF TypeOK, settings, run
<1>2. CASE GetTimestamp(h)
  <2>1. PICK bucket : Read(h, bucket)
    BY <1>2 DEF GetTimestamp
  <2>2. ref' \in [Users -> 0..3] /\ faulty' \in BOOLEAN
    BY <1>0, <2>1, ReadEffect
  <2>3. hpc' \in [Handlers -> {"idle", "rec", "recd", "found", "missing"}]
    BY <1>2 DEF GetTimestamp, TypeOK
  <2>4. UNCHANGED <<settings, store, spc, intact, run, ppc, dead>>
    BY <1>2 DEF GetTimestamp
  <2> QED
    BY <2>2, <2>3, <2>4 DEF TypeOK, settings, run, store
<1>3. CASE ReuseBuffer(h)
  <2>1. UNCHANGED <<settings, store, spc, hpc, run, ppc, ref, faulty, dead>> /\ intact' \in SUBSET Handlers
    BY <1>3 DEF ReuseBuffer, TypeOK
  <2> QED
    BY <2>1 DEF TypeOK, settings, run, store
<1> QED
  BY <1>1, <1>2, <1>3 DEF Handler

\* Fetches, the fatal error and the page keep the types.
LEMMA ReaderType ==
    ASSUME TypeOK, RefsAreHeld,
           \/ \E u \in Users : Fatal(u) \/ Fetch(u)
           \/ PageList \/ PageGet
    PROVE  TypeOK'
<1>1. ASSUME NEW u \in Users, Fatal(u) PROVE TypeOK'
  <2>1. UNCHANGED <<settings, store, spc, handlers, run, ppc, ref, faulty>> /\ dead' = u
    BY <1>1 DEF Fatal
  <2> QED
    BY <2>1 DEF TypeOK, settings, run, store, handlers
<1>2. ASSUME NEW u \in Users, Fetch(u) PROVE TypeOK'
  <2>1. UNCHANGED <<settings, store, spc, handlers, run, ppc, faulty, dead>>
        /\ ref' = [ref EXCEPT ![u] = IF Kind(u) \in Present THEN gen ELSE 3]
    BY <1>2 DEF Fetch
  <2>2. ref' \in [Users -> 0..3]
    <3>1. gen = 1 \/ gen = 2
      BY DEF TypeOK
    <3>2. gen \in 0..3 /\ 3 \in 0..3
      BY <3>1
    <3>3. ref \in [Users -> 0..3]
      BY DEF TypeOK
    <3> QED
      BY <2>1, <3>2, <3>3
  <2> QED
    BY <2>1, <2>2 DEF TypeOK, settings, run, store, handlers
<1>3. CASE PageList \/ PageGet
  <2>1. "page" \in Users /\ \E bucket : Read("page", bucket)
    BY <1>3 DEF PageList, PageGet, Users
  <2>2. ref' \in [Users -> 0..3] /\ faulty' \in BOOLEAN
    BY <2>1, ReadEffect
  <2>3. \E a \in {"list", "get", "none", "shown", "absent"}, t \in Txns \cup {Nobody} : ppc' = <<a, t>>
    <3>1. CASE PageList
      BY <3>1 DEF PageList
    <3>2. CASE PageGet
      BY <3>2 DEF PageGet
    <3> QED
      BY <1>3, <3>1, <3>2
  <2>4. UNCHANGED <<settings, store, spc, handlers, run, dead>>
    BY <1>3 DEF PageList, PageGet
  <2> QED
    BY <2>2, <2>3, <2>4 DEF TypeOK, settings, run, store, handlers
<1> QED
  BY <1>1, <1>2, <1>3

\* A stored callback is read as its own body, or in memory as a later one.
LEMMA ContentType == \A h \in Handlers : Content(h) = h \/ (Content(h) = Garbled /\ backend # "redis")
  BY DEF Content

\* The run keeps the types.
LEMMA RunType ==
    ASSUME TypeOK, RefsAreHeld, Entries, Run
    PROVE  TypeOK'
<1> DEFINE Steps == {"send", "build", "final", "flush", "save", "clean", "delete", "done"}
<1>0. UNCHANGED <<backend, spc, handlers, ppc, dead>> /\ rpc' \in Steps
  BY DEF Run, Others, settings, Goto, WaitReturns, Build, List, FlushRun, Save, SaveEnds, CleanMemory,
         ScanKeys, DeleteKeys
<1>1. CASE WaitReturns \/ SaveEnds
  <2>1. UNCHANGED <<settings, store, todo, built, listed, keys, owed, saved, ref, faulty>>
    BY <1>1 DEF WaitReturns, SaveEnds, Others
  <2>2. counted' \in SUBSET Txns
    BY <1>1, RunLogConstants DEF WaitReturns, SaveEnds, Counted, TypeOK
  <2> QED
    BY <1>0, <2>1, <2>2 DEF TypeOK, settings, store, handlers
<1>2. ASSUME NEW t \in Txns, Build(t) PROVE TypeOK'
  <2>1. UNCHANGED <<settings, store, counted, listed, keys, owed, saved>> /\ todo' \in SUBSET Txns /\ rpc = "build"
    BY <1>2 DEF Build, Others, Goto, TypeOK
  <2>2. PICK bucket : /\ Read("run", bucket)
                      /\ built' = built \cup {<<t, Content(h)>> : h \in {bucket[t]} \ {NoBody}}
    BY <1>2 DEF Build
  <2>3. ref' \in [Users -> 0..3] /\ faulty' \in BOOLEAN
        /\ \/ ref["run"] \in 1..3 /\ bucket = log[ref["run"]]["cb"]
           \/ bucket = log[gen]["cb"]
           \/ bucket = [u \in Txns |-> NoBody]
    <3>1. "run" \in Users /\ Kind("run") = "cb"
      BY <2>1, KindOf DEF Users
    <3> QED
      BY <2>2, <3>1, ReadEffect
  <2>4. bucket[t] = NoBody \/ bucket[t] \in Handlers
    <3>1. gen \in 1..3
      <4>1. gen = 1 \/ gen = 2
        BY DEF TypeOK
      <4> QED BY <4>1
    <3>2. bucket = [u \in Txns |-> NoBody] \/ \E g \in 1..3 : bucket = log[g]["cb"]
      BY <2>3, <3>1
    <3> QED
      BY <3>2 DEF Entries
  <2>5. built' \in SUBSET (Txns \X (Handlers \cup {Garbled}))
    <3>1. \A h \in {bucket[t]} \ {NoBody} : Content(h) \in Handlers \cup {Garbled}
      BY <2>4, ContentType
    <3>2. built \in SUBSET (Txns \X (Handlers \cup {Garbled}))
      BY DEF TypeOK
    <3> QED
      BY <2>2, <3>1, <3>2
  <2> QED
    BY <1>0, <2>1, <2>3, <2>5 DEF TypeOK, settings, store, handlers
<1>3. CASE List
  <2>1. UNCHANGED <<settings, store, counted, todo, built, keys, owed, saved>> /\ listed' \in SUBSET Txns
    BY <1>3 DEF List, Others
  <2>2. "run" \in Users /\ \E bucket : Read("run", bucket)
    BY <1>3 DEF List, Users
  <2>3. ref' \in [Users -> 0..3] /\ faulty' \in BOOLEAN
    BY <2>2, ReadEffect
  <2> QED
    BY <1>0, <2>1, <2>3 DEF TypeOK, settings, store, handlers
<1>4. CASE FlushRun
  <2>1. UNCHANGED <<store, counted, todo, built, listed, saved, ref>> /\ persist' \in {"DB", "FS", "none"}
    BY <1>4 DEF FlushRun
  <2>2. owed' \in SUBSET ({"req", "cb"} \X Txns)
    BY <1>4 DEF FlushRun, Recorded
  <2>3. keys' \in SUBSET Kinds
    BY <1>4 DEF FlushRun, Exportable, Kinds
  <2>4. faulty' \in BOOLEAN
    BY <1>4 DEF FlushRun, Fault, TypeOK
  <2> QED
    BY <1>0, <2>1, <2>2, <2>3, <2>4 DEF TypeOK, store, handlers
<1>5. CASE Save
  <2>1. UNCHANGED <<settings, store, counted, todo, built, listed, owed, ref>>
    BY <1>5 DEF Save, Others
  <2>2. PICK ks : LET entries == {e \in Recorded : e[1] \in ks} IN
        \/ saved' = saved \cup entries /\ keys' = keys \ ks /\ UNCHANGED faulty
        \/ /\ \E some \in SUBSET entries : saved' = saved \cup some
           /\ keys' = {} /\ Fault
        \/ backend = "redis" /\ keys' = keys \ ks /\ Fault /\ UNCHANGED saved
    BY <1>5 DEF Save
  <2>3. saved' \in SUBSET ({"req", "cb"} \X Txns)
    <3>1. Recorded \subseteq {"req", "cb"} \X Txns /\ saved \subseteq {"req", "cb"} \X Txns
      BY DEF Recorded, TypeOK
    <3> QED
      BY <2>2, <3>1
  <2>4. keys' \in SUBSET Kinds
    BY <2>2 DEF TypeOK
  <2>5. faulty' \in BOOLEAN
    BY <2>2 DEF Fault, TypeOK
  <2> QED
    BY <1>0, <2>1, <2>3, <2>4, <2>5 DEF TypeOK, settings, store, handlers
<1>6. CASE CleanMemory
  <2>1. UNCHANGED <<settings, log, lock, ttl, counted, todo, built, listed, keys, owed, saved, ref, faulty>> /\ gen' = 2
    BY <1>6 DEF CleanMemory, Others
  <2> QED
    BY <1>0, <2>1 DEF TypeOK, settings, handlers
<1>7. CASE ScanKeys
  <2>1. UNCHANGED <<settings, store, counted, todo, built, listed, owed, saved, ref>> /\ keys' \in SUBSET Kinds
    BY <1>7 DEF ScanKeys, Others, Present
  <2>2. faulty' \in BOOLEAN
    BY <1>7 DEF ScanKeys, Fault, TypeOK
  <2> QED
    BY <1>0, <2>1, <2>2 DEF TypeOK, settings, store, handlers
<1>8. CASE DeleteKeys
  <2>1. UNCHANGED <<settings, gen, lock, counted, todo, built, listed, owed, saved, ref>> /\ keys' = {}
    BY <1>8 DEF DeleteKeys, Others
  <2>2. log' \in Logs
    <3>1. log \in Logs /\ (log' = log \/ log' = Without(keys))
      BY <1>8 DEF DeleteKeys, TypeOK
    <3> QED
      BY <3>1, WithoutEntry
  <2>3. faulty' \in BOOLEAN
    BY <1>8 DEF DeleteKeys, Fault, TypeOK
  <2>4. ttl' \in SUBSET Kinds
    BY <1>8 DEF DeleteKeys, TypeOK
  <2> QED
    BY <1>0, <2>1, <2>2, <2>3, <2>4 DEF TypeOK, settings, handlers
<1> QED
  BY <1>1, <1>2, <1>3, <1>4, <1>5, <1>6, <1>7, <1>8 DEF Run

\* An expiry keeps the types.
LEMMA ExpireType ==
    ASSUME TypeOK, NEW k \in Kinds, Expire(k)
    PROVE  TypeOK'
<1>1. UNCHANGED <<settings, gen, lock, spc, handlers, run, ppc, ref, dead>>
  BY DEF Expire
<1>2. log' \in Logs /\ ttl' \in SUBSET Kinds
  BY WithoutEntry DEF Expire, TypeOK
<1>3. faulty' \in BOOLEAN
  BY DEF Expire, Fault, TypeOK
<1> QED
  BY <1>1, <1>2, <1>3 DEF TypeOK, settings, handlers, run

\* Every step keeps the types.
LEMMA StepType == TypeOK /\ RefsAreHeld /\ Entries /\ [Next]_vars => TypeOK'
<1> SUFFICES ASSUME TypeOK, RefsAreHeld, Entries, [Next]_vars PROVE TypeOK'
  OBVIOUS
<1>1. CASE UNCHANGED vars
  BY <1>1 DEF vars, settings, store, handlers, run, TypeOK
<1>2. CASE Next
  BY <1>2, SenderType, HandlerType, ReaderType, RunType, ExpireType DEF Next
<1> QED
  BY <1>1, <1>2

-----------------------------------------------------------------------------
\* Who is about to read.
LEMMA ReadsOf ==
    /\ \A h \in Handlers : Reads(h) <=> hpc[h] = "recd"
    /\ Reads("run") <=> rpc \in {"build", "final"}
    /\ Reads("page") <=> ppc[1] \in {"list", "get"}
<1>1. "run" \notin Handlers /\ "page" \notin Handlers
  BY RunLogConstants
<1>2. ASSUME NEW h \in Handlers PROVE Reads(h) <=> hpc[h] = "recd"
  BY <1>1, <1>2 DEF Reads
<1>3. Reads("run") <=> rpc \in {"build", "final"}
  BY <1>1 DEF Reads
<1>4. Reads("page") <=> ppc[1] \in {"list", "get"}
  BY <1>1 DEF Reads
<1> QED
  BY <1>2, <1>3, <1>4

\* The steps of Next, without those of senders and handlers.
Calm == \/ \E h \in Handlers : ReuseBuffer(h)
        \/ \E u \in Users : Fatal(u) \/ (Reads(u) /\ Fetch(u))
        \/ Run \/ PageList \/ PageGet
        \/ \E k \in Kinds : Expire(k)
        \/ UNCHANGED vars

\* None of them writes, takes the lock, or moves a sender or a handler.
LEMMA CalmStep == Calm => UNCHANGED <<backend, lock, spc, hpc>>
<1> USE DEF settings, store, handlers, Others
<1>1. CASE \E h \in Handlers : ReuseBuffer(h)
  BY <1>1 DEF ReuseBuffer
<1>2. CASE \E u \in Users : Fatal(u) \/ (Reads(u) /\ Fetch(u))
  BY <1>2 DEF Fatal, Fetch
<1>3. CASE Run
  BY <1>3 DEF Run, WaitReturns, Build, List, FlushRun, Save, SaveEnds, CleanMemory, ScanKeys, DeleteKeys
<1>4. CASE PageList \/ PageGet
  BY <1>4 DEF PageList, PageGet
<1>5. CASE \E k \in Kinds : Expire(k)
  BY <1>5 DEF Expire
<1>6. CASE UNCHANGED vars
  BY <1>6 DEF vars
<1> QED
  BY <1>1, <1>2, <1>3, <1>4, <1>5, <1>6 DEF Calm

\* Next is a step of a sender, of a handler, or calm.
LEMMA NextCases ==
    ASSUME [Next]_vars
    PROVE  \/ dead = Nobody /\ \E t \in Txns : Sender(t)
           \/ dead = Nobody /\ \E h \in Handlers : Arrive(h) \/ CallbackRecorded(h) \/ GetTimestamp(h)
           \/ Calm
  BY DEF Next, Handler, Calm

-----------------------------------------------------------------------------
\* The lock is taken by the first half of a write and given back by the second.
LEMMA StepLock ==
    ASSUME TypeOK, LockIsHeld, [Next]_vars
    PROVE  LockIsHeld'
<1>1. ASSUME NEW t \in Txns, Sender(t) PROVE LockIsHeld'
  <2>1. spc \in [Txns -> {"new", "rec", "recd", "ts", "sent"}] /\ backend \in {"memory", "redis"}
    BY DEF TypeOK
  <2>2. UNCHANGED <<backend, hpc>>
    BY <1>1 DEF Sender, settings, handlers
  <2>3. \/ UNCHANGED lock /\ backend = "redis"
        \/ lock' = Nobody
        \/ lock' = <<t, "req">> /\ spc'[t] = "rec" /\ backend = "memory"
        \/ lock' = <<t, "ts">> /\ spc'[t] = "ts" /\ backend = "memory"
    BY <1>1, <2>1, SenderCases DEF BeginWrite, EndWrite, WriteFails
  <2> QED
    BY <2>2, <2>3 DEF LockIsHeld
<1>2. ASSUME NEW h \in Handlers, Arrive(h) \/ CallbackRecorded(h) PROVE LockIsHeld'
  <2>1. hpc \in [Handlers -> {"idle", "rec", "recd", "found", "missing"}] /\ backend \in {"memory", "redis"}
    BY DEF TypeOK
  <2>2. UNCHANGED <<backend, spc>>
    BY <1>2 DEF Arrive, CallbackRecorded, settings
  <2>3. \/ UNCHANGED lock /\ backend = "redis"
        \/ lock' = Nobody
        \/ lock' = <<h, "cb">> /\ hpc'[h] = "rec" /\ backend = "memory"
    BY <1>2, <2>1 DEF Arrive, CallbackRecorded, BeginWrite, EndWrite, WriteFails
  <2> QED
    BY <2>2, <2>3 DEF LockIsHeld
<1>3. ASSUME NEW h \in Handlers, GetTimestamp(h) PROVE LockIsHeld'
  <2>1. hpc \in [Handlers -> {"idle", "rec", "recd", "found", "missing"}]
    BY DEF TypeOK
  <2>2. UNCHANGED <<backend, spc, lock>> /\ \A x \in Handlers : hpc[x] = "rec" => hpc'[x] = "rec"
    BY <1>3, <2>1 DEF GetTimestamp, settings, store
  <2> QED
    BY <2>2 DEF LockIsHeld
<1>4. CASE Calm
  BY <1>4, CalmStep DEF LockIsHeld
<1> QED
  BY <1>1, <1>2, <1>3, <1>4, NextCases

\* A fault is never forgotten, a finished run stays finished, a sent request sent.
LEMMA StepForward ==
    ASSUME TypeOK, [Next]_vars
    PROVE  /\ UNCHANGED backend
           /\ faulty => faulty'
           /\ rpc = "done" => rpc' = "done"
           /\ \A t \in Txns : /\ spc[t] = "sent" => spc'[t] = "sent"
                              /\ spc[t] \in {"ts", "sent"} => spc'[t] \in {"ts", "sent"}
<1>1. ASSUME NEW t \in Txns, Sender(t)
      PROVE  /\ UNCHANGED <<backend, rpc>> /\ (faulty => faulty')
             /\ \A x \in Txns : /\ spc[x] = "sent" => spc'[x] = "sent"
                                /\ spc[x] \in {"ts", "sent"} => spc'[x] \in {"ts", "sent"}
  <2>1. spc \in [Txns -> {"new", "rec", "recd", "ts", "sent"}]
    BY DEF TypeOK
  <2>2. UNCHANGED <<backend, rpc>>
    BY <1>1 DEF Sender, settings, run
  <2>3. faulty => faulty'
    BY <1>1, <2>1, SenderCases DEF BeginWrite, EndWrite, WriteFails, Fault
  <2> QED
    BY <1>1, <2>1, <2>2, <2>3, SenderCases
<1>2. ASSUME NEW h \in Handlers, Arrive(h) \/ CallbackRecorded(h) \/ GetTimestamp(h)
      PROVE  UNCHANGED <<backend, rpc, spc>> /\ (faulty => faulty')
  <2>1. UNCHANGED <<backend, rpc, spc>>
    BY <1>2 DEF Arrive, CallbackRecorded, GetTimestamp, settings, run
  <2>2. faulty => faulty'
    BY <1>2 DEF Arrive, CallbackRecorded, GetTimestamp, BeginWrite, EndWrite, WriteFails, Read, Fault
  <2> QED
    BY <2>1, <2>2
<1>3. ASSUME Calm PROVE UNCHANGED <<backend, spc>> /\ (faulty => faulty') /\ (rpc = "done" => rpc' = "done")
  <2> USE DEF Fault, run
  <2>0. UNCHANGED <<backend, spc>>
    BY <1>3, CalmStep
  <2>1. CASE \E h \in Handlers : ReuseBuffer(h)
    BY <2>0, <2>1 DEF ReuseBuffer
  <2>2. CASE \E u \in Users : Fatal(u) \/ (Reads(u) /\ Fetch(u))
    BY <2>0, <2>2 DEF Fatal, Fetch
  <2>3. CASE Run
    <3>1. rpc # "done"
      BY <2>3 DEF Run, Goto, WaitReturns, Build, List, FlushRun, Save, SaveEnds, CleanMemory, ScanKeys, DeleteKeys
    <3>2. faulty => faulty'
      BY <2>3 DEF Run, Read, WaitReturns, Build, List, FlushRun, Save, SaveEnds, CleanMemory, ScanKeys, DeleteKeys
    <3> QED
      BY <2>0, <3>1, <3>2
  <2>4. CASE PageList \/ PageGet
    <3>1. UNCHANGED run
      BY <2>4 DEF PageList, PageGet
    <3>2. faulty => faulty'
      <4>1. PICK bucket : Read("page", bucket)
        BY <2>4 DEF PageList, PageGet
      <4> QED
        BY <4>1 DEF Read
    <3> QED
      BY <2>0, <3>1, <3>2
  <2>5. CASE \E k \in Kinds : Expire(k)
    BY <2>0, <2>5 DEF Expire
  <2>6. CASE UNCHANGED vars
    BY <2>0, <2>6 DEF vars
  <2> QED
    BY <1>3, <2>1, <2>2, <2>3, <2>4, <2>5, <2>6 DEF Calm
<1> QED
  BY <1>1, <1>2, <1>3, NextCases

\* The log of a run in which nothing fails only grows until it is cleaned up.
LEMMA LogGrows ==
    ASSUME TypeOK, [Next]_vars, Whole', NEW g \in 1..3, NEW k \in Kinds, NEW x \in Txns,
           log[g][k][x] # NoBody
    PROVE  log'[g][k][x] # NoBody
<1>0. "req" \in Kinds /\ "ts" \in Kinds /\ "cb" \in Kinds
  BY DEF Kinds
<1>1. ASSUME NEW w, NEW j \in Kinds, NEW t \in Txns, NEW b \in Txns \cup Handlers,
             BeginWrite(w, j, t, b) \/ EndWrite(j, t, b) \/ WriteFails(j, t, b)
      PROVE  log'[g][k][x] # NoBody
  <2>1. log' = log \/ log' = Put(j, t, b)
    BY <1>1, WriteEffect
  <2>2. b # NoBody
    BY RunLogConstants
  <2>3. Put(j, t, b)[g][k][x] = IF g = gen /\ k = j /\ x = t THEN b ELSE log[g][k][x]
    BY PutEntry
  <2> QED
    BY <2>1, <2>2, <2>3
<1>2. ASSUME NEW t \in Txns, Sender(t) PROVE log'[g][k][x] # NoBody
  <2>1. spc \in [Txns -> {"new", "rec", "recd", "ts", "sent"}]
    BY DEF TypeOK
  <2>2. \E j \in Kinds : BeginWrite(t, j, t, t) \/ EndWrite(j, t, t) \/ WriteFails(j, t, t)
    BY <1>0, <1>2, <2>1, SenderCases
  <2> QED
    BY <1>1, <2>2
<1>3. ASSUME NEW h \in Handlers, Arrive(h) \/ CallbackRecorded(h) PROVE log'[g][k][x] # NoBody
  <2>1. BeginWrite(h, "cb", Of[h], h) \/ EndWrite("cb", Of[h], h) \/ WriteFails("cb", Of[h], h)
    BY <1>3 DEF Arrive, CallbackRecorded
  <2>2. Of[h] \in Txns
    BY RunLogConstants
  <2> QED
    BY <1>0, <1>1, <2>1, <2>2
<1>4. ASSUME NEW h \in Handlers, GetTimestamp(h) PROVE UNCHANGED log
  BY <1>4 DEF GetTimestamp, store
<1>5. CASE Calm
  <2> USE DEF store, run
  <2>1. CASE \E h \in Handlers : ReuseBuffer(h)
    BY <2>1 DEF ReuseBuffer
  <2>2. CASE \E u \in Users : Fatal(u) \/ (Reads(u) /\ Fetch(u))
    BY <2>2 DEF Fatal, Fetch
  <2>3. CASE Run
    <3>1. CASE DeleteKeys
      BY <3>1 DEF DeleteKeys, Goto, Whole
    <3>2. CASE ~DeleteKeys
      BY <2>3, <3>2 DEF Run, WaitReturns, Build, List, FlushRun, Save, SaveEnds, CleanMemory, ScanKeys
    <3> QED
      BY <3>1, <3>2
  <2>4. CASE PageList \/ PageGet
    BY <2>4 DEF PageList, PageGet
  <2>5. CASE \E j \in Kinds : Expire(j)
    BY <2>5 DEF Expire, Fault, Whole
  <2>6. CASE UNCHANGED vars
    BY <2>6 DEF vars
  <2> QED
    BY <1>5, <2>1, <2>2, <2>3, <2>4, <2>5, <2>6 DEF Calm
<1> QED
  BY <1>2, <1>3, <1>4, <1>5, NextCases

-----------------------------------------------------------------------------
\* Every step keeps Entries: a write names its transaction, a clean-up only removes.
LEMMA StepEntries ==
    ASSUME TypeOK, Entries, [Next]_vars
    PROVE  Entries'
<1>0. "req" \in Kinds /\ "ts" \in Kinds /\ "cb" \in Kinds
  BY DEF Kinds
<1>1. \A t \in Txns : spc[t] \in {"ts", "sent"} => spc'[t] \in {"ts", "sent"}
  BY StepForward
<1>2. CASE UNCHANGED log
  BY <1>1, <1>2 DEF Entries
<1>3. ASSUME NEW ks, log' = Without(ks) PROVE Entries'
  <2>1. \A g \in 1..3, t \in Txns : log'[g]["cb"][t] \in {NoBody, log[g]["cb"][t]}
                                    /\ log'[g]["ts"][t] \in {NoBody, log[g]["ts"][t]}
    BY <1>0, <1>3, WithoutEntry
  <2> QED
    BY <1>1, <2>1 DEF Entries
<1>4. ASSUME NEW t \in Txns, Sender(t) PROVE Entries'
  <2>1. spc \in [Txns -> {"new", "rec", "recd", "ts", "sent"}]
    BY DEF TypeOK
  <2>2. \/ UNCHANGED log
        \/ log' = Put("req", t, t)
        \/ log' = Put("ts", t, t) /\ spc'[t] \in {"ts", "sent"}
    BY <1>4, <2>1, SenderCases DEF BeginWrite, EndWrite, WriteFails
  <2>3. CASE log' = Put("req", t, t)
    <3>1. \A g \in 1..3, x \in Txns : log'[g]["cb"][x] = log[g]["cb"][x] /\ log'[g]["ts"][x] = log[g]["ts"][x]
      BY <1>0, <2>3, PutEntry
    <3> QED
      BY <1>1, <3>1 DEF Entries
  <2>4. CASE log' = Put("ts", t, t) /\ spc'[t] \in {"ts", "sent"}
    <3>1. \A g \in 1..3, x \in Txns : log'[g]["cb"][x] = log[g]["cb"][x]
                                      /\ (x # t => log'[g]["ts"][x] = log[g]["ts"][x])
      BY <1>0, <2>4, PutEntry
    <3> QED
      BY <1>1, <2>4, <3>1 DEF Entries
  <2> QED
    BY <1>2, <2>2, <2>3, <2>4
<1>5. ASSUME NEW h \in Handlers, Arrive(h) \/ CallbackRecorded(h) \/ GetTimestamp(h) PROVE Entries'
  <2>1. UNCHANGED log \/ log' = Put("cb", Of[h], h)
    BY <1>5 DEF Arrive, CallbackRecorded, GetTimestamp, BeginWrite, EndWrite, WriteFails, store
  <2>2. CASE log' = Put("cb", Of[h], h)
    <3>1. Of[h] \in Txns
      BY RunLogConstants
    <3>2. \A g \in 1..3, x \in Txns :
             /\ log'[g]["ts"][x] = log[g]["ts"][x]
             /\ log'[g]["cb"][x] = log[g]["cb"][x] \/ (x = Of[h] /\ log'[g]["cb"][x] = h)
      BY <1>0, <2>2, <3>1, PutEntry
    <3> QED
      BY <1>1, <3>2 DEF Entries
  <2> QED
    BY <1>2, <2>1, <2>2
<1>6. CASE Calm
  <2> USE DEF store, run
  <2>1. CASE \E h \in Handlers : ReuseBuffer(h)
    BY <1>2, <2>1 DEF ReuseBuffer
  <2>2. CASE \E u \in Users : Fatal(u) \/ (Reads(u) /\ Fetch(u))
    BY <1>2, <2>2 DEF Fatal, Fetch
  <2>3. CASE Run
    <3>1. CASE DeleteKeys
      BY <1>2, <1>3, <3>1 DEF DeleteKeys
    <3>2. CASE ~DeleteKeys
      BY <1>2, <2>3, <3>2 DEF Run, WaitReturns, Build, List, FlushRun, Save, SaveEnds, CleanMemory, ScanKeys
    <3> QED
      BY <3>1, <3>2
  <2>4. CASE PageList \/ PageGet
    BY <1>2, <2>4 DEF PageList, PageGet
  <2>5. CASE \E j \in Kinds : Expire(j)
    BY <1>3, <2>5 DEF Expire
  <2>6. CASE UNCHANGED vars
    BY <1>2, <2>6 DEF vars
  <2> QED
    BY <1>6, <2>1, <2>2, <2>3, <2>4, <2>5, <2>6 DEF Calm
<1> QED
  BY <1>4, <1>5, <1>6, NextCases

-----------------------------------------------------------------------------
\* A read of the times finds only requests that were recorded.
LEMMA TimesRead ==
    ASSUME TypeOK, RefsAreHeld, Entries, NEW u \in Users, Kind(u) = "ts", NEW bucket, Read(u, bucket),
           NEW t \in Txns, bucket[t] # NoBody
    PROVE  spc[t] \in {"ts", "sent"}
<1>1. gen \in 1..3
  <2>1. gen = 1 \/ gen = 2
    BY DEF TypeOK
  <2> QED BY <2>1
<1>2. bucket = [x \in Txns |-> NoBody] \/ \E g \in 1..3 : bucket = log[g]["ts"]
  BY <1>1, ReadEffect
<1> QED
  BY <1>2 DEF Entries

\* Every step keeps Order.
LEMMA StepOrder ==
    ASSUME TypeOK, Order, RefsAreHeld, Entries, [Next]_vars
    PROVE  Order'
<1>1. \A t \in Txns : /\ spc[t] = "sent" => spc'[t] = "sent"
                      /\ spc[t] \in {"ts", "sent"} => spc'[t] \in {"ts", "sent"}
  BY StepForward
<1>2. CASE UNCHANGED <<rpc, gen, hpc, ppc>>
  <2>1. \A h \in Handlers : Of[h] \in Txns
    BY RunLogConstants
  <2> QED
    BY <1>1, <1>2, <2>1 DEF Order
<1>3. ASSUME NEW t \in Txns, Sender(t) PROVE Order'
  <2>1. spc \in [Txns -> {"new", "rec", "recd", "ts", "sent"}]
    BY DEF TypeOK
  <2>2. UNCHANGED <<rpc, hpc, ppc>>
    BY <1>3 DEF Sender, handlers, run
  <2>3. UNCHANGED gen
    BY <1>3, <2>1, SenderCases DEF BeginWrite, EndWrite, WriteFails
  <2> QED
    BY <1>2, <2>2, <2>3
<1>4. ASSUME NEW h \in Handlers, Arrive(h) \/ CallbackRecorded(h) \/ GetTimestamp(h) PROVE Order'
  <2>1. UNCHANGED <<rpc, gen, ppc, spc>>
    BY <1>4 DEF Arrive, CallbackRecorded, GetTimestamp, BeginWrite, EndWrite, WriteFails, store, run
  <2>2. hpc \in [Handlers -> {"idle", "rec", "recd", "found", "missing"}]
    BY DEF TypeOK
  <2>3. \A x \in Handlers : hpc'[x] # "idle" => hpc[x] # "idle" \/ spc[Of[x]] = "sent"
    BY <1>4, <2>2 DEF Arrive, CallbackRecorded, GetTimestamp
  <2> QED
    BY <2>1, <2>3 DEF Order
<1>5. CASE Calm
  <2> USE DEF store, run, handlers
  <2>0. UNCHANGED <<spc, hpc>>
    BY <1>5, CalmStep
  <2>1. CASE \E h \in Handlers : ReuseBuffer(h)
    BY <1>2, <2>1 DEF ReuseBuffer
  <2>2. CASE \E u \in Users : Fatal(u) \/ (Reads(u) /\ Fetch(u))
    BY <1>2, <2>2 DEF Fatal, Fetch
  <2>3. CASE Run
    <3>1. /\ rpc = "send" => \A t \in Txns : spc[t] = "sent"
          /\ UNCHANGED gen \/ rpc' = "done"
          /\ UNCHANGED ppc
          /\ rpc # "done"
      BY <2>3 DEF Run, Goto, Others, WaitReturns, Build, List, FlushRun, Save, SaveEnds, CleanMemory, ScanKeys,
                  DeleteKeys
    <3> QED
      BY <2>0, <3>1 DEF Order
  <2>4. CASE PageList
    <3>1. PICK bucket : /\ Read("page", bucket)
                        /\ \/ \E t \in Txns : bucket[t] # NoBody /\ ppc' = <<"get", t>>
                           \/ ppc' = <<"none", Nobody>>
      BY <2>4 DEF PageList
    <3>2. "page" \in Users /\ Kind("page") = "ts"
      BY <2>4, KindOf DEF PageList, Users
    <3>3. ppc'[1] = "get" => ppc'[2] \in Txns /\ spc[ppc'[2]] \in {"ts", "sent"}
      BY <3>1, <3>2, TimesRead
    <3>4. UNCHANGED <<rpc, gen>>
      BY <2>4 DEF PageList
    <3> QED
      BY <2>0, <3>3, <3>4 DEF Order
  <2>5. CASE PageGet
    <3>1. ppc'[1] # "get" /\ UNCHANGED <<rpc, gen>>
      <4>1. PICK a \in {"absent", "shown"} : ppc' = <<a, Nobody>>
        BY <2>5 DEF PageGet
      <4>2. UNCHANGED <<rpc, gen>>
        BY <2>5 DEF PageGet
      <4> QED
        BY <4>1, <4>2
    <3> QED
      BY <2>0, <3>1 DEF Order
  <2>6. CASE \E j \in Kinds : Expire(j)
    BY <1>2, <2>6 DEF Expire
  <2>7. CASE UNCHANGED vars
    BY <1>2, <2>7 DEF vars
  <2> QED
    BY <1>5, <2>1, <2>2, <2>3, <2>4, <2>5, <2>6, <2>7 DEF Calm
<1> QED
  BY <1>3, <1>4, <1>5, NextCases

\* Every step keeps RefsAreHeld: whoever moves on has read what it fetched.
LEMMA StepRefs ==
    ASSUME TypeOK, RefsAreHeld, [Next]_vars
    PROVE  RefsAreHeld'
<1>0. /\ "run" \in Users /\ "page" \in Users /\ Handlers \subseteq Users
      /\ "run" \notin Handlers /\ "page" \notin Handlers /\ ref \in [Users -> 0..3]
      /\ hpc \in [Handlers -> {"idle", "rec", "recd", "found", "missing"}]
  BY RunLogConstants DEF Users, TypeOK
<1>1. CASE UNCHANGED <<backend, ref, hpc, rpc>>
  BY <1>1 DEF RefsAreHeld
<1>2. ASSUME NEW t \in Txns, Sender(t) PROVE RefsAreHeld'
  BY <1>1, <1>2 DEF Sender, settings, handlers, run
<1>3. ASSUME NEW h \in Handlers, Arrive(h) \/ CallbackRecorded(h) PROVE RefsAreHeld'
  <2>1. UNCHANGED <<backend, ref, rpc>> /\ hpc[h] # "recd" /\ \A x \in Handlers \ {h} : hpc'[x] = hpc[x]
    BY <1>0, <1>3 DEF Arrive, CallbackRecorded, settings, run
  <2> QED
    BY <2>1 DEF RefsAreHeld
<1>4. ASSUME NEW h \in Handlers, GetTimestamp(h) PROVE RefsAreHeld'
  <2>1. UNCHANGED <<backend, rpc>> /\ \A x \in Handlers \ {h} : hpc'[x] = hpc[x]
    BY <1>0, <1>4 DEF GetTimestamp, settings, run
  <2>2. ref'[h] = 0 /\ \A v \in Users \ {h} : ref'[v] = ref[v]
    BY <1>0, <1>4, ReadEffect DEF GetTimestamp
  <2> QED
    BY <1>0, <2>1, <2>2 DEF RefsAreHeld
<1>5. CASE Calm
  <2> USE DEF store, run, handlers
  <2>0. UNCHANGED <<backend, hpc>>
    BY <1>5, CalmStep
  <2>1. CASE \E h \in Handlers : ReuseBuffer(h)
    BY <1>1, <2>0, <2>1 DEF ReuseBuffer
  <2>2. ASSUME NEW u \in Users, Fatal(u) PROVE RefsAreHeld'
    BY <1>1, <2>0, <2>2 DEF Fatal
  <2>3. ASSUME NEW u \in Users, Reads(u), Fetch(u) PROVE RefsAreHeld'
    <3>1. UNCHANGED rpc /\ backend = "memory" /\ \A v \in Users \ {u} : ref'[v] = ref[v]
      BY <1>0, <2>3 DEF Fetch
    <3>2. u \in Handlers => hpc[u] = "recd"
      BY <2>3, ReadsOf
    <3>3. u = "run" => rpc \in {"build", "final"}
      BY <2>3, ReadsOf
    <3> QED
      BY <1>0, <2>0, <3>1, <3>2, <3>3 DEF RefsAreHeld
  <2>4. CASE (\E t \in Txns : Build(t)) \/ List
    <3>1. \E bucket : Read("run", bucket)
      BY <2>4 DEF Build, List
    <3>2. ref'["run"] = 0 /\ \A v \in Users \ {"run"} : ref'[v] = ref[v]
      BY <1>0, <3>1, ReadEffect
    <3> QED
      BY <1>0, <2>0, <3>2 DEF RefsAreHeld
  <2>5. CASE WaitReturns \/ FlushRun \/ Save \/ SaveEnds \/ CleanMemory \/ ScanKeys \/ DeleteKeys
    <3>1. UNCHANGED ref /\ rpc \notin {"build", "final"}
      BY <2>5 DEF Goto, WaitReturns, FlushRun, Save, SaveEnds, CleanMemory, ScanKeys, DeleteKeys
    <3> QED
      BY <2>0, <3>1 DEF RefsAreHeld
  <2>6. CASE PageList \/ PageGet
    <3>1. \E bucket : Read("page", bucket)
      BY <2>6 DEF PageList, PageGet
    <3>2. ref'["page"] = 0 /\ \A v \in Users \ {"page"} : ref'[v] = ref[v]
      BY <1>0, <3>1, ReadEffect
    <3>3. UNCHANGED rpc
      BY <2>6 DEF PageList, PageGet
    <3> QED
      BY <1>0, <2>0, <3>2, <3>3 DEF RefsAreHeld
  <2>7. CASE \E j \in Kinds : Expire(j)
    BY <1>1, <2>0, <2>7 DEF Expire
  <2>8. CASE UNCHANGED vars
    BY <1>1, <2>0, <2>8 DEF vars
  <2> QED
    BY <1>5, <2>1, <2>2, <2>3, <2>4, <2>5, <2>6, <2>7, <2>8 DEF Calm, Run
<1> QED
  BY <1>2, <1>3, <1>4, <1>5, NextCases

-----------------------------------------------------------------------------
\* Every step keeps Kept: a sender moves on only when its entry is there.
LEMMA StepKept ==
    ASSUME TypeOK, Order, Kept, [Next]_vars
    PROVE  Kept'
<1> DEFINE ReqDue(t) == spc[t] \in {"recd", "ts", "sent"} \/ (spc[t] = "rec" /\ backend = "redis")
           TsDue(t) == spc[t] = "sent" \/ (spc[t] = "ts" /\ backend = "redis")
<1>0. 1 \in 1..3 /\ "req" \in Kinds /\ "ts" \in Kinds
  BY DEF Kinds
<1>1. SUFFICES ASSUME Whole', NEW x \in Txns
               PROVE  /\ ReqDue(x)' => log'[1]["req"][x] # NoBody
                      /\ TsDue(x)' => log'[1]["ts"][x] # NoBody
  BY DEF Kept
<1>2. UNCHANGED backend /\ Whole
  BY <1>1, StepForward DEF Whole
<1>3. /\ ReqDue(x) => log[1]["req"][x] # NoBody
      /\ TsDue(x) => log[1]["ts"][x] # NoBody
  BY <1>2 DEF Kept
<1>4. /\ log[1]["req"][x] # NoBody => log'[1]["req"][x] # NoBody
      /\ log[1]["ts"][x] # NoBody => log'[1]["ts"][x] # NoBody
  BY <1>0, <1>1, LogGrows
<1>5. CASE spc'[x] = spc[x]
  BY <1>2, <1>3, <1>4, <1>5
<1>6. ASSUME NEW t \in Txns, Sender(t), t # x PROVE spc'[x] = spc[x]
  BY <1>6, SenderCases DEF TypeOK
<1>7. CASE Sender(x)
  <2>1. spc \in [Txns -> {"new", "rec", "recd", "ts", "sent"}] /\ backend \in {"memory", "redis"}
    BY DEF TypeOK
  <2>2. ~faulty'
    BY <1>1 DEF Whole
  <2>3. Put("req", x, x)[1]["req"][x] # NoBody /\ Put("ts", x, x)[1]["ts"][x] # NoBody
    <3>1. gen = 1 /\ x # NoBody
      BY <1>2, RunLogConstants DEF Order, Whole
    <3> QED
      BY <1>0, <3>1, PutEntry
  <2>4. \/ /\ spc[x] = "new" /\ spc'[x] = "rec" /\ (backend = "redis" => log' = Put("req", x, x))
        \/ /\ spc[x] = "rec" /\ spc'[x] = "recd" /\ (backend = "memory" => log' = Put("req", x, x))
        \/ /\ spc[x] = "recd" /\ spc'[x] = "ts" /\ (backend = "redis" => log' = Put("ts", x, x))
        \/ /\ spc[x] = "ts" /\ spc'[x] = "sent" /\ (backend = "memory" => log' = Put("ts", x, x))
    BY <1>7, <2>1, <2>2, SenderCases DEF BeginWrite, EndWrite, WriteFails, Fault
  <2> QED
    BY <1>2, <1>3, <1>4, <2>1, <2>3, <2>4
<1>8. ASSUME NEW h \in Handlers, Arrive(h) \/ CallbackRecorded(h) \/ GetTimestamp(h) PROVE spc'[x] = spc[x]
  BY <1>8 DEF Arrive, CallbackRecorded, GetTimestamp
<1>9. CASE Calm
  BY <1>5, <1>9, CalmStep
<1> QED
  BY <1>5, <1>6, <1>7, <1>8, <1>9, NextCases

\* A fetch finds the bucket of an entry that is there, not the empty one.
LEMMA FetchFinds ==
    ASSUME TypeOK, Order, Kept, Whole, NEW u \in Users, Fetch(u), NEW t \in Txns, NEW k \in Kinds,
           Kind(u) = k, log[1][k][t] # NoBody
    PROVE  log[ref'[u]][k][t] # NoBody
<1>1. gen = 1
  BY DEF Order, Whole
<1>2. k \in Present
  BY <1>1 DEF Present, Has
<1>3. ref'[u] = 1
  BY <1>1, <1>2 DEF Fetch, TypeOK
<1> QED
  BY <1>3

\* Every step keeps Fetched, although others write between a fetch and its read.
LEMMA StepFetched ==
    ASSUME TypeOK, Order, RefsAreHeld, Kept, Fetched, [Next]_vars
    PROVE  Fetched'
<1>0. /\ "run" \in Users /\ "page" \in Users /\ Handlers \subseteq Users
      /\ "run" \notin Handlers /\ "page" \notin Handlers /\ "page" # "run"
      /\ "req" \in Kinds /\ "ts" \in Kinds /\ \A h \in Handlers : Of[h] \in Txns
  BY RunLogConstants DEF Users, Kinds
<1>1. ref \in [Users -> 0..3] /\ \A u \in Users : ref[u] # 0 => ref[u] \in 1..3
  <2>1. ref \in [Users -> 0..3]
    BY DEF TypeOK
  <2> QED
    BY <2>1
<1>2. SUFFICES ASSUME Whole' PROVE Fetched'
  BY DEF Fetched
<1>3. Whole
  BY <1>2, StepForward DEF Whole
<1> DEFINE FH(h) == ref[h] # 0 => log[ref[h]]["ts"][Of[h]] # NoBody
           FR == rpc = "final" /\ ref["run"] # 0 => \A t \in Txns : log[ref["run"]]["ts"][t] # NoBody
           FP == ppc[1] = "get" /\ ref["page"] # 0 => log[ref["page"]]["req"][ppc[2]] # NoBody
<1>4. (\A h \in Handlers : FH(h)) /\ FR /\ FP
  BY <1>3 DEF Fetched
<1>5. ASSUME NEW h \in Handlers, ref'[h] = ref[h] PROVE FH(h)'
  BY <1>0, <1>1, <1>2, <1>4, <1>5, LogGrows
<1>6. ASSUME ref'["run"] = ref["run"], rpc' = rpc PROVE FR'
  BY <1>0, <1>1, <1>2, <1>4, <1>6, LogGrows
<1>7. ASSUME ref'["page"] = ref["page"], ppc' = ppc PROVE FP'
  <2>1. ppc[1] = "get" => ppc[2] \in Txns
    BY DEF Order
  <2> QED
    BY <1>0, <1>1, <1>2, <1>4, <1>7, <2>1, LogGrows
<1>8. SUFFICES (\A h \in Handlers : FH(h)') /\ FR' /\ FP'
  BY DEF Fetched
<1>9. CASE UNCHANGED <<ref, rpc, ppc>>
  BY <1>5, <1>6, <1>7, <1>9
<1> HIDE DEF FH, FR, FP
<1>10. ASSUME NEW t \in Txns, Sender(t) PROVE UNCHANGED <<ref, rpc, ppc>>
  BY <1>10 DEF Sender, run
<1>11. ASSUME NEW h \in Handlers, Arrive(h) \/ CallbackRecorded(h) PROVE UNCHANGED <<ref, rpc, ppc>>
  BY <1>11 DEF Arrive, CallbackRecorded, run
<1>12. ASSUME NEW h \in Handlers, GetTimestamp(h) PROVE (\A x \in Handlers : FH(x)') /\ FR' /\ FP'
  <2>1. UNCHANGED <<rpc, ppc>> /\ \E bucket : Read(h, bucket)
    BY <1>12 DEF GetTimestamp, run
  <2>2. ref'[h] = 0 /\ \A v \in Users \ {h} : ref'[v] = ref[v]
    BY <1>0, <2>1, ReadEffect
  <2>3. FH(h)'
    BY <2>2 DEF FH
  <2> QED
    BY <1>0, <1>5, <1>6, <1>7, <2>1, <2>2, <2>3
<1>13. CASE Calm
  <2> USE DEF store, run, handlers
  <2>1. CASE \E h \in Handlers : ReuseBuffer(h)
    BY <1>9, <2>1 DEF ReuseBuffer
  <2>2. ASSUME NEW u \in Users, Fatal(u) PROVE UNCHANGED <<ref, rpc, ppc>>
    BY <2>2 DEF Fatal
  <2>3. ASSUME NEW u \in Users, Reads(u), Fetch(u) PROVE (\A x \in Handlers : FH(x)') /\ FR' /\ FP'
    <3>1. UNCHANGED <<rpc, ppc, log>> /\ \A v \in Users \ {u} : ref'[v] = ref[v]
      BY <1>1, <2>3 DEF Fetch
    <3>2. CASE u \in Handlers
      <4>1. hpc[u] = "recd" /\ Kind(u) = "ts"
        BY <2>3, <3>2, ReadsOf, KindOf
      <4>2. log[1]["ts"][Of[u]] # NoBody
        BY <1>0, <1>3, <3>2, <4>1 DEF Order, Kept
      <4>3. FH(u)'
        BY <1>0, <1>3, <2>3, <3>1, <3>2, <4>1, <4>2, FetchFinds DEF FH
      <4> QED
        BY <1>0, <1>5, <1>6, <1>7, <3>1, <3>2, <4>3
    <3>3. CASE u = "run"
      <4>1. FR'
        <5> SUFFICES ASSUME rpc = "final", NEW t \in Txns PROVE log[ref'["run"]]["ts"][t] # NoBody
          BY <3>1 DEF FR
        <5>1. Kind("run") = "ts"
          BY KindOf
        <5>2. log[1]["ts"][t] # NoBody
          BY <1>3 DEF Order, Kept
        <5> QED
          BY <1>0, <1>3, <2>3, <3>3, <5>1, <5>2, FetchFinds
      <4> QED
        BY <1>0, <1>5, <1>7, <3>1, <3>3, <4>1
    <3>4. CASE u = "page"
      <4>1. FP'
        <5> SUFFICES ASSUME ppc[1] = "get" PROVE log[ref'["page"]]["req"][ppc[2]] # NoBody
          BY <3>1 DEF FP
        <5>1. Kind("page") = "req"
          BY KindOf
        <5>2. ppc[2] \in Txns /\ log[1]["req"][ppc[2]] # NoBody
          BY <1>3 DEF Order, Kept
        <5> QED
          BY <1>0, <1>3, <2>3, <3>4, <5>1, <5>2, FetchFinds
      <4> QED
        BY <1>0, <1>5, <1>6, <3>1, <3>4, <4>1
    <3> QED
      BY <3>2, <3>3, <3>4 DEF Users
  <2>4. CASE (\E t \in Txns : Build(t)) \/ List
    <3>1. UNCHANGED ppc /\ \E bucket : Read("run", bucket)
      BY <2>4 DEF Build, List, Others
    <3>2. ref'["run"] = 0 /\ \A v \in Users \ {"run"} : ref'[v] = ref[v]
      BY <1>0, <3>1, ReadEffect
    <3>3. FR'
      BY <3>2 DEF FR
    <3> QED
      BY <1>0, <1>5, <1>7, <3>1, <3>2, <3>3
  <2>5. CASE WaitReturns \/ FlushRun \/ Save \/ SaveEnds \/ CleanMemory \/ ScanKeys \/ DeleteKeys
    <3>1. UNCHANGED <<ref, ppc>> /\ rpc' # "final"
      BY <2>5 DEF Goto, Others, WaitReturns, FlushRun, Save, SaveEnds, CleanMemory, ScanKeys, DeleteKeys
    <3>2. FR'
      BY <3>1 DEF FR
    <3> QED
      BY <1>5, <1>7, <3>1, <3>2
  <2>6. CASE PageList \/ PageGet
    <3>1. UNCHANGED rpc /\ \E bucket : Read("page", bucket)
      BY <2>6 DEF PageList, PageGet
    <3>2. ref'["page"] = 0 /\ \A v \in Users \ {"page"} : ref'[v] = ref[v]
      BY <1>0, <3>1, ReadEffect
    <3>3. FP'
      BY <3>2 DEF FP
    <3> QED
      BY <1>0, <1>5, <1>6, <3>1, <3>2, <3>3
  <2>7. CASE \E j \in Kinds : Expire(j)
    BY <1>9, <2>7 DEF Expire
  <2>8. CASE UNCHANGED vars
    BY <1>9, <2>8 DEF vars
  <2> QED
    BY <1>9, <1>13, <2>1, <2>2, <2>3, <2>4, <2>5, <2>6, <2>7, <2>8 DEF Calm, Run
<1> QED
  BY <1>9, <1>10, <1>11, <1>12, <1>13, NextCases

-----------------------------------------------------------------------------
\* Every step keeps Flushing: a key leaves `keys' only when its entries are saved.
LEMMA StepFlushing ==
    ASSUME TypeOK, Order, Kept, Flushing, [Next]_vars, Order'
    PROVE  Flushing'
<1>0. "req" \in Kinds /\ "cb" \in Kinds /\ 1 \in 1..3
  BY DEF Kinds
<1>1. faulty => faulty'
  BY StepForward
<1>2. ASSUME UNCHANGED <<run, persist>> PROVE Flushing'
  <2>1. ASSUME rpc = "save", ~faulty', NEW e \in Recorded PROVE e \in Recorded'
    <3>1. gen = 1 /\ gen' = 1 /\ Whole'
      BY <1>2, <2>1 DEF Order, Whole, run
    <3>2. e[1] \in Kinds /\ e[2] \in Txns /\ log[1][e[1]][e[2]] # NoBody
      BY <1>0, <2>1, <3>1 DEF Recorded, Has
    <3>3. log'[1][e[1]][e[2]] # NoBody
      BY <1>0, <3>1, <3>2, LogGrows
    <3> QED
      BY <2>1, <3>1, <3>3 DEF Recorded, Has
  <2>2. ~faulty' /\ rpc' = "save" =>
          /\ \A e \in owed' : e \in saved' \/ (e[1] \in keys' /\ e \in Recorded')
          /\ \A t \in Txns : <<"req", t>> \in owed'
    BY <1>1, <1>2, <2>1 DEF Flushing, run
  <2>3. ~faulty' /\ rpc' \in {"clean", "delete", "done"} /\ persist' # "none" =>
          owed' \cup {<<"req", t>> : t \in Txns} \subseteq saved'
    BY <1>1, <1>2 DEF Flushing, run
  <2> QED
    BY <2>2, <2>3 DEF Flushing
<1>3. ASSUME NEW t \in Txns, Sender(t) PROVE UNCHANGED <<run, persist>>
  BY <1>3 DEF Sender, settings
<1>4. ASSUME NEW h \in Handlers, Arrive(h) \/ CallbackRecorded(h) \/ GetTimestamp(h) PROVE UNCHANGED <<run, persist>>
  BY <1>4 DEF Arrive, CallbackRecorded, GetTimestamp, settings
<1>5. CASE Run
  <2>1. CASE WaitReturns \/ (\E t \in Txns : Build(t)) \/ List
    <3>1. rpc' \in {"build", "final", "flush"}
      BY <2>1 DEF WaitReturns, Build, List, Goto
    <3> QED
      BY <3>1 DEF Flushing
  <2>2. CASE FlushRun
    <3>1. UNCHANGED <<log, gen>> /\ owed' = Recorded /\ rpc = "flush"
      BY <2>2 DEF FlushRun, store, Goto
    <3>2. Recorded' = Recorded
      BY <3>1 DEF Recorded, Has
    <3>3. CASE faulty' \/ persist' = "none"
      <4>1. persist' = "none" => rpc' = "clean"
        BY <2>2 DEF FlushRun, Goto
      <4> QED
        BY <3>3, <4>1 DEF Flushing
    <3>4. CASE ~faulty' /\ persist' # "none"
      <4>1. rpc' = "save" /\ Exportable \cap Present \subseteq keys'
        BY <2>2, <3>4 DEF FlushRun, Goto, Fault
      <4>2. \A e \in Recorded : e[1] \in Exportable \cap Present
        BY <1>0 DEF Recorded, Exportable, Present
      <4>3. ASSUME NEW t \in Txns PROVE <<"req", t>> \in Recorded
        <5>1. gen = 1 /\ log[1]["req"][t] # NoBody
          BY <1>1, <3>1, <3>4 DEF Order, Kept, Whole
        <5> QED
          BY <5>1 DEF Recorded, Has
      <4> QED
        BY <3>1, <3>2, <4>1, <4>2, <4>3 DEF Flushing
    <3> QED
      BY <3>3, <3>4
  <2>3. CASE Save
    <3>1. UNCHANGED <<log, gen, owed, persist>> /\ rpc = "save" /\ rpc' = "save"
      BY <2>3 DEF Save, Others, settings, store, Goto
    <3>2. Recorded' = Recorded
      BY <3>1 DEF Recorded, Has
    <3>3. CASE faulty'
      BY <3>3 DEF Flushing
    <3>4. CASE ~faulty'
      <4>1. PICK ks : saved' = saved \cup {e \in Recorded : e[1] \in ks} /\ keys' = keys \ ks
        BY <2>3, <3>4 DEF Save, Fault
      <4>2. /\ \A e \in owed : e \in saved \/ (e[1] \in keys /\ e \in Recorded)
            /\ \A t \in Txns : <<"req", t>> \in owed
        BY <1>1, <3>1, <3>4 DEF Flushing
      <4>3. \A e \in owed : e \in saved' \/ (e[1] \in keys' /\ e \in Recorded)
        BY <4>1, <4>2
      <4> QED
        BY <3>1, <3>2, <4>2, <4>3 DEF Flushing
    <3> QED
      BY <3>3, <3>4
  <2>4. CASE SaveEnds
    <3>1. UNCHANGED <<owed, saved>> /\ rpc = "save" /\ rpc' = "clean" /\ keys = {}
      BY <2>4 DEF SaveEnds, Goto
    <3>2. ~faulty' => /\ \A e \in owed : e \in saved
                      /\ \A t \in Txns : <<"req", t>> \in owed
      BY <1>1, <3>1 DEF Flushing
    <3> QED
      BY <3>1, <3>2 DEF Flushing
  <2>5. CASE CleanMemory \/ ScanKeys \/ DeleteKeys
    <3>1. UNCHANGED <<owed, saved, persist>> /\ rpc \in {"clean", "delete"} /\ rpc' \in {"delete", "done"}
      BY <2>5 DEF CleanMemory, ScanKeys, DeleteKeys, Goto, Others, settings
    <3> QED
      BY <1>1, <3>1 DEF Flushing
  <2> QED
    BY <1>5, <2>1, <2>2, <2>3, <2>4, <2>5 DEF Run
<1>6. CASE Calm /\ ~Run
  BY <1>2, <1>6 DEF Calm, settings, vars, ReuseBuffer, Fatal, Fetch, PageList, PageGet, Expire
<1> QED
  BY <1>2, <1>3, <1>4, <1>5, <1>6, NextCases

-----------------------------------------------------------------------------
\* No step makes a reader miss what was recorded, unless a call fails or the log is gone.
LEMMA StepSentAt ==
    ASSUME TypeOK, Order, RefsAreHeld, Kept, Fetched, SentAtIsFound, [Next]_vars
    PROVE  SentAtIsFound'
<1>0. /\ "run" \in Users /\ "page" \in Users /\ Handlers \subseteq Users
      /\ \A h \in Handlers : Of[h] \in Txns
  BY RunLogConstants DEF Users
<1>1. (faulty => faulty') /\ (rpc = "done" => rpc' = "done")
  BY StepForward
<1>2. ASSUME UNCHANGED <<hpc, rpc, listed, ppc>> PROVE SentAtIsFound'
  BY <1>1, <1>2 DEF SentAtIsFound
<1>3. ASSUME NEW t \in Txns, Sender(t) PROVE UNCHANGED <<hpc, rpc, listed, ppc>>
  BY <1>3 DEF Sender, handlers, run
<1>4. ASSUME NEW h \in Handlers, Arrive(h) \/ CallbackRecorded(h) PROVE SentAtIsFound'
  <2>1. UNCHANGED <<rpc, listed, ppc>> /\ \A x \in Handlers : hpc'[x] = "missing" => hpc[x] = "missing"
    BY <1>4 DEF Arrive, CallbackRecorded, run, TypeOK
  <2> QED
    BY <1>1, <2>1 DEF SentAtIsFound
<1>5. ASSUME NEW h \in Handlers, GetTimestamp(h) PROVE SentAtIsFound'
  <2>1. UNCHANGED <<rpc, listed, ppc>> /\ hpc[h] = "recd" /\ \A x \in Handlers \ {h} : hpc'[x] = hpc[x]
    BY <1>5 DEF GetTimestamp, run, TypeOK
  <2>2. PICK bucket : Read(h, bucket) /\ hpc'[h] = IF bucket[Of[h]] = NoBody THEN "missing" ELSE "found"
    BY <1>5 DEF GetTimestamp, TypeOK
  <2>3. \/ ref[h] \in 1..3 /\ bucket = log[ref[h]]["ts"]
        \/ bucket = log[gen]["ts"]
        \/ faulty'
    BY <1>0, <2>2, ReadEffect, KindOf
  <2>4. hpc'[h] = "missing" => faulty' \/ rpc = "done"
    <3> SUFFICES ASSUME ~faulty', rpc # "done" PROVE bucket[Of[h]] # NoBody
      BY <2>2
    <3>1. Whole
      BY <1>1 DEF Whole
    <3>2. log[gen]["ts"][Of[h]] # NoBody
      BY <1>0, <2>1, <3>1 DEF Order, Kept, Whole
    <3> QED
      BY <2>3, <3>1, <3>2 DEF Fetched
  <2> QED
    BY <1>1, <2>1, <2>4 DEF SentAtIsFound
<1>6. CASE Run
  <2>0. UNCHANGED <<hpc, ppc>>
    BY <1>6 DEF Run, handlers, Others, WaitReturns, Build, List, FlushRun, Save, SaveEnds, CleanMemory, ScanKeys,
                DeleteKeys
  <2>1. CASE WaitReturns \/ (\E t \in Txns : Build(t))
    <3>1. rpc \in {"send", "build"} /\ rpc' \in {"build", "final"}
      BY <2>1 DEF WaitReturns, Build, Goto
    <3> QED
      BY <1>1, <2>0, <3>1 DEF SentAtIsFound
  <2>2. CASE List
    <3>1. rpc = "final" /\ rpc' = "flush"
      BY <2>2 DEF List, Goto
    <3>2. PICK bucket : Read("run", bucket) /\ listed' = {t \in Txns : bucket[t] # NoBody}
      BY <2>2 DEF List
    <3>3. \/ ref["run"] \in 1..3 /\ bucket = log[ref["run"]]["ts"]
          \/ bucket = log[gen]["ts"]
          \/ faulty'
      BY <1>0, <3>1, <3>2, ReadEffect, KindOf
    <3>4. faulty' \/ listed' = Txns
      <4> SUFFICES ASSUME ~faulty', NEW t \in Txns PROVE bucket[t] # NoBody
        BY <3>2
      <4>1. Whole
        BY <1>1, <3>1 DEF Whole
      <4>2. log[gen]["ts"][t] # NoBody
        BY <3>1, <4>1 DEF Order, Kept, Whole
      <4> QED
        BY <3>1, <3>3, <4>1, <4>2 DEF Fetched
    <3> QED
      BY <1>1, <2>0, <3>1, <3>4 DEF SentAtIsFound
  <2>3. CASE FlushRun \/ Save \/ SaveEnds \/ CleanMemory \/ ScanKeys \/ DeleteKeys
    <3>1. UNCHANGED listed /\ rpc \in {"flush", "save", "clean", "delete"}
      BY <2>3 DEF FlushRun, Save, SaveEnds, CleanMemory, ScanKeys, DeleteKeys, Goto
    <3> QED
      BY <1>1, <2>0, <3>1 DEF SentAtIsFound
  <2> QED
    BY <1>6, <2>1, <2>2, <2>3 DEF Run
<1>7. CASE PageList
  <2>1. ppc'[1] # "absent" /\ UNCHANGED <<hpc, rpc, listed>>
    <3>1. UNCHANGED <<hpc, rpc, listed>>
      BY <1>7 DEF PageList, handlers, run
    <3>2. (\E t \in Txns : ppc' = <<"get", t>>) \/ ppc' = <<"none", Nobody>>
      BY <1>7 DEF PageList
    <3>3. ppc'[1] # "absent"
      BY <3>2
    <3> QED
      BY <3>1, <3>3
  <2> QED
    BY <1>1, <2>1 DEF SentAtIsFound
<1>8. CASE PageGet
  <2>1. UNCHANGED <<hpc, rpc, listed>> /\ ppc[1] = "get"
    BY <1>8 DEF PageGet, handlers, run
  <2>2. PICK bucket : Read("page", bucket) /\ ppc'[1] = IF bucket[ppc[2]] = NoBody THEN "absent" ELSE "shown"
    <3>1. PICK bucket : /\ Read("page", bucket)
                        /\ ppc' = <<IF bucket[ppc[2]] = NoBody THEN "absent" ELSE "shown", Nobody>>
      BY <1>8 DEF PageGet
    <3>2. ppc'[1] = IF bucket[ppc[2]] = NoBody THEN "absent" ELSE "shown"
      BY <3>1
    <3> QED
      BY <3>1, <3>2
  <2>3. \/ ref["page"] \in 1..3 /\ bucket = log[ref["page"]]["req"]
        \/ bucket = log[gen]["req"]
        \/ faulty'
    <3>1. Kind("page") = "req"
      BY <2>1, KindOf
    <3> QED
      BY <1>0, <2>2, <3>1, ReadEffect
  <2>4. ppc'[1] = "absent" => faulty' \/ rpc = "done"
    <3> SUFFICES ASSUME ~faulty', rpc # "done" PROVE bucket[ppc[2]] # NoBody
      BY <2>2
    <3>1. Whole
      BY <1>1 DEF Whole
    <3>2. log[gen]["req"][ppc[2]] # NoBody
      BY <2>1, <3>1 DEF Order, Kept, Whole
    <3> QED
      BY <2>1, <2>3, <3>1, <3>2 DEF Fetched
  <2> QED
    BY <1>1, <2>1, <2>4 DEF SentAtIsFound
<1>9. CASE Calm /\ ~Run /\ ~PageList /\ ~PageGet
  BY <1>2, <1>9 DEF Calm, handlers, run, vars, ReuseBuffer, Fatal, Fetch, Expire
<1> QED
  BY <1>2, <1>3, <1>4, <1>5, <1>6, <1>7, <1>8, <1>9, NextCases

-----------------------------------------------------------------------------
\* A handler or the page never reads a bucket of callbacks, and once every request
\* has left only handlers write: that is the only race left.
LEMMA StepRaces ==
    ASSUME TypeOK, LockIsHeld, Order, RacesEndWithDispatch, [Next]_vars
    PROVE  RacesEndWithDispatch'
<1>1. ASSUME dead = Nobody, UNCHANGED dead PROVE RacesEndWithDispatch'
  BY <1>1 DEF RacesEndWithDispatch
<1>2. ASSUME UNCHANGED <<dead, rpc>> PROVE RacesEndWithDispatch'
  BY <1>2 DEF RacesEndWithDispatch
<1>3. ASSUME NEW u \in Users, Fatal(u) PROVE RacesEndWithDispatch'
  <2>1. dead' = u /\ UNCHANGED rpc /\ lock # Nobody /\ lock[2] = Kind(u)
    BY <1>3 DEF Fatal, run
  <2>2. ASSUME rpc # "send" PROVE u = "run" /\ rpc = "build"
    <3>1. \A t \in Txns : spc[t] = "sent"
      BY <2>2 DEF Order
    <3>2. lock[2] = "cb"
      BY <2>1, <3>1 DEF LockIsHeld
    <3>3. Kind(u) = "cb"
      BY <2>1, <3>2
    <3> QED
      BY <3>3, KindOf DEF Users
  <2> QED
    BY <2>1, <2>2 DEF RacesEndWithDispatch
<1>4. ASSUME NEW t \in Txns, Sender(t) PROVE UNCHANGED <<dead, rpc>>
  BY <1>4 DEF Sender, run
<1>5. ASSUME NEW h \in Handlers, Arrive(h) \/ Handler(h) \/ ReuseBuffer(h) PROVE UNCHANGED <<dead, rpc>>
  BY <1>5 DEF Arrive, Handler, CallbackRecorded, GetTimestamp, ReuseBuffer, run
<1>6. ASSUME NEW u \in Users, Fetch(u) PROVE UNCHANGED <<dead, rpc>>
  BY <1>6 DEF Fetch, run
<1>7. CASE Run /\ dead = Nobody
  BY <1>1, <1>7 DEF Run, Others, WaitReturns, Build, List, FlushRun, Save, SaveEnds, CleanMemory, ScanKeys, DeleteKeys
<1>8. CASE PageList \/ PageGet
  BY <1>2, <1>8 DEF PageList, PageGet, run
<1>9. CASE \E k \in Kinds : Expire(k)
  BY <1>2, <1>9 DEF Expire, run
<1>10. CASE UNCHANGED vars
  BY <1>2, <1>10 DEF vars, run
<1> QED
  BY <1>2, <1>3, <1>4, <1>5, <1>6, <1>7, <1>8, <1>9, <1>10 DEF Next

-----------------------------------------------------------------------------
\* What only the run changes.
LEMMA RunOnly ==
    ASSUME [Next]_vars, ~Run
    PROVE  UNCHANGED <<rpc, counted, todo, built>>
<1> USE DEF run
<1>1. ASSUME NEW t \in Txns, Sender(t) PROVE UNCHANGED run
  BY <1>1 DEF Sender
<1>2. ASSUME NEW h \in Handlers, Arrive(h) \/ CallbackRecorded(h) \/ GetTimestamp(h) PROVE UNCHANGED run
  BY <1>2 DEF Arrive, CallbackRecorded, GetTimestamp
<1>3. CASE Calm
  BY <1>3 DEF Calm, vars, ReuseBuffer, Fatal, Fetch, PageList, PageGet, Expire
<1> QED
  BY <1>1, <1>2, <1>3, NextCases

\* A handler that has notified has done so for good.
LEMMA HandlerForward ==
    ASSUME TypeOK, [Next]_vars, NEW h \in Handlers
    PROVE  /\ hpc[h] \in {"found", "missing"} => hpc'[h] = hpc[h]
           /\ \/ hpc'[h] = hpc[h]
              \/ Arrive(h) \/ CallbackRecorded(h)
              \/ hpc[h] = "recd" /\ hpc'[h] \in {"found", "missing"}
<1>0. hpc \in [Handlers -> {"idle", "rec", "recd", "found", "missing"}]
  BY DEF TypeOK
<1>1. ASSUME NEW t \in Txns, Sender(t) PROVE hpc' = hpc
  BY <1>1 DEF Sender, handlers
<1>2. ASSUME NEW x \in Handlers, Arrive(x) \/ CallbackRecorded(x) \/ GetTimestamp(x)
      PROVE  /\ x # h => hpc'[h] = hpc[h]
             /\ GetTimestamp(x) => hpc[x] = "recd" /\ hpc'[x] \in {"found", "missing"}
             /\ hpc[x] \notin {"found", "missing"}
  BY <1>0, <1>2 DEF Arrive, CallbackRecorded, GetTimestamp
<1>3. CASE Calm
  BY <1>3, CalmStep
<1> QED
  BY <1>1, <1>2, <1>3, NextCases

\* WaitReturns counts the handlers that have notified.
LEMMA StepCounting ==
    ASSUME TypeOK, Counting, [Next]_vars
    PROVE  Counting'
<1>1. ASSUME UNCHANGED counted, rpc' = "send" => rpc = "send" /\ UNCHANGED todo PROVE Counting'
  BY <1>1, HandlerForward DEF Counting
<1>2. CASE WaitReturns
  <2>1. rpc' = "build" /\ counted' = Counted /\ hpc' = hpc
    BY <1>2 DEF WaitReturns, Goto, Others, handlers
  <2> QED
    BY <2>1 DEF Counting, Counted
<1>3. CASE Run /\ ~WaitReturns
  BY <1>1, <1>3 DEF Run, Goto, Build, List, FlushRun, Save, SaveEnds, CleanMemory, ScanKeys, DeleteKeys
<1>4. CASE ~Run
  BY <1>1, <1>4, RunOnly
<1> QED
  BY <1>2, <1>3, <1>4

\* A handler moves on only when its callback is there.
LEMMA StepCallbacksKept ==
    ASSUME TypeOK, Order, CallbacksKept, [Next]_vars
    PROVE  CallbacksKept'
<1> DEFINE Due(h) == hpc[h] \in {"recd", "found", "missing"} \/ (hpc[h] = "rec" /\ backend = "redis")
<1>0. 1 \in 1..3 /\ "cb" \in Kinds
  BY DEF Kinds
<1>1. SUFFICES ASSUME Whole', NEW h \in Handlers, Due(h)'
               PROVE  log'[1]["cb"][Of[h]] # NoBody
  BY DEF CallbacksKept
<1>2. UNCHANGED backend /\ Whole /\ Of[h] \in Txns
  BY <1>1, StepForward, RunLogConstants DEF Whole
<1>3. CASE Due(h)
  BY <1>0, <1>1, <1>2, <1>3, LogGrows DEF CallbacksKept
<1>4. CASE ~Due(h)
  <2>1. Arrive(h) \/ CallbackRecorded(h)
    BY <1>1, <1>2, <1>4, HandlerForward
  <2>2. hpc \in [Handlers -> {"idle", "rec", "recd", "found", "missing"}] /\ backend \in {"memory", "redis"}
    BY DEF TypeOK
  <2>3. ~faulty'
    BY <1>1 DEF Whole
  <2>4. log' = Put("cb", Of[h], h)
    BY <1>1, <1>2, <1>4, <2>1, <2>2, <2>3 DEF Arrive, CallbackRecorded, BeginWrite, EndWrite, WriteFails, Fault
  <2>5. gen = 1 /\ h # NoBody
    BY <1>2, RunLogConstants DEF Order, Whole
  <2> QED
    BY <1>0, <1>2, <2>4, <2>5, PutEntry
<1> QED
  BY <1>3, <1>4

\* The run fetches the bucket of callbacks when those that were counted are in it.
LEMMA StepCallbacksFetched ==
    ASSUME TypeOK, Order, RefsAreHeld, Kept, Counting, CallbacksKept, CallbacksFetched, [Next]_vars
    PROVE  CallbacksFetched'
<1>0. "run" \in Users /\ "run" \notin Handlers /\ "cb" \in Kinds
  BY RunLogConstants DEF Users, Kinds
<1>1. SUFFICES ASSUME Whole', rpc' = "build", ref'["run"] # 0, NEW t \in counted'
               PROVE  log'[ref'["run"]]["cb"][t] # NoBody
  BY DEF CallbacksFetched
<1>2. Whole /\ ref \in [Users -> 0..3]
  BY <1>1, StepForward DEF Whole, TypeOK
<1>3. ASSUME UNCHANGED <<rpc, counted>>, ref'["run"] = ref["run"]
      PROVE  log'[ref'["run"]]["cb"][t] # NoBody
  <2>1. log[ref["run"]]["cb"][t] # NoBody /\ t \in Txns
    BY <1>1, <1>2, <1>3 DEF CallbacksFetched, TypeOK
  <2>2. ref["run"] \in 1..3
    BY <1>0, <1>1, <1>2, <1>3
  <2> QED
    BY <1>0, <1>1, <1>3, <2>1, <2>2, LogGrows
<1>4. CASE Run
  <2>1. CASE WaitReturns
    BY <1>0, <1>1, <2>1 DEF WaitReturns, Goto, RefsAreHeld
  <2>2. CASE \E x \in Txns : Build(x)
    <3>1. PICK bucket : Read("run", bucket)
      BY <2>2 DEF Build
    <3> QED
      BY <1>0, <1>1, <3>1, ReadEffect
  <2>3. CASE List \/ FlushRun \/ Save \/ SaveEnds \/ CleanMemory \/ ScanKeys \/ DeleteKeys
    BY <1>1, <2>3 DEF Goto, List, FlushRun, Save, SaveEnds, CleanMemory, ScanKeys, DeleteKeys
  <2> QED
    BY <1>4, <2>1, <2>2, <2>3 DEF Run
<1>5. CASE ~Run
  <2>1. UNCHANGED <<rpc, counted>>
    BY <1>5, RunOnly
  <2>2. CASE Reads("run") /\ Fetch("run")
    <3>1. Kind("run") = "cb"
      BY <1>1, <2>1, KindOf
    <3>2. PICK h \in Handlers : Of[h] = t /\ hpc[h] \in {"found", "missing"}
      BY <2>1 DEF Counting
    <3>3. log[1]["cb"][t] # NoBody /\ t \in Txns
      BY <1>2, <3>2, RunLogConstants DEF CallbacksKept
    <3>4. log[ref'["run"]]["cb"][t] # NoBody
      BY <1>0, <1>2, <2>2, <3>1, <3>3, FetchFinds
    <3> QED
      BY <2>2, <3>4 DEF Fetch, store
  <2>3. CASE ~(Reads("run") /\ Fetch("run"))
    <3>1. ref'["run"] = ref["run"]
      <4>1. ASSUME NEW x \in Txns, Sender(x) PROVE ref' = ref
        BY <4>1 DEF Sender
      <4>2. ASSUME NEW h \in Handlers, Arrive(h) \/ CallbackRecorded(h) PROVE ref' = ref
        BY <4>2 DEF Arrive, CallbackRecorded
      <4>3. ASSUME NEW h \in Handlers, GetTimestamp(h) PROVE ref'["run"] = ref["run"]
        <5>1. PICK bucket : Read(h, bucket)
          BY <4>3 DEF GetTimestamp
        <5> QED
          BY <1>0, <5>1, ReadEffect DEF Users
      <4>4. CASE PageList \/ PageGet
        <5>1. PICK bucket : Read("page", bucket)
          BY <4>4 DEF PageList, PageGet
        <5>2. "page" \in Users /\ "page" # "run"
          BY DEF Users
        <5> QED
          BY <1>0, <5>1, <5>2, ReadEffect
      <4>5. ASSUME NEW u \in Users, Reads(u), Fetch(u) PROVE ref'["run"] = ref["run"]
        BY <1>0, <1>2, <2>3, <4>5 DEF Fetch
      <4>6. CASE (\E h \in Handlers : ReuseBuffer(h)) \/ (\E u \in Users : Fatal(u))
                 \/ (\E k \in Kinds : Expire(k)) \/ UNCHANGED vars
        BY <4>6 DEF ReuseBuffer, Fatal, Expire, vars
      <4> QED
        BY <1>5, <4>1, <4>2, <4>3, <4>4, <4>5, <4>6, NextCases DEF Calm
    <3> QED
      BY <1>3, <2>1, <3>1
  <2> QED
    BY <2>2, <2>3
<1> QED
  BY <1>4, <1>5

\* The batch gets a request for every transaction that was counted.
LEMMA StepUsed ==
    ASSUME TypeOK, Order, RefsAreHeld, Entries, Counting, CallbacksKept, CallbacksFetched,
           CountedCallbackIsUsed, [Next]_vars
    PROVE  CountedCallbackIsUsed'
<1> DEFINE Used(t) == \E p \in built : /\ p[1] = t
                                       /\ backend = "redis" => p[2] \in Handlers /\ Of[p[2]] = t
<1>0. UNCHANGED backend /\ backend \in {"memory", "redis"} /\ (faulty => faulty')
  BY StepForward DEF TypeOK
<1>1. ASSUME built \subseteq built', NEW t, Used(t) PROVE Used(t)'
  BY <1>0, <1>1
<1>2. ASSUME UNCHANGED <<counted, todo, built>>, rpc' # "send" => rpc # "send"
      PROVE  CountedCallbackIsUsed'
  BY <1>0, <1>2 DEF CountedCallbackIsUsed
<1>3. CASE WaitReturns
  <2>1. todo' = Txns /\ counted' \subseteq Txns
    BY <1>3, RunLogConstants DEF WaitReturns, Goto, Counting, Counted
  <2> QED
    BY <2>1 DEF CountedCallbackIsUsed
<1>4. ASSUME NEW t \in Txns, Build(t) PROVE CountedCallbackIsUsed'
  <2>1. PICK bucket : /\ Read("run", bucket)
                      /\ built' = built \cup {<<t, Content(h)>> : h \in {bucket[t]} \ {NoBody}}
    BY <1>4 DEF Build
  <2>2. /\ rpc = "build" /\ todo' = todo \ {t} /\ UNCHANGED counted
        /\ "run" \in Users /\ Kind("run") = "cb"
    BY <1>4, KindOf DEF Build, Goto, Users
  <2>3. ASSUME ~faulty', t \in counted PROVE Used(t)'
    <3>1. Whole /\ gen = 1
      BY <1>0, <2>2, <2>3 DEF Whole, Order
    <3>2. \/ ref["run"] \in 1..3 /\ bucket = log[ref["run"]]["cb"]
          \/ bucket = log[1]["cb"]
      BY <2>1, <2>2, <2>3, <3>1, ReadEffect
    <3>3. bucket[t] # NoBody
      <4>1. ref["run"] \in 1..3 => log[ref["run"]]["cb"][t] # NoBody
        BY <2>2, <2>3, <3>1 DEF CallbacksFetched
      <4>2. log[1]["cb"][t] # NoBody
        BY <2>3, <3>1 DEF Counting, CallbacksKept
      <4> QED
        BY <3>2, <4>1, <4>2
    <3>4. bucket[t] \in Handlers /\ Of[bucket[t]] = t
      BY <3>2, <3>3 DEF Entries
    <3>5. <<t, Content(bucket[t])>> \in built'
      BY <2>1, <3>3
    <3>6. backend = "redis" => Content(bucket[t]) = bucket[t]
      BY <3>4, ContentType
    <3> QED
      BY <1>0, <3>4, <3>5, <3>6
  <2>4. ASSUME ~faulty', NEW x \in counted \ todo PROVE Used(x)'
    <3>1. Used(x)
      BY <1>0, <2>2, <2>4 DEF CountedCallbackIsUsed
    <3>2. built \subseteq built'
      BY <2>1
    <3> QED
      BY <1>1, <3>1, <3>2
  <2> QED
    BY <2>2, <2>3, <2>4 DEF CountedCallbackIsUsed
<1>5. CASE Run /\ ~WaitReturns /\ ~(\E t \in Txns : Build(t))
  BY <1>2, <1>5 DEF Run, Goto, List, FlushRun, Save, SaveEnds, CleanMemory, ScanKeys, DeleteKeys
<1>6. CASE ~Run
  BY <1>2, <1>6, RunOnly
<1> QED
  BY <1>3, <1>4, <1>5, <1>6

-----------------------------------------------------------------------------
\* Every step keeps the invariant.
LEMMA StepLogInv == LogInv /\ [Next]_vars => LogInv'
<1> SUFFICES ASSUME LogInv, [Next]_vars PROVE LogInv'
  OBVIOUS
<1> USE DEF LogInv
<1>1. TypeOK' /\ LockIsHeld' /\ Order' /\ RefsAreHeld' /\ Entries'
  BY StepType, StepLock, StepOrder, StepRefs, StepEntries
<1>2. Kept' /\ Fetched' /\ Flushing'
  BY <1>1, StepKept, StepFetched, StepFlushing
<1>3. SentAtIsFound' /\ RacesEndWithDispatch' /\ CountedCallbackIsUsed'
  BY StepSentAt, StepRaces, StepUsed
<1>4. Counting' /\ CallbacksKept' /\ CallbacksFetched'
  BY StepCounting, StepCallbacksKept, StepCallbacksFetched
<1> QED
  BY <1>1, <1>2, <1>3, <1>4

\* The inductive invariant holds in every reachable state.
LEMMA LogInvariance == SafetySpec => []LogInv
BY InitLogInv, StepLogInv, PTL DEF SafetySpec

\* TypeOK: buckets, users, keys and what was flushed keep their types.
THEOREM TypeCorrect == SafetySpec => []TypeOK
<1>1. LogInv => TypeOK
  BY DEF LogInv
<1> QED BY LogInvariance, <1>1, PTL

\* SentAtIsFound: however fast a callback comes, its handler finds the time its request
\* was sent, finalizeRunLatencies finds every request and the page every payload it
\* listed, unless Redis failed or the log was cleaned up.
THEOREM SentTimesAreFound == SafetySpec => []SentAtIsFound
<1>1. LogInv => SentAtIsFound
  BY DEF LogInv
<1> QED BY LogInvariance, <1>1, PTL

\* RacesEndWithDispatch: the fatal error of a map read while it is written can end the
\* process only while requests are sent, or as the run builds a batch from callbacks
\* that still arrive (memory_store.go:81).
THEOREM RacesAreOverAfterDispatch == SafetySpec => []RacesEndWithDispatch
<1>1. LogInv => RacesEndWithDispatch
  BY DEF LogInv
<1> QED BY LogInvariance, <1>1, PTL

\* CountedCallbackIsUsed: when no call failed, the next batch has a request for every
\* transaction whose callback made the wait return, with any number of handlers and
\* whichever of them arrive while the batch is built; with the Redis store its body is
\* a callback of that transaction.
THEOREM CountedCallbacksAreUsed == SafetySpec => []CountedCallbackIsUsed
<1>1. LogInv => CountedCallbackIsUsed
  BY DEF LogInv
<1> QED BY LogInvariance, <1>1, PTL

\* FlushKeepsPayloads: when no call failed, a finished run has written every request and
\* every callback that was recorded when its flush began.
THEOREM PayloadsAreFlushed == SafetySpec => []FlushKeepsPayloads
<1>1. LogInv => FlushKeepsPayloads
  BY DEF LogInv, Flushing, FlushKeepsPayloads
<1> QED BY LogInvariance, <1>1, PTL
=============================================================================
