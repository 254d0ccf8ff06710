----------------------- MODULE LatencyPipelineProofs -----------------------
(***************************************************************************)
(* Proofs about LatencyPipeline for any number of transactions, callbacks, *)
(* workers and queue slots, with and without the unique index.  Handled    *)
(* relates the handler of a callback to its event, Queued the queue to the *)
(* events, Authors the documents to the events, Finalized follows          *)
(* finalizeRunLatencies; LateIsSettled is why a late callback that finds   *)
(* no sent_at any more cannot become a stored success.                     *)
(***************************************************************************)
EXTENDS LatencyPipeline, TLAPS

\* What a handler has done so far for its callback.
Handled ==
    \A c \in Callbacks :
        /\ cpc[c] \in {"new", "dropped", "routed"} => epc[c] = None
        /\ cpc[c] = "new" => c \notin late
        /\ cpc[c] \in {"routed", "writing", "account", "done"}
              => txn[c] \in Txns /\ eff[c] \in Outcomes
        /\ c \in late => txn[c] \in old
        /\ eff[c] = "timeout" => txn[c] \in old
        /\ cpc[c] \in {"account", "done"} => epc[c] # None

\* The queue holds exactly events that are queued, each once.
Queued ==
    /\ \A i \in 1..Len(queue) : epc[queue[i]] = "queued"
    /\ \A i, j \in 1..Len(queue) : queue[i] = queue[j] => i = j
    /\ \A c \in Callbacks : epc[c] = "queued" => \E i \in 1..Len(queue) : queue[i] = c

\* An event being written is held by a worker or by its handler.
Carried ==
    \A c \in Callbacks :
        /\ epc[c] \in {"match", "insert"} => c \in held \/ cpc[c] = "writing"
        /\ epc[c] = "stored" => docs[txn[c]] # {}
        /\ epc[c] = "failed" => fault

\* Who wrote the documents of a transaction.
Authors ==
    \A t \in Txns :
        /\ \A c \in Callbacks : c \in docs[t] => txn[c] = t /\ epc[c] = "stored"
        /\ Finalizer \in docs[t] => fpc \in {"summary", "finish", "done"} /\ t \in missing

\* What finalizeRunLatencies decides about a transaction without an event, and
\* about one counted as a success.
Judged ==
    /\ fpc # "done" => sent \ unlogged \subseteq stamps
    /\ cutoff \subseteq old
    /\ fpc \in {"running", "read"} => missing = {}
    /\ \A t \in missing : class[t] \in {"failure", "timeout"} /\ (class[t] = "timeout" => t \in old)
    /\ \A t \in Txns : class[t] = "success" =>
          \E c \in Callbacks : c \in docs[t] /\ eff[c] = "success"
    /\ \A t \in Txns : summary[t] \in {None, class[t]}
    /\ fpc \in {"running", "read"} => \A t \in Txns : class[t] = None

\* How far finalizeRunLatencies has come with the transactions sent.
Covered ==
    /\ fpc \in {"bulkMatch", "bulkInsert", "summary"} => \A t \in sent \ unlogged : class[t] # None
    /\ fpc = "bulkMatch" => \A t \in sent \ unlogged : t \in missing \/ docs[t] # {}
    /\ fpc = "bulkInsert" => \A t \in sent \ unlogged : t \in unmatched \/ docs[t] # {}
    /\ fpc = "summary" /\ ~fault => \A t \in sent \ unlogged : docs[t] # {}
    /\ fpc \in {"finish", "done"} /\ ~fault => \A t \in sent \ unlogged : docs[t] # {} /\ summary[t] # None

\* A late callback that was taken for a success although the run log had not lost
\* its sent_at came after the clean-up, when its transaction had a document; it
\* inserts none.
LateIsSettled ==
    \A c \in Callbacks :
        (/\ c \in late /\ eff[c] = "success" /\ epc[c] # None /\ ~fault
         /\ c \notin unread /\ txn[c] \notin unlogged)
            => docs[txn[c]] # {} /\ epc[c] # "insert" /\ c \notin docs[txn[c]]

\* The inductive invariant.
IInv == /\ TypeOK
        /\ Handled
        /\ Queued
        /\ Carried
        /\ Authors
        /\ Judged
        /\ Covered
        /\ LateIsSettled

-----------------------------------------------------------------------------
\* The initial state satisfies the inductive invariant.
LEMMA InitIInv == Init => IInv
<1> SUFFICES ASSUME Init PROVE IInv
  OBVIOUS
<1>1. TypeOK
  <2>1. indexed \in BOOLEAN /\ fault \in BOOLEAN
    BY DEF Init
  <2> QED BY <2>1, LatencyConstants DEF Init, TypeOK, None, Outcomes
<1>2. Handled /\ Queued /\ Carried
  BY DEF Init, Handled, Queued, Carried, None, Outcomes
<1>3. Authors /\ Judged /\ Covered /\ LateIsSettled
  BY DEF Init, Authors, Judged, Covered, LateIsSettled, None
<1> QED BY <1>1, <1>2, <1>3 DEF IInv

-----------------------------------------------------------------------------
(* Sequences.                                                              *)

\* Taking the first element of a queue.
LEMMA TailFacts ==
    ASSUME NEW S, NEW s \in Seq(S), s # <<>>
    PROVE /\ Head(s) = s[1] /\ s[1] \in S /\ Len(s) \in Nat /\ Len(s) > 0
          /\ Tail(s) \in Seq(S) /\ Len(Tail(s)) = Len(s) - 1
          /\ \A i \in 1..Len(Tail(s)) : Tail(s)[i] = s[i + 1]
OBVIOUS

\* Adding an element to a queue.
LEMMA AppendFacts ==
    ASSUME NEW S, NEW s \in Seq(S), NEW e \in S
    PROVE /\ Append(s, e) \in Seq(S) /\ Len(s) \in Nat /\ Len(Append(s, e)) = Len(s) + 1
          /\ \A i \in 1..Len(s) : Append(s, e)[i] = s[i]
          /\ Append(s, e)[Len(s) + 1] = e
OBVIOUS

-----------------------------------------------------------------------------
(* Each action keeps the inductive invariant.                              *)

\* SendRequest keeps the inductive invariant.
LEMMA SendRequestStep == ASSUME NEW t \in Txns, IInv, SendRequest(t) PROVE IInv'
<1>1. TypeOK'
  <2>1. indexed' \in BOOLEAN /\ fault' \in BOOLEAN
    BY DEF IInv, TypeOK, SendRequest, requestVars, callbackVars, eventVars, finalVars
  <2> QED BY <2>1, LatencyConstants DEF IInv, TypeOK, Handled, Authors, Outcomes, None,
       SendRequest, requestVars, callbackVars, eventVars, finalVars
<1>2. Handled'
  BY DEF IInv, TypeOK, Handled, Carried, Outcomes, None, SendRequest, requestVars, callbackVars,
       eventVars, finalVars
<1>3. Queued'
  BY DEF IInv, TypeOK, Handled, Queued, None, SendRequest, requestVars, callbackVars, eventVars,
       finalVars
<1>4. Carried'
  BY DEF IInv, TypeOK, Handled, Queued, Carried, None, SendRequest, requestVars, callbackVars,
       eventVars, finalVars
<1>5. Authors'
  BY LatencyConstants DEF IInv, TypeOK, Handled, Queued, Authors, None, SendRequest,
       requestVars, callbackVars, eventVars, finalVars
<1>6. Judged'
  BY LatencyConstants DEF IInv, TypeOK, Handled, Authors, Judged, Outcomes, None, SendRequest,
       requestVars, callbackVars, eventVars, finalVars
<1>7. Covered'
  BY DEF IInv, TypeOK, Judged, Covered, None, SendRequest, requestVars, callbackVars, eventVars,
       finalVars
<1>8. LateIsSettled'
  BY LatencyConstants DEF IInv, TypeOK, Handled, Queued, Authors, Judged, Covered,
       LateIsSettled, None, SendRequest, requestVars, callbackVars, eventVars, finalVars
<1> QED BY <1>1, <1>2, <1>3, <1>4, <1>5, <1>6, <1>7, <1>8 DEF IInv

\* Elapse keeps the inductive invariant.
LEMMA ElapseStep == ASSUME NEW t \in Txns, IInv, Elapse(t) PROVE IInv'
<1>1. TypeOK'
  <2>1. indexed' \in BOOLEAN /\ fault' \in BOOLEAN
    BY DEF IInv, TypeOK, Elapse, requestVars, callbackVars, eventVars, finalVars
  <2> QED BY <2>1, LatencyConstants DEF IInv, TypeOK, Handled, Authors, Outcomes, None, Elapse,
       requestVars, callbackVars, eventVars, finalVars
<1>2. Handled'
  BY DEF IInv, TypeOK, Handled, Carried, Outcomes, None, Elapse, requestVars, callbackVars,
       eventVars, finalVars
<1>3. Queued'
  BY DEF IInv, TypeOK, Handled, Queued, None, Elapse, requestVars, callbackVars, eventVars,
       finalVars
<1>4. Carried'
  BY DEF IInv, TypeOK, Handled, Queued, Carried, None, Elapse, requestVars, callbackVars,
       eventVars, finalVars
<1>5. Authors'
  BY LatencyConstants DEF IInv, TypeOK, Handled, Queued, Authors, None, Elapse, requestVars,
       callbackVars, eventVars, finalVars
<1>6. Judged'
  BY LatencyConstants DEF IInv, TypeOK, Handled, Authors, Judged, Outcomes, None, Elapse,
       requestVars, callbackVars, eventVars, finalVars
<1>7. Covered'
  BY DEF IInv, TypeOK, Judged, Covered, None, Elapse, requestVars, callbackVars, eventVars,
       finalVars
<1>8. LateIsSettled'
  BY LatencyConstants DEF IInv, TypeOK, Handled, Queued, Authors, Judged, Covered,
       LateIsSettled, None, Elapse, requestVars, callbackVars, eventVars, finalVars
<1> QED BY <1>1, <1>2, <1>3, <1>4, <1>5, <1>6, <1>7, <1>8 DEF IInv

\* ExpireStamps keeps the inductive invariant.
LEMMA ExpireStampsStep == ASSUME IInv, ExpireStamps PROVE IInv'
<1>1. TypeOK'
  <2>1. indexed' \in BOOLEAN /\ fault' \in BOOLEAN
    BY DEF IInv, TypeOK, ExpireStamps, requestVars, callbackVars, eventVars, finalVars
  <2> QED BY <2>1, LatencyConstants DEF IInv, TypeOK, Handled, Authors, Outcomes, None, ExpireStamps,
       requestVars, callbackVars, eventVars, finalVars
<1>2. Handled'
  BY DEF IInv, TypeOK, Handled, Carried, Outcomes, None, ExpireStamps, requestVars, callbackVars,
       eventVars, finalVars
<1>3. Queued'
  BY DEF IInv, TypeOK, Handled, Queued, None, ExpireStamps, requestVars, callbackVars, eventVars,
       finalVars
<1>4. Carried'
  BY DEF IInv, TypeOK, Handled, Queued, Carried, None, ExpireStamps, requestVars, callbackVars,
       eventVars, finalVars
<1>5. Authors'
  BY LatencyConstants DEF IInv, TypeOK, Handled, Queued, Authors, None, ExpireStamps, requestVars,
       callbackVars, eventVars, finalVars
<1>6. Judged'
  BY LatencyConstants DEF IInv, TypeOK, Handled, Authors, Judged, Outcomes, None, ExpireStamps,
       requestVars, callbackVars, eventVars, finalVars
<1>7. Covered'
  BY DEF IInv, TypeOK, Judged, Covered, None, ExpireStamps, requestVars, callbackVars, eventVars,
       finalVars
<1>8. LateIsSettled'
  BY LatencyConstants DEF IInv, TypeOK, Handled, Queued, Authors, Judged, Covered,
       LateIsSettled, None, ExpireStamps, requestVars, callbackVars, eventVars, finalVars
<1> QED BY <1>1, <1>2, <1>3, <1>4, <1>5, <1>6, <1>7, <1>8 DEF IInv

\* Receive keeps the inductive invariant.
LEMMA ReceiveStep == ASSUME NEW c \in Callbacks, IInv, Receive(c) PROVE IInv'
<1>1. TypeOK'
  <2>1. indexed' \in BOOLEAN /\ fault' \in BOOLEAN
    BY DEF IInv, TypeOK, Receive, requestVars, callbackVars, eventVars, finalVars
  <2> QED BY <2>1, LatencyConstants DEF IInv, TypeOK, Handled, Authors, Outcomes, None, Receive,
       requestVars, callbackVars, eventVars, finalVars
<1>2. Handled'
  BY DEF IInv, TypeOK, Handled, Carried, Outcomes, None, Receive, requestVars, callbackVars,
       eventVars, finalVars
<1>3. Queued'
  BY DEF IInv, TypeOK, Handled, Queued, None, Receive, requestVars, callbackVars, eventVars,
       finalVars
<1>4. Carried'
  BY DEF IInv, TypeOK, Handled, Queued, Carried, None, Receive, requestVars, callbackVars,
       eventVars, finalVars
<1>5. Authors'
  BY LatencyConstants DEF IInv, TypeOK, Handled, Queued, Authors, None, Receive, requestVars,
       callbackVars, eventVars, finalVars
<1>6. Judged'
  BY LatencyConstants DEF IInv, TypeOK, Handled, Authors, Judged, Outcomes, None, Receive,
       requestVars, callbackVars, eventVars, finalVars
<1>7. Covered'
  BY DEF IInv, TypeOK, Judged, Covered, None, Receive, requestVars, callbackVars, eventVars,
       finalVars
<1>8. LateIsSettled'
  BY LatencyConstants DEF IInv, TypeOK, Handled, Queued, Authors, Judged, Covered,
       LateIsSettled, None, Receive, requestVars, callbackVars, eventVars, finalVars
<1> QED BY <1>1, <1>2, <1>3, <1>4, <1>5, <1>6, <1>7, <1>8 DEF IInv

\* RecordLatencyEvent keeps the inductive invariant.
LEMMA RecordLatencyEventStep == ASSUME NEW c \in Callbacks, IInv, RecordLatencyEvent(c) PROVE IInv'
<1>a. /\ queue \in Seq(Callbacks) /\ epc[c] = None /\ txn[c] \in Txns
      /\ eff[c] \in Outcomes /\ \A read \in BOOLEAN : Effective(c, read) \in Outcomes
  BY DEF IInv, TypeOK, Handled, RecordLatencyEvent, Judge, Effective, Outcomes
<1>b. /\ Append(queue, c) \in Seq(Callbacks) /\ Len(queue) \in Nat
      /\ Len(Append(queue, c)) = Len(queue) + 1
      /\ \A i \in 1..Len(queue) : Append(queue, c)[i] = queue[i]
      /\ Append(queue, c)[Len(queue) + 1] = c
  BY <1>a, AppendFacts
<1>1. TypeOK'
  <2>1. indexed' \in BOOLEAN /\ fault' \in BOOLEAN
    BY DEF IInv, TypeOK, RecordLatencyEvent
  <2>2. queue' \in Seq(Callbacks) /\ Len(queue') <= QueueSize
    <3>1. CASE queue' = queue
      BY <3>1 DEF IInv, TypeOK
    <3>2. CASE queue' = Append(queue, c) /\ Len(queue) < QueueSize
      BY <1>b, <3>2, LatencyConstants
    <3> QED BY <3>1, <3>2 DEF RecordLatencyEvent
  <2> QED BY <1>a, <2>1, <2>2 DEF IInv, TypeOK, None, RecordLatencyEvent, Judge, requestVars,
       callbackVars, eventVars, finalVars
<1>2. Handled'
  BY DEF IInv, TypeOK, Handled, Carried, Outcomes, None, RecordLatencyEvent, Judge, Effective,
       requestVars, callbackVars, eventVars, finalVars
<1>3. Queued'
  <2>1. CASE queue' = queue /\ epc' = [epc EXCEPT ![c] = "match"]
    BY <1>a, <2>1 DEF IInv, TypeOK, Queued, None
  <2>2. CASE queue' = Append(queue, c) /\ epc' = [epc EXCEPT ![c] = "queued"]
    <3>1. \A i \in 1..Len(queue) : queue'[i] = queue[i] /\ queue[i] # c /\ queue[i] \in Callbacks
      BY <1>a, <1>b, <2>2 DEF IInv, Queued, None
    <3>2. \A i \in 1..Len(queue') : i \in 1..Len(queue) \/ i = Len(queue) + 1
      BY <1>b, <2>2
    <3>3. \A i \in 1..Len(queue) : i \in 1..Len(queue')
      BY <1>b, <2>2
    <3>4. queue'[Len(queue) + 1] = c /\ Len(queue) + 1 \in 1..Len(queue')
      BY <1>b, <2>2
    <3>5. \A i \in 1..Len(queue') : epc'[queue'[i]] = "queued"
      BY <2>2, <3>1, <3>2, <3>4 DEF IInv, TypeOK, Queued
    <3>6. \A i, j \in 1..Len(queue') : queue'[i] = queue'[j] => i = j
      BY <3>1, <3>2, <3>4 DEF IInv, Queued
    <3>7. \A d \in Callbacks : epc'[d] = "queued" => \E i \in 1..Len(queue') : queue'[i] = d
      BY <2>2, <3>1, <3>3, <3>4 DEF IInv, TypeOK, Queued
    <3> QED BY <3>5, <3>6, <3>7 DEF Queued
  <2> QED BY <2>1, <2>2 DEF RecordLatencyEvent
<1>4. Carried'
  BY DEF IInv, TypeOK, Handled, Queued, Carried, None, RecordLatencyEvent, Judge, Effective,
       requestVars, callbackVars, eventVars, finalVars
<1>5. Authors'
  BY LatencyConstants DEF IInv, TypeOK, Handled, Queued, Authors, None, RecordLatencyEvent, Judge,
       Effective, requestVars, callbackVars, eventVars, finalVars
<1>6. Judged'
  BY LatencyConstants DEF IInv, TypeOK, Handled, Authors, Judged, Outcomes, None,
       RecordLatencyEvent, Judge, Effective, requestVars, callbackVars, eventVars, finalVars
<1>7. Covered'
  BY DEF IInv, TypeOK, Judged, Covered, None, RecordLatencyEvent, Judge, Effective, requestVars,
       callbackVars, eventVars, finalVars
<1>8. LateIsSettled'
  BY LatencyConstants DEF IInv, TypeOK, Handled, Queued, Authors, Judged, Covered,
       LateIsSettled, None, RecordLatencyEvent, Judge, Effective, requestVars, callbackVars, eventVars,
       finalVars
<1> QED BY <1>1, <1>2, <1>3, <1>4, <1>5, <1>6, <1>7, <1>8 DEF IInv

\* SyncReturns keeps the inductive invariant.
LEMMA SyncReturnsStep == ASSUME NEW c \in Callbacks, IInv, SyncReturns(c) PROVE IInv'
<1>1. TypeOK'
  <2>1. indexed' \in BOOLEAN /\ fault' \in BOOLEAN
    BY DEF IInv, TypeOK, SyncReturns, requestVars, callbackVars, eventVars, finalVars
  <2> QED BY <2>1, LatencyConstants DEF IInv, TypeOK, Handled, Authors, Outcomes, None,
       SyncReturns, requestVars, callbackVars, eventVars, finalVars
<1>2. Handled'
  BY DEF IInv, TypeOK, Handled, Carried, Outcomes, None, SyncReturns, requestVars, callbackVars,
       eventVars, finalVars
<1>3. Queued'
  BY DEF IInv, TypeOK, Handled, Queued, None, SyncReturns, requestVars, callbackVars, eventVars,
       finalVars
<1>4. Carried'
  BY DEF IInv, TypeOK, Handled, Queued, Carried, None, SyncReturns, requestVars, callbackVars,
       eventVars, finalVars
<1>5. Authors'
  BY LatencyConstants DEF IInv, TypeOK, Handled, Queued, Authors, None, SyncReturns,
       requestVars, callbackVars, eventVars, finalVars
<1>6. Judged'
  BY LatencyConstants DEF IInv, TypeOK, Handled, Authors, Judged, Outcomes, None, SyncReturns,
       requestVars, callbackVars, eventVars, finalVars
<1>7. Covered'
  BY DEF IInv, TypeOK, Judged, Covered, None, SyncReturns, requestVars, callbackVars, eventVars,
       finalVars
<1>8. LateIsSettled'
  BY LatencyConstants DEF IInv, TypeOK, Handled, Queued, Authors, Judged, Covered,
       LateIsSettled, None, SyncReturns, requestVars, callbackVars, eventVars, finalVars
<1> QED BY <1>1, <1>2, <1>3, <1>4, <1>5, <1>6, <1>7, <1>8 DEF IInv

\* Account keeps the inductive invariant.
LEMMA AccountStep == ASSUME NEW c \in Callbacks, IInv, Account(c) PROVE IInv'
<1>1. TypeOK'
  <2>1. indexed' \in BOOLEAN /\ fault' \in BOOLEAN
    BY DEF IInv, TypeOK, Account, requestVars, callbackVars, eventVars, finalVars
  <2> QED BY <2>1, LatencyConstants DEF IInv, TypeOK, Handled, Authors, Outcomes, None, Account,
       requestVars, callbackVars, eventVars, finalVars
<1>2. Handled'
  BY DEF IInv, TypeOK, Handled, Carried, Outcomes, None, Account, requestVars, callbackVars,
       eventVars, finalVars
<1>3. Queued'
  BY DEF IInv, TypeOK, Handled, Queued, None, Account, requestVars, callbackVars, eventVars,
       finalVars
<1>4. Carried'
  BY DEF IInv, TypeOK, Handled, Queued, Carried, None, Account, requestVars, callbackVars,
       eventVars, finalVars
<1>5. Authors'
  BY LatencyConstants DEF IInv, TypeOK, Handled, Queued, Authors, None, Account, requestVars,
       callbackVars, eventVars, finalVars
<1>6. Judged'
  BY LatencyConstants DEF IInv, TypeOK, Handled, Authors, Judged, Outcomes, None, Account,
       requestVars, callbackVars, eventVars, finalVars
<1>7. Covered'
  BY DEF IInv, TypeOK, Judged, Covered, None, Account, requestVars, callbackVars, eventVars,
       finalVars
<1>8. LateIsSettled'
  BY LatencyConstants DEF IInv, TypeOK, Handled, Queued, Authors, Judged, Covered,
       LateIsSettled, None, Account, requestVars, callbackVars, eventVars, finalVars
<1> QED BY <1>1, <1>2, <1>3, <1>4, <1>5, <1>6, <1>7, <1>8 DEF IInv

\* Dequeue keeps the inductive invariant.
LEMMA DequeueStep == ASSUME IInv, Dequeue PROVE IInv'
<1> DEFINE h == Head(queue)
<1>a. /\ queue \in Seq(Callbacks) /\ queue # <<>> /\ queue' = Tail(queue)
      /\ epc' = [epc EXCEPT ![h] = "match"]
      /\ epc \in [Callbacks -> {None, "queued", "match", "insert", "stored", "failed"}]
  BY DEF IInv, TypeOK, Dequeue
<1>b. /\ h = queue[1] /\ h \in Callbacks /\ Len(queue) \in Nat /\ Len(queue) > 0
      /\ queue' \in Seq(Callbacks) /\ Len(queue') = Len(queue) - 1
      /\ \A i \in 1..Len(queue') : queue'[i] = queue[i + 1]
  BY <1>a, TailFacts
<1>c. epc[h] = "queued"
  BY <1>b DEF IInv, Queued
<1>1. TypeOK'
  <2>1. indexed' \in BOOLEAN /\ fault' \in BOOLEAN
    BY DEF IInv, TypeOK, Dequeue, requestVars, callbackVars, eventVars, finalVars
  <2> QED BY <2>1, LatencyConstants DEF IInv, TypeOK, Handled, Authors, Outcomes, None, Dequeue,
       requestVars, callbackVars, eventVars, finalVars
<1>2. Handled'
  BY <1>b, <1>c DEF IInv, TypeOK, Handled, None, Outcomes, Dequeue, requestVars, callbackVars,
       eventVars, finalVars
<1>3. Queued'
  <2>1. \A i \in 1..Len(queue') : i + 1 \in 1..Len(queue) /\ i + 1 # 1
    BY <1>b
  <2>2. \A i \in 1..Len(queue') : /\ queue'[i] # h /\ queue'[i] \in Callbacks
                                       /\ epc[queue'[i]] = "queued"
    BY <1>a, <1>b, <2>1 DEF IInv, Queued
  <2>3. \A i \in 1..Len(queue') : epc'[queue'[i]] = "queued"
    BY <1>a, <2>2
  <2>4. \A i, j \in 1..Len(queue') : queue'[i] = queue'[j] => i = j
    <3> SUFFICES ASSUME NEW i \in 1..Len(queue'), NEW j \in 1..Len(queue'), queue'[i] = queue'[j]
                 PROVE i = j
      OBVIOUS
    <3>1. queue[i + 1] = queue[j + 1]
      BY <1>b
    <3>2. i + 1 = j + 1
      BY <2>1, <3>1 DEF IInv, Queued
    <3> QED BY <3>2
  <2>5. ASSUME NEW c \in Callbacks, epc'[c] = "queued"
        PROVE \E i \in 1..Len(queue') : queue'[i] = c
    <3>1. c # h /\ epc[c] = "queued"
      BY <1>a, <1>b, <2>5
    <3>2. PICK i \in 1..Len(queue) : queue[i] = c
      BY <3>1 DEF IInv, Queued
    <3>3. i # 1 /\ i - 1 \in 1..Len(queue') /\ queue'[i - 1] = queue[(i - 1) + 1]
      BY <1>b, <3>1, <3>2
    <3> QED BY <3>2, <3>3
  <2> QED BY <2>3, <2>4, <2>5 DEF Queued
<1>4. Carried'
  BY DEF IInv, TypeOK, Handled, Queued, Carried, None, Dequeue, requestVars, callbackVars,
       eventVars, finalVars
<1>5. Authors'
  BY LatencyConstants DEF IInv, TypeOK, Handled, Queued, Authors, None, Dequeue, requestVars,
       callbackVars, eventVars, finalVars
<1>6. Judged'
  BY LatencyConstants DEF IInv, TypeOK, Handled, Authors, Judged, Outcomes, None, Dequeue,
       requestVars, callbackVars, eventVars, finalVars
<1>7. Covered'
  BY DEF IInv, TypeOK, Judged, Covered, None, Dequeue, requestVars, callbackVars, eventVars,
       finalVars
<1>8. LateIsSettled'
  BY LatencyConstants DEF IInv, TypeOK, Handled, Queued, Authors, Judged, Covered,
       LateIsSettled, None, Dequeue, requestVars, callbackVars, eventVars, finalVars
<1> QED BY <1>1, <1>2, <1>3, <1>4, <1>5, <1>6, <1>7, <1>8 DEF IInv

\* UpsertMatch keeps the inductive invariant.
LEMMA UpsertMatchStep == ASSUME NEW c \in Callbacks, IInv, UpsertMatch(c) PROVE IInv'
<1>1. TypeOK'
  <2>1. indexed' \in BOOLEAN /\ fault' \in BOOLEAN
    BY DEF IInv, TypeOK, UpsertMatch
  <2>2. /\ epc' \in [Callbacks -> {None, "queued", "match", "insert", "stored", "failed"}]
        /\ held' \subseteq Callbacks
    BY DEF IInv, TypeOK, UpsertMatch
  <2> QED BY <2>1, <2>2 DEF IInv, TypeOK, UpsertMatch, requestVars, callbackVars, eventVars,
       finalVars
<1>2. Handled'
  BY DEF IInv, TypeOK, Handled, Carried, Outcomes, None, UpsertMatch, requestVars, callbackVars,
       eventVars, finalVars
<1>3. Queued'
  BY DEF IInv, TypeOK, Handled, Queued, None, UpsertMatch, requestVars, callbackVars, eventVars,
       finalVars
<1>4. Carried'
  BY DEF IInv, TypeOK, Handled, Queued, Carried, None, UpsertMatch, requestVars, callbackVars,
       eventVars, finalVars
<1>5. Authors'
  BY LatencyConstants DEF IInv, TypeOK, Handled, Queued, Authors, None, UpsertMatch,
       requestVars, callbackVars, eventVars, finalVars
<1>6. Judged'
  BY LatencyConstants DEF IInv, TypeOK, Handled, Authors, Judged, Outcomes, None, UpsertMatch,
       requestVars, callbackVars, eventVars, finalVars
<1>7. Covered'
  BY DEF IInv, TypeOK, Judged, Covered, None, UpsertMatch, requestVars, callbackVars, eventVars,
       finalVars
<1>8. LateIsSettled'
  BY LatencyConstants DEF IInv, TypeOK, Handled, Queued, Authors, Judged, Covered,
       LateIsSettled, None, UpsertMatch, requestVars, callbackVars, eventVars, finalVars
<1> QED BY <1>1, <1>2, <1>3, <1>4, <1>5, <1>6, <1>7, <1>8 DEF IInv

\* UpsertInsert keeps the inductive invariant.
LEMMA UpsertInsertStep == ASSUME NEW c \in Callbacks, IInv, UpsertInsert(c) PROVE IInv'
<1>a. txn[c] \in Txns
  BY DEF IInv, TypeOK, Handled, None, UpsertInsert
<1>b. docs'[txn[c]] # {} /\ \A t \in Txns : docs[t] \subseteq docs'[t]
  BY <1>a DEF IInv, TypeOK, UpsertInsert
<1>1. TypeOK'
  <2>1. indexed' \in BOOLEAN /\ fault' \in BOOLEAN
    BY DEF IInv, TypeOK, UpsertInsert, requestVars, callbackVars, eventVars, finalVars
  <2> QED BY <2>1, LatencyConstants DEF IInv, TypeOK, Handled, Authors, Outcomes, None,
       UpsertInsert, requestVars, callbackVars, eventVars, finalVars
<1>2. Handled'
  BY DEF IInv, TypeOK, Handled, Carried, Outcomes, None, UpsertInsert, requestVars,
       callbackVars, eventVars, finalVars
<1>3. Queued'
  BY DEF IInv, TypeOK, Handled, Queued, None, UpsertInsert, requestVars, callbackVars,
       eventVars, finalVars
<1>4. Carried'
  <2>1. \A d \in Callbacks : epc[d] = "stored" => txn[d] \in Txns
    BY DEF IInv, TypeOK, Handled, None
  <2> QED BY <1>a, <1>b, <2>1 DEF IInv, TypeOK, Carried, UpsertInsert, requestVars,
       callbackVars, eventVars, finalVars
<1>5. Authors'
  BY LatencyConstants DEF IInv, TypeOK, Handled, Queued, Authors, None, UpsertInsert,
       requestVars, callbackVars, eventVars, finalVars
<1>6. Judged'
  BY LatencyConstants DEF IInv, TypeOK, Handled, Authors, Judged, Outcomes, None, UpsertInsert,
       requestVars, callbackVars, eventVars, finalVars
<1>7. Covered'
  BY DEF IInv, TypeOK, Judged, Covered, None, UpsertInsert, requestVars, callbackVars,
       eventVars, finalVars
<1>8. LateIsSettled'
  BY LatencyConstants DEF IInv, TypeOK, Handled, Queued, Authors, Judged, Covered,
       LateIsSettled, None, UpsertInsert, requestVars, callbackVars, eventVars, finalVars
<1> QED BY <1>1, <1>2, <1>3, <1>4, <1>5, <1>6, <1>7, <1>8 DEF IInv

\* RunReturns keeps the inductive invariant.
LEMMA RunReturnsStep == ASSUME IInv, RunReturns PROVE IInv'
<1>1. TypeOK'
  <2>1. indexed' \in BOOLEAN /\ fault' \in BOOLEAN
    BY DEF IInv, TypeOK, RunReturns, requestVars, callbackVars, eventVars, finalVars
  <2> QED BY <2>1, LatencyConstants DEF IInv, TypeOK, Handled, Authors, Outcomes, None,
       RunReturns, requestVars, callbackVars, eventVars, finalVars
<1>2. Handled'
  BY DEF IInv, TypeOK, Handled, Carried, Outcomes, None, RunReturns, requestVars, callbackVars,
       eventVars, finalVars
<1>3. Queued'
  BY DEF IInv, TypeOK, Handled, Queued, None, RunReturns, requestVars, callbackVars, eventVars,
       finalVars
<1>4. Carried'
  BY DEF IInv, TypeOK, Handled, Queued, Carried, None, RunReturns, requestVars, callbackVars,
       eventVars, finalVars
<1>5. Authors'
  BY LatencyConstants DEF IInv, TypeOK, Handled, Queued, Authors, None, RunReturns, requestVars,
       callbackVars, eventVars, finalVars
<1>6. Judged'
  BY LatencyConstants DEF IInv, TypeOK, Handled, Authors, Judged, Outcomes, None, RunReturns,
       requestVars, callbackVars, eventVars, finalVars
<1>7. Covered'
  BY DEF IInv, TypeOK, Judged, Covered, None, RunReturns, requestVars, callbackVars, eventVars,
       finalVars
<1>8. LateIsSettled'
  BY LatencyConstants DEF IInv, TypeOK, Handled, Queued, Authors, Judged, Covered,
       LateIsSettled, None, RunReturns, requestVars, callbackVars, eventVars, finalVars
<1> QED BY <1>1, <1>2, <1>3, <1>4, <1>5, <1>6, <1>7, <1>8 DEF IInv

\* ReadEvents keeps the inductive invariant.
LEMMA ReadEventsStep == ASSUME IInv, ReadEvents PROVE IInv'
<1>a. \A t \in Txns : \A w \in docs[t] : w \in Callbacks /\ eff[w] \in Outcomes
  BY DEF IInv, TypeOK, Handled, Authors, None, ReadEvents
<1>b. sent \ unlogged \subseteq stamps /\ stamps \subseteq Txns /\ Population \subseteq Txns
  BY DEF IInv, TypeOK, Judged, Population, ReadEvents
<1>c. /\ class' \in [Txns -> Outcomes \cup {None}]
      /\ fpc' = "bulkMatch" => \A t \in Population : class'[t] # None
  <2>1. CASE UNCHANGED class /\ fpc' = "finish"
    BY <2>1 DEF IInv, TypeOK
  <2>2. CASE \E last \in [Txns -> Callbacks \cup {None}], found \in SUBSET stamps :
                /\ \A t \in Txns : IF docs[t] = {} THEN last[t] = None ELSE last[t] \in docs[t]
                /\ class' = [t \in Txns |->
                               IF t \notin Population THEN None
                               ELSE IF docs[t] # {} THEN eff[last[t]] ELSE MissingOutcome(t, found)]
    <3>1. PICK last \in [Txns -> Callbacks \cup {None}], found \in SUBSET stamps :
                /\ \A t \in Txns : IF docs[t] = {} THEN last[t] = None ELSE last[t] \in docs[t]
                /\ class' = [t \in Txns |->
                               IF t \notin Population THEN None
                               ELSE IF docs[t] # {} THEN eff[last[t]] ELSE MissingOutcome(t, found)]
      BY <2>2
    <3>2. \A t \in Txns : MissingOutcome(t, found) \in Outcomes
      BY DEF MissingOutcome, Outcomes
    <3>3. \A t \in Txns : docs[t] # {} => eff[last[t]] \in Outcomes
      BY <1>a, <3>1
    <3>4. None \notin Outcomes
      BY DEF None, Outcomes
    <3> HIDE DEF None, Outcomes
    <3> QED BY <1>b, <3>1, <3>2, <3>3, <3>4
  <2> QED BY <2>1, <2>2 DEF ReadEvents
<1>1. TypeOK'
  <2>1. indexed' \in BOOLEAN /\ fault' \in BOOLEAN
    BY DEF IInv, TypeOK, ReadEvents
  <2>2. missing' \subseteq Txns /\ unmatched' \subseteq missing'
    BY <1>b DEF IInv, TypeOK, Judged, ReadEvents
  <2> QED BY <1>c, <2>1, <2>2 DEF IInv, TypeOK, ReadEvents, requestVars, callbackVars,
       eventVars, finalVars
<1>2. Handled'
  BY DEF IInv, TypeOK, Handled, Carried, Outcomes, None, ReadEvents, Population, MissingOutcome,
       requestVars, callbackVars, eventVars, finalVars
<1>3. Queued'
  BY DEF IInv, TypeOK, Handled, Queued, None, ReadEvents, Population, MissingOutcome,
       requestVars, callbackVars, eventVars, finalVars
<1>4. Carried'
  BY DEF IInv, TypeOK, Handled, Queued, Carried, None, ReadEvents, Population, MissingOutcome,
       requestVars, callbackVars, eventVars, finalVars
<1>5. Authors'
  BY LatencyConstants DEF IInv, TypeOK, Handled, Queued, Authors, None, ReadEvents, Population,
       MissingOutcome, requestVars, callbackVars, eventVars, finalVars
<1>6. Judged'
  BY LatencyConstants DEF IInv, TypeOK, Handled, Authors, Judged, Outcomes, None, ReadEvents,
       Population, MissingOutcome, requestVars, callbackVars, eventVars, finalVars
<1>7. Covered'
  <2>1. CASE fpc' = "finish" /\ fault' = TRUE
    BY <2>1 DEF Covered
  <2>2. CASE fpc' = "bulkMatch" /\ missing' = {t \in Population : docs[t] = {}}
    <3>1. sent' = sent /\ unlogged' = unlogged /\ docs' = docs /\ sent \ unlogged \subseteq Population
      BY <1>b DEF ReadEvents, Population, requestVars
    <3>2. \A t \in sent \ unlogged : class'[t] # None
      BY <1>c, <2>2, <3>1
    <3>3. \A t \in sent \ unlogged : t \in missing' \/ docs[t] # {}
      BY <2>2, <3>1
    <3> QED BY <2>2, <3>1, <3>2, <3>3 DEF Covered
  <2> QED BY <2>1, <2>2 DEF ReadEvents
<1>8. LateIsSettled'
  BY LatencyConstants DEF IInv, TypeOK, Handled, Queued, Authors, Judged, Covered,
       LateIsSettled, None, ReadEvents, Population, MissingOutcome, requestVars, callbackVars,
       eventVars, finalVars
<1> QED BY <1>1, <1>2, <1>3, <1>4, <1>5, <1>6, <1>7, <1>8 DEF IInv

\* BulkMatch keeps the inductive invariant.
LEMMA BulkMatchStep == ASSUME IInv, BulkMatch PROVE IInv'
<1>1. TypeOK'
  <2>1. indexed' \in BOOLEAN /\ fault' \in BOOLEAN
    BY DEF IInv, TypeOK, BulkMatch, requestVars, callbackVars, eventVars, finalVars
  <2> QED BY <2>1, LatencyConstants DEF IInv, TypeOK, Handled, Authors, Outcomes, None,
       BulkMatch, requestVars, callbackVars, eventVars, finalVars
<1>2. Handled'
  BY DEF IInv, TypeOK, Handled, Carried, Outcomes, None, BulkMatch, requestVars, callbackVars,
       eventVars, finalVars
<1>3. Queued'
  BY DEF IInv, TypeOK, Handled, Queued, None, BulkMatch, requestVars, callbackVars, eventVars,
       finalVars
<1>4. Carried'
  BY DEF IInv, TypeOK, Handled, Queued, Carried, None, BulkMatch, requestVars, callbackVars,
       eventVars, finalVars
<1>5. Authors'
  BY LatencyConstants DEF IInv, TypeOK, Handled, Queued, Authors, None, BulkMatch, requestVars,
       callbackVars, eventVars, finalVars
<1>6. Judged'
  BY LatencyConstants DEF IInv, TypeOK, Handled, Authors, Judged, Outcomes, None, BulkMatch,
       requestVars, callbackVars, eventVars, finalVars
<1>7. Covered'
  BY DEF IInv, TypeOK, Judged, Covered, None, BulkMatch, requestVars, callbackVars, eventVars,
       finalVars
<1>8. LateIsSettled'
  BY LatencyConstants DEF IInv, TypeOK, Handled, Queued, Authors, Judged, Covered,
       LateIsSettled, None, BulkMatch, requestVars, callbackVars, eventVars, finalVars
<1> QED BY <1>1, <1>2, <1>3, <1>4, <1>5, <1>6, <1>7, <1>8 DEF IInv

\* BulkInsert keeps the inductive invariant.
LEMMA BulkInsertStep == ASSUME IInv, BulkInsert PROVE IInv'
<1>a. PICK S \in SUBSET unmatched : /\ docs' = Inserted(S)
                                    /\ (fault' = fault /\ S = unmatched) \/ fault' = TRUE
  BY DEF BulkInsert
<1>b. \A t \in Txns : /\ docs[t] \subseteq docs'[t]
                      /\ docs'[t] \subseteq docs[t] \cup {Finalizer}
                      /\ Finalizer \in docs'[t] => t \in S \/ Finalizer \in docs[t]
                      /\ t \in S => docs'[t] # {}
  <2> SUFFICES ASSUME NEW t \in Txns
               PROVE  /\ docs[t] \subseteq docs'[t]
                      /\ docs'[t] \subseteq docs[t] \cup {Finalizer}
                      /\ Finalizer \in docs'[t] => t \in S \/ Finalizer \in docs[t]
                      /\ t \in S => docs'[t] # {}
    OBVIOUS
  <2>1. \/ docs'[t] = docs[t] /\ (t \in S => docs[t] # {})
        \/ docs'[t] = docs[t] \cup {Finalizer} /\ t \in S
    <3>1. docs' = Inserted(S)
      BY <1>a
    <3> QED BY <3>1 DEF Inserted
  <2> QED BY <2>1
<1>c. S \subseteq missing
  BY <1>a DEF IInv, TypeOK
<1>1. TypeOK'
  <2>1. indexed' \in BOOLEAN /\ fault' \in BOOLEAN
    BY DEF IInv, TypeOK, BulkInsert, Inserted, requestVars, callbackVars, eventVars, finalVars
  <2> QED BY <2>1, LatencyConstants DEF IInv, TypeOK, Handled, Authors, Outcomes, None,
       BulkInsert, Inserted, requestVars, callbackVars, eventVars, finalVars
<1>2. Handled'
  BY DEF IInv, TypeOK, Handled, Carried, Outcomes, None, BulkInsert, Inserted, requestVars,
       callbackVars, eventVars, finalVars
<1>3. Queued'
  BY DEF IInv, TypeOK, Handled, Queued, None, BulkInsert, Inserted, requestVars, callbackVars,
       eventVars, finalVars
<1>4. Carried'
  <2>1. \A c \in Callbacks : epc[c] = "stored" => txn[c] \in Txns
    BY DEF IInv, TypeOK, Handled, None
  <2>2. fault => fault'
    BY DEF BulkInsert
  <2> QED BY <1>b, <2>1, <2>2 DEF IInv, TypeOK, Carried, BulkInsert, requestVars, callbackVars,
       eventVars, finalVars
<1>5. Authors'
  BY <1>b, <1>c, LatencyConstants DEF IInv, TypeOK, Authors, BulkInsert, requestVars,
       callbackVars, eventVars, finalVars
<1>6. Judged'
  BY LatencyConstants DEF IInv, TypeOK, Handled, Authors, Judged, Outcomes, None, BulkInsert,
       Inserted, requestVars, callbackVars, eventVars, finalVars
<1>7. Covered'
  <2>1. ASSUME ~fault' PROVE \A t \in sent \ unlogged : docs'[t] # {}
    <3>1. S = unmatched
      BY <1>a, <2>1
    <3>2. sent \subseteq Txns /\ \A t \in sent \ unlogged : t \in unmatched \/ docs[t] # {}
      BY DEF IInv, TypeOK, Covered, BulkInsert
    <3> QED BY <1>b, <3>1, <3>2
  <2> QED BY <2>1 DEF IInv, TypeOK, Covered, BulkInsert, requestVars, callbackVars, eventVars,
       finalVars
<1>8. LateIsSettled'
  <2>1. \A c \in Callbacks : epc[c] # None => txn[c] \in Txns
    BY DEF IInv, TypeOK, Handled
  <2>2. fault => fault'
    BY DEF BulkInsert
  <2>3. \A c \in Callbacks : epc[c] # None /\ c \in docs'[txn[c]] => c \in docs[txn[c]]
    BY <1>b, <2>1, LatencyConstants
  <2>4. \A c \in Callbacks : epc[c] # None /\ docs[txn[c]] # {} => docs'[txn[c]] # {}
    BY <1>b, <2>1
  <2> QED BY <2>2, <2>3, <2>4 DEF IInv, LateIsSettled, BulkInsert, requestVars, callbackVars,
       eventVars, finalVars
<1> QED BY <1>1, <1>2, <1>3, <1>4, <1>5, <1>6, <1>7, <1>8 DEF IInv

\* WriteSummary keeps the inductive invariant.
LEMMA WriteSummaryStep == ASSUME IInv, WriteSummary PROVE IInv'
<1>1. TypeOK'
  <2>1. indexed' \in BOOLEAN /\ fault' \in BOOLEAN
    BY DEF IInv, TypeOK, WriteSummary, requestVars, callbackVars, eventVars, finalVars
  <2> QED BY <2>1, LatencyConstants DEF IInv, TypeOK, Handled, Authors, Outcomes, None,
       WriteSummary, requestVars, callbackVars, eventVars, finalVars
<1>2. Handled'
  BY DEF IInv, TypeOK, Handled, Carried, Outcomes, None, WriteSummary, requestVars,
       callbackVars, eventVars, finalVars
<1>3. Queued'
  BY DEF IInv, TypeOK, Handled, Queued, None, WriteSummary, requestVars, callbackVars,
       eventVars, finalVars
<1>4. Carried'
  BY DEF IInv, TypeOK, Handled, Queued, Carried, None, WriteSummary, requestVars, callbackVars,
       eventVars, finalVars
<1>5. Authors'
  BY LatencyConstants DEF IInv, TypeOK, Handled, Queued, Authors, None, WriteSummary,
       requestVars, callbackVars, eventVars, finalVars
<1>6. Judged'
  BY LatencyConstants DEF IInv, TypeOK, Handled, Authors, Judged, Outcomes, None, WriteSummary,
       requestVars, callbackVars, eventVars, finalVars
<1>7. Covered'
  BY DEF IInv, TypeOK, Judged, Covered, None, WriteSummary, requestVars, callbackVars,
       eventVars, finalVars
<1>8. LateIsSettled'
  BY LatencyConstants DEF IInv, TypeOK, Handled, Queued, Authors, Judged, Covered,
       LateIsSettled, None, WriteSummary, requestVars, callbackVars, eventVars, finalVars
<1> QED BY <1>1, <1>2, <1>3, <1>4, <1>5, <1>6, <1>7, <1>8 DEF IInv

\* Cleanup keeps the inductive invariant.
LEMMA CleanupStep == ASSUME IInv, Cleanup PROVE IInv'
<1>1. TypeOK'
  <2>1. indexed' \in BOOLEAN /\ fault' \in BOOLEAN
    BY DEF IInv, TypeOK, Cleanup, requestVars, callbackVars, eventVars, finalVars
  <2> QED BY <2>1, LatencyConstants DEF IInv, TypeOK, Handled, Authors, Outcomes, None, Cleanup,
       requestVars, callbackVars, eventVars, finalVars
<1>2. Handled'
  BY DEF IInv, TypeOK, Handled, Carried, Outcomes, None, Cleanup, requestVars, callbackVars,
       eventVars, finalVars
<1>3. Queued'
  BY DEF IInv, TypeOK, Handled, Queued, None, Cleanup, requestVars, callbackVars, eventVars,
       finalVars
<1>4. Carried'
  BY DEF IInv, TypeOK, Handled, Queued, Carried, None, Cleanup, requestVars, callbackVars,
       eventVars, finalVars
<1>5. Authors'
  BY LatencyConstants DEF IInv, TypeOK, Handled, Queued, Authors, None, Cleanup, requestVars,
       callbackVars, eventVars, finalVars
<1>6. Judged'
  BY LatencyConstants DEF IInv, TypeOK, Handled, Authors, Judged, Outcomes, None, Cleanup,
       requestVars, callbackVars, eventVars, finalVars
<1>7. Covered'
  BY DEF IInv, TypeOK, Judged, Covered, None, Cleanup, requestVars, callbackVars, eventVars,
       finalVars
<1>8. LateIsSettled'
  BY LatencyConstants DEF IInv, TypeOK, Handled, Queued, Authors, Judged, Covered,
       LateIsSettled, None, Cleanup, requestVars, callbackVars, eventVars, finalVars
<1> QED BY <1>1, <1>2, <1>3, <1>4, <1>5, <1>6, <1>7, <1>8 DEF IInv

-----------------------------------------------------------------------------
\* Every step keeps the inductive invariant.
LEMMA StepIInv == IInv /\ [Next]_vars => IInv'
<1> SUFFICES ASSUME IInv, [Next]_vars PROVE IInv'
  OBVIOUS
<1>1. CASE UNCHANGED vars
  BY <1>1 DEF vars, IInv, TypeOK, Handled, Queued, Carried, Authors, Judged, Covered,
              LateIsSettled
<1>2. ASSUME NEW t \in Txns, SendRequest(t) \/ Elapse(t) PROVE IInv'
  BY <1>2, SendRequestStep, ElapseStep
<1>3. ASSUME NEW c \in Callbacks, Receive(c) \/ Handler(c) \/ Write(c) PROVE IInv'
  BY <1>3, ReceiveStep, RecordLatencyEventStep, SyncReturnsStep, AccountStep, UpsertMatchStep,
     UpsertInsertStep
  DEF Handler, Write
<1>4. ASSUME Goroutine PROVE IInv'
  BY <1>4, RunReturnsStep, ReadEventsStep, BulkMatchStep, BulkInsertStep, WriteSummaryStep,
     CleanupStep
  DEF Goroutine
<1> QED BY <1>1, <1>2, <1>3, <1>4, DequeueStep, ExpireStampsStep DEF Next, Terminated

\* Handlers, queue, documents and summary always have their types; the queue
\* never exceeds its size.
THEOREM TypeCorrect == SafetySpec => []TypeOK
<1>1. IInv => TypeOK
  BY DEF IInv
<1> QED BY InitIInv, StepIInv, <1>1, PTL DEF SafetySpec

\* No callback is lost between its handler and MongoDB without an error of
\* MongoDB, whatever the queue size and however many workers there are.
THEOREM EventsNeverVanish == SafetySpec => []NoEventVanishes
<1>1. IInv => NoEventVanishes
  BY DEF IInv, Handled, Queued, Carried, NoEventVanishes
<1> QED BY InitIInv, StepIInv, <1>1, PTL DEF SafetySpec

\* A stored success was received in time, unless the run log in Redis had lost its
\* sent_at, and a stored timeout was not, although the clean-up of the run races
\* the last handlers.
THEOREM DeadlineIsRespected == SafetySpec => []OutcomesRespectDeadline
<1>1. ASSUME IInv PROVE OutcomesRespectDeadline
  <2> SUFFICES ASSUME NEW t \in Txns, NEW w \in docs[t]
               PROVE /\ OutcomeBy(t, w) = "success" =>
                            w # Finalizer /\ (w \in late => fault \/ t \in unlogged \/ w \in unread)
                     /\ OutcomeBy(t, w) = "timeout" => t \in old
    BY DEF OutcomesRespectDeadline
  <2>1. CASE w = Finalizer
    BY <1>1, <2>1 DEF IInv, Authors, Judged, OutcomeBy
  <2>2. CASE w # Finalizer
    <3>1. w \in Callbacks /\ txn[w] = t /\ epc[w] = "stored" /\ OutcomeBy(t, w) = eff[w]
      BY <1>1, <2>2 DEF IInv, TypeOK, Authors, OutcomeBy
    <3>2. eff[w] = "timeout" => t \in old
      BY <1>1, <3>1 DEF IInv, Handled
    <3>3. eff[w] = "success" => (w \in late => fault \/ t \in unlogged \/ w \in unread)
      BY <1>1, <3>1 DEF IInv, LateIsSettled, None
    <3> QED BY <2>2, <3>1, <3>2, <3>3
  <2> QED BY <2>1, <2>2
<1> QED BY InitIInv, StepIInv, <1>1, PTL DEF SafetySpec

\* A run that finished without an error of MongoDB has an event and a place in
\* the summary for every request the run log did not lose, and every success it counts has a document.
THEOREM SummaryIsAccountable == SafetySpec => []SummaryAccountsForSends
<1>1. ASSUME IInv PROVE SummaryAccountsForSends
  <2>1. fpc \in {"finish", "done"} /\ ~fault => \A t \in sent \ unlogged : docs[t] # {} /\ summary[t] # None
    BY <1>1 DEF IInv, Covered
  <2>2. ASSUME NEW t \in Txns, summary[t] = "success"
        PROVE \E w \in docs[t] : OutcomeBy(t, w) = "success"
    <3>1. class[t] = "success"
      BY <1>1, <2>2 DEF IInv, Judged, None
    <3>2. PICK c \in Callbacks : c \in docs[t] /\ eff[c] = "success"
      BY <1>1, <3>1 DEF IInv, Judged
    <3> QED BY <3>2, LatencyConstants DEF OutcomeBy
  <2> QED BY <2>1, <2>2 DEF SummaryAccountsForSends
<1> QED BY InitIInv, StepIInv, <1>1, PTL DEF SafetySpec

\* What FirstOutcomeStands says of one step.
Stands ==
    \A t \in Txns :
        /\ \A w \in docs[t] : w \in docs'[t] /\ OutcomeBy(t, w)' = OutcomeBy(t, w)
        /\ indexed /\ docs[t] # {} => docs'[t] = docs[t]

\* A step that writes no document, changes the outcome of none and leaves the
\* judgement of the finalizer alone.
LEMMA StandsWhenUnwritten ==
    ASSUME IInv, docs' = docs,
           \A c \in Callbacks : epc[c] = "stored" => eff'[c] = eff[c],
           class' = class \/ fpc = "read"
    PROVE Stands
<1> SUFFICES ASSUME NEW t \in Txns, NEW w \in docs[t] PROVE OutcomeBy(t, w)' = OutcomeBy(t, w)
  BY DEF Stands
<1>1. CASE w = Finalizer
  BY <1>1 DEF IInv, Authors, OutcomeBy
<1>2. CASE w # Finalizer
  BY <1>2 DEF IInv, TypeOK, Authors, OutcomeBy
<1> QED BY <1>1, <1>2

\* An outcome that is stored stays as it is; with the unique index it stays the
\* only one of its transaction.
THEOREM FirstOutcomeWins == SafetySpec => FirstOutcomeStands
<1>1. ASSUME IInv, [Next]_vars PROVE [Stands]_vars
  <2> SUFFICES ASSUME Next PROVE Stands \/ UNCHANGED vars
    BY <1>1
  <2>1. CASE \E c \in Callbacks : UpsertInsert(c)
    <3>1. PICK c \in Callbacks : UpsertInsert(c)
      BY <2>1
    <3>2. eff' = eff /\ class' = class
      BY <3>1 DEF UpsertInsert, callbackVars, finalVars
    <3>3. \A t \in Txns : docs[t] \subseteq docs'[t]
      BY <1>1, <3>1 DEF IInv, TypeOK, UpsertInsert
    <3>4. \A t \in Txns : indexed /\ docs[t] # {} => docs'[t] = docs[t]
      BY <1>1, <3>1 DEF IInv, TypeOK, UpsertInsert
    <3> QED BY <3>2, <3>3, <3>4 DEF Stands, OutcomeBy
  <2>2. CASE BulkInsert
    <3>1. eff' = eff /\ class' = class
      BY <2>2 DEF BulkInsert, callbackVars, finalVars
    <3>2. PICK S \in SUBSET unmatched : docs' = Inserted(S)
      BY <2>2 DEF BulkInsert
    <3>3. \A t \in Txns : docs'[t] = docs[t] \/ docs'[t] = docs[t] \cup {Finalizer}
      BY <3>2 DEF Inserted
    <3>4. \A t \in Txns : indexed /\ docs[t] # {} => docs'[t] = docs[t]
      BY <3>2 DEF Inserted
    <3> QED BY <3>1, <3>3, <3>4 DEF Stands, OutcomeBy
  <2>3. CASE \E t \in Txns : SendRequest(t) \/ Elapse(t)
    BY <1>1, <2>3, StandsWhenUnwritten DEF SendRequest, Elapse, callbackVars, finalVars
  <2>4. CASE \E c \in Callbacks : Receive(c)
    BY <1>1, <2>4, StandsWhenUnwritten DEF Receive, finalVars, IInv, TypeOK, Handled, None
  <2>5. CASE \E c \in Callbacks : Handler(c)
    BY <1>1, <2>5, StandsWhenUnwritten
    DEF Handler, RecordLatencyEvent, Judge, SyncReturns, Account, finalVars, IInv, TypeOK, Handled, None
  <2>6. CASE Dequeue \/ ExpireStamps \/ \E c \in Callbacks : UpsertMatch(c)
    BY <1>1, <2>6, StandsWhenUnwritten DEF Dequeue, ExpireStamps, UpsertMatch, callbackVars, finalVars
  <2>7. CASE RunReturns \/ ReadEvents \/ BulkMatch \/ WriteSummary \/ Cleanup
    BY <1>1, <2>7, StandsWhenUnwritten
    DEF RunReturns, ReadEvents, BulkMatch, WriteSummary, Cleanup, callbackVars, finalVars
  <2> QED BY <2>1, <2>2, <2>3, <2>4, <2>5, <2>6, <2>7
          DEF Next, Handler, Write, Goroutine, Terminated
<1>2. SafetySpec => []IInv
  BY InitIInv, StepIInv, PTL DEF SafetySpec
<1>3. SafetySpec => [][Stands]_vars
  BY <1>1, <1>2, PTL DEF SafetySpec
<1> QED BY <1>3 DEF FirstOutcomeStands, Stands
=============================================================================
