----------------------- MODULE PreorderPipelineProofs -----------------------
(***************************************************************************)
(* Proofs about PreorderPipeline, for any number of runs and batch sizes,  *)
(* and about OrderFlow, for any rate, duration and catalog.                *)
(*                                                                         *)
(* RequestFollowsCallback is about requests that have left; to prove it,   *)
(* the payloads that may still leave (Queued) and the callbacks they are   *)
(* built from (Sourced) have to be accounted for too, and what a run       *)
(* selected itself is known only from the routes (CallbackCreditedToItsRun). *)
(*                                                                         *)
(* What OrderFlow says of the injected errors is arithmetic about the      *)
(* index of a payload in its batch: CorruptedOf counts the corrupted ones  *)
(* of a batch, WithinTolerance follows the count through three shrinking   *)
(* batches, and FlowInv says that the batches of a run shrink so.          *)
(*                                                                         *)
(* What it says of the orders rests on OrderInv: what the order that is    *)
(* followed looks like at each point of the run, Clean when nothing was    *)
(* injected and Wronged when something was.  What it says of the reports   *)
(* rests on Sorted, which is defined by counting and needs no induction.   *)
(***************************************************************************)
EXTENDS PreorderPipeline, OrderFlow, FiniteSetTheorems, TLAPS

\* A run starts with select, and only a stage before the last one is followed
\* by a batch.
InOrder ==
    \A r \in Runs : /\ rpc[r] = "new" => stage[r] = 1
                    /\ rpc[r] = "build" => stage[r] < 3

\* A good callback answers a request of the run it is credited to, or came
\* unasked.
Sourced == \A e \in acks : Asked(e[1], e[2], e[3]) \/ e \in unasked

\* Every payload of init or confirm still to be sent has a good callback.
Queued ==
    \A r \in Runs : \A i \in Payloads(r) :
        (rpc[r] = "sending" /\ stage[r] > 1 /\ ppc[r][i] = "todo") =>
            <<r, stage[r] - 1, Txn(r, i)>> \in acks

IInv ==
    /\ TypeOK
    /\ InOrder
    /\ CallbackCreditedToItsRun
    /\ Sourced
    /\ Queued
    /\ RequestFollowsCallback

-----------------------------------------------------------------------------
\* The transactions of a run are among the known ones.
LEMMA TxnIsKnown ==
    ASSUME NEW r \in Runs, NEW i \in Payloads(r)
    PROVE  Txn(r, i) \in Txns
  BY DEF Txns

\* Transactions do not change, and a request that was sent was sent for good.
LEMMA AskedGrows ==
    ASSUME sent \subseteq sent', UNCHANGED <<size, name>>
    PROVE  /\ \A r, s, t : Asked(r, s, t) => Asked(r, s, t)'
           /\ Txns' = Txns
           /\ \A r, i : Txn(r, i)' = Txn(r, i)
           /\ \A r : Payloads(r)' = Payloads(r)
  BY DEF Asked, Txns, Txn, Payloads

\* A step in which a run only makes progress disturbs neither routes nor
\* callbacks nor what has been sent.
LEMMA OnlyProgress ==
    ASSUME IInv, UNCHANGED <<size, name, route, sent, acks, unasked>>,
           TypeOK', InOrder', Queued'
    PROVE  IInv'
<1>1. /\ \A r, s, t : Asked(r, s, t) => Asked(r, s, t)'
      /\ Txns' = Txns
      /\ \A r, i : Txn(r, i)' = Txn(r, i)
  BY AskedGrows
<1>2. CallbackCreditedToItsRun'
  BY <1>1 DEF IInv, CallbackCreditedToItsRun
<1>3. Sourced'
  BY <1>1 DEF IInv, Sourced
<1>4. RequestFollowsCallback'
  BY <1>1 DEF IInv, RequestFollowsCallback
<1> QED
  BY <1>2, <1>3, <1>4 DEF IInv

\* The invariant holds before any run is started.
LEMMA InitInv == Init => IInv
<1> SUFFICES ASSUME Init PROVE IInv
  OBVIOUS
<1>1. TypeOK
  <2>1. <<size, name>> \in Loads
    BY PipelineConstants DEF Init
  <2> QED
    BY <2>1 DEF Init, TypeOK, NoRoute, Stages
<1>2. InOrder /\ Sourced /\ Queued /\ RequestFollowsCallback
  BY DEF Init, InOrder, Sourced, Queued, RequestFollowsCallback
<1>3. CallbackCreditedToItsRun
  BY DEF Init, CallbackCreditedToItsRun, NoRoute
<1> QED
  BY <1>1, <1>2, <1>3 DEF IInv

-----------------------------------------------------------------------------
\* startPreorder starts the goroutine of a run whose stage is still select.
LEMMA ConfigureInv ==
    ASSUME IInv, NEW r \in Runs, Configure(r)
    PROVE  IInv'
<1> USE DEF Configure, Goto
<1>0. UNCHANGED <<size, name, route, sent, acks, unasked>>
  OBVIOUS
<1>1. TypeOK'
  BY DEF IInv, TypeOK, InOrder, Payloads, Txns, Txn, Stages, Answers
<1>2. InOrder'
  BY DEF IInv, TypeOK, InOrder, Stages
<1>3. Queued'
  BY <1>0, AskedGrows DEF IInv, TypeOK, InOrder, Queued, Payloads, Stages
<1> QED
  BY <1>0, <1>1, <1>2, <1>3, OnlyProgress

\* The end of a stage sends nothing.
LEMMA StageSentInv ==
    ASSUME IInv, NEW r \in Runs, StageSent(r)
    PROVE  IInv'
<1> USE DEF StageSent, Goto
<1>0. UNCHANGED <<size, name, route, sent, acks, unasked>>
  OBVIOUS
<1>1. TypeOK'
  BY DEF IInv, TypeOK, InOrder, Payloads, Txns, Txn, Stages, Answers
<1>2. InOrder'
  BY DEF IInv, TypeOK, InOrder, Stages
<1>3. Queued'
  BY <1>0, AskedGrows DEF IInv, TypeOK, InOrder, Queued, Payloads, Stages
<1> QED
  BY <1>0, <1>1, <1>2, <1>3, OnlyProgress

\* After the last stage a run does not build another batch.
LEMMA WaitInv ==
    ASSUME IInv, NEW r \in Runs, Wait(r)
    PROVE  IInv'
<1> USE DEF Wait, Goto
<1>0. UNCHANGED <<size, name, route, sent, acks, unasked>>
  OBVIOUS
<1>1. TypeOK'
  BY DEF IInv, TypeOK, InOrder, Payloads, Txns, Txn, Stages, Answers
<1>2. InOrder'
  BY DEF IInv, TypeOK, InOrder, Stages
<1>3. Queued'
  BY <1>0, AskedGrows DEF IInv, TypeOK, InOrder, Queued, Payloads, Stages
<1> QED
  BY <1>0, <1>1, <1>2, <1>3, OnlyProgress

\* A batch takes only what usable holds, so a payload of it has its callback.
LEMMA BuildNextInv ==
    ASSUME IInv, NEW r \in Runs, BuildNext(r)
    PROVE  IInv'
<1> USE DEF BuildNext, NextBatch, Goto
<1>0. UNCHANGED <<size, name, route, sent, acks, unasked>>
  OBVIOUS
<1>1. TypeOK'
  BY DEF IInv, TypeOK, InOrder, Payloads, Txns, Txn, Stages, Answers
<1>2. InOrder'
  BY DEF IInv, TypeOK, InOrder, Stages
<1>3. Queued'
  <2> SUFFICES ASSUME NEW q \in Runs, NEW j \in Payloads(q),
                      rpc'[q] = "sending", stage'[q] > 1, ppc'[q][j] = "todo"
               PROVE  <<q, stage'[q] - 1, Txn(q, j)>> \in acks
    BY <1>0, AskedGrows DEF Queued
  <2>1. CASE q = r
    <3>1. stage'[q] - 1 = stage[r] /\ stage[r] \in Nat
      BY <2>1 DEF IInv, TypeOK, Stages
    <3>2. <<r, stage[r], Txn(r, j)>> \in usable
      BY <2>1 DEF IInv, TypeOK, Buildable
    <3> QED
      BY <2>1, <3>1, <3>2 DEF IInv, TypeOK
  <2>2. CASE q # r
    BY <2>2 DEF IInv, TypeOK, Queued
  <2> QED
    BY <2>1, <2>2
<1> QED
  BY <1>0, <1>1, <1>2, <1>3, OnlyProgress

\* The end of a run drops its stored callbacks.
LEMMA FinishInv ==
    ASSUME IInv, NEW r \in Runs, Finish(r)
    PROVE  IInv'
<1> USE DEF Finish, Goto
<1>0. UNCHANGED <<size, name, route, sent, acks, unasked>>
  OBVIOUS
<1>1. TypeOK'
  BY DEF IInv, TypeOK, InOrder, Payloads, Txns, Txn, Stages, Answers
<1>2. InOrder'
  BY DEF IInv, TypeOK, InOrder, Stages
<1>3. Queued'
  BY <1>0, AskedGrows DEF IInv, TypeOK, InOrder, Queued, Payloads, Stages
<1> QED
  BY <1>0, <1>1, <1>2, <1>3, OnlyProgress

\* A payload leaves: Queued becomes RequestFollowsCallback, and the route names
\* the run that sends.
LEMMA SendInv ==
    ASSUME IInv, NEW r \in Runs, NEW i \in Payloads(r), Send(r, i)
    PROVE  IInv'
<1> DEFINE entry == [run |-> r, session |-> linker]
<1>0. UNCHANGED <<size, name, linker, rpc, stage, acks, unasked, usable>>
  BY DEF Send
<1>a. \/ route' = route
      \/ stage[r] = 1 /\ route' = [route EXCEPT ![Txn(r, i)] = entry]
  BY DEF Send, Linked
<1>b. sent' = sent \cup {<<r, stage[r], i>>}
  BY DEF Send
<1>c. ppc' = [ppc EXCEPT ![r][i] = "sent"]
  BY DEF Send
<1>d. rpc[r] = "sending" /\ ppc[r][i] = "todo"
  BY DEF Send
<1>e. Txn(r, i) \in Txns
  BY TxnIsKnown
<1>f. /\ \A q, s, t : Asked(q, s, t) => Asked(q, s, t)'
      /\ Txns' = Txns
      /\ \A q, j : Txn(q, j)' = Txn(q, j)
      /\ \A q : Payloads(q)' = Payloads(q)
  BY <1>0, <1>b, AskedGrows
<1>g. Asked(r, stage[r], Txn(r, i))'
  <2>1. <<r, stage[r], i>> \in sent' /\ stage' = stage
    BY <1>0, <1>b
  <2> QED
    BY <2>1 DEF Asked
<1>1. TypeOK'
  <2>1. route' \in [Txns -> [run : Runs \cup {NoRun}, session : Runs \cup {NoRun}]]
    BY <1>a DEF IInv, TypeOK
  <2>2. \A q \in sent' : q[1] \in Runs /\ q[2] \in Stages /\ q[3] \in Payloads(q[1])
    BY <1>b DEF IInv, TypeOK
  <2>3. \A p \in Runs : ppc'[p] \in [Payloads(p) -> {"todo", "sent", "ok", "error", "skip"}]
    BY <1>c DEF IInv, TypeOK
  <2>4. DOMAIN ppc' = Runs
    BY <1>c DEF IInv, TypeOK
  <2> QED
    BY <1>0, <1>f, <2>1, <2>2, <2>3, <2>4 DEF IInv, TypeOK
<1>2. InOrder'
  BY <1>0 DEF IInv, InOrder
<1>3. CallbackCreditedToItsRun'
  <2>1. ASSUME NEW t \in Txns, route'[t].run # NoRun
        PROVE  Asked(route[t].run, 1, t)'
    <3>1. CASE route'[t] = route[t]
      BY <1>f, <2>1, <3>1 DEF IInv, CallbackCreditedToItsRun
    <3>2. CASE route'[t] # route[t]
      <4>1. stage[r] = 1 /\ t = Txn(r, i) /\ route'[t] = entry
        BY <1>a, <1>e, <3>2 DEF IInv, TypeOK
      <4>2. stage'[r] = 1 /\ Txn(r, i)' = t /\ route'[t].run = r
        BY <1>0, <1>f, <4>1
      <4> QED
        BY <1>g, <4>2
    <3> QED
      BY <3>1, <3>2
  <2> QED
    BY <1>0, <1>f, <2>1 DEF IInv, CallbackCreditedToItsRun
<1>4. Sourced'
  BY <1>0, <1>f DEF IInv, Sourced
<1>5. Queued'
  <2>1. \A q \in Runs : \A j \in Payloads(q) : ppc'[q][j] = "todo" => ppc[q][j] = "todo"
    BY <1>c DEF IInv, TypeOK
  <2> QED
    BY <1>0, <1>f, <2>1 DEF IInv, Queued
<1>6. RequestFollowsCallback'
  <2> DEFINE e == <<r, stage[r] - 1, Txn(r, i)>>
  <2>1. ASSUME stage[r] > 1
        PROVE  /\ e \in acks
               /\ Asked(r, stage[r] - 1, Txn(r, i)) \/ e \in unasked
               /\ Asked(r, 1, Txn(r, i))
    <3>1. e \in acks
      BY <1>d, <2>1 DEF IInv, Queued
    <3>2. e[1] = r /\ e[2] = stage[r] - 1 /\ e[3] = Txn(r, i)
      OBVIOUS
    <3> HIDE DEF e
    <3>3. Asked(e[1], e[2], e[3]) \/ e \in unasked
      BY <3>1 DEF IInv, Sourced
    <3>4. Asked(e[1], 1, e[3])
      BY <3>1 DEF IInv, CallbackCreditedToItsRun
    <3> QED
      BY <3>1, <3>2, <3>3, <3>4
  <2>2. ASSUME NEW q \in sent', q[2] > 1
        PROVE  /\ <<q[1], q[2] - 1, Txn(q[1], q[3])>> \in acks
               /\ \/ Asked(q[1], q[2] - 1, Txn(q[1], q[3]))
                  \/ <<q[1], q[2] - 1, Txn(q[1], q[3])>> \in unasked
               /\ Asked(q[1], 1, Txn(q[1], q[3]))
    <3>1. CASE q \in sent
      BY <2>2, <3>1 DEF IInv, RequestFollowsCallback
    <3>2. CASE q = <<r, stage[r], i>>
      BY <2>1, <2>2, <3>2
    <3> QED
      BY <1>b, <3>1, <3>2
  <2> QED
    BY <1>0, <1>f, <2>2 DEF RequestFollowsCallback
<1> QED
  BY <1>1, <1>2, <1>3, <1>4, <1>5, <1>6 DEF IInv

\* A payload that is refused leaves nothing behind.
LEMMA RefuseInv ==
    ASSUME IInv, NEW r \in Runs, NEW i \in Payloads(r), Refuse(r, i)
    PROVE  IInv'
<1> USE DEF Refuse
<1>0. UNCHANGED <<size, name, route, sent, acks, unasked>>
  OBVIOUS
<1>1. TypeOK'
  BY DEF IInv, TypeOK, InOrder, Payloads, Txns, Txn, Stages, Answers
<1>2. InOrder'
  BY DEF IInv, TypeOK, InOrder, Stages
<1>3. Queued'
  BY <1>0, AskedGrows DEF IInv, TypeOK, InOrder, Queued, Payloads, Stages
<1> QED
  BY <1>0, <1>1, <1>2, <1>3, OnlyProgress

\* The outcome of a call makes no payload ready to be sent again.
LEMMA SellerReturnsInv ==
    ASSUME IInv, NEW r \in Runs, NEW i \in Payloads(r), SellerReturns(r, i)
    PROVE  IInv'
<1> USE DEF SellerReturns
<1>0. UNCHANGED <<size, name, route, sent, acks, unasked>>
  OBVIOUS
<1>1. TypeOK'
  BY DEF IInv, TypeOK, InOrder, Payloads, Txns, Txn, Stages, Answers
<1>2. InOrder'
  BY DEF IInv, TypeOK, InOrder, Stages
<1>3. Queued'
  BY <1>0, AskedGrows DEF IInv, TypeOK, InOrder, Queued, Payloads, Stages
<1> QED
  BY <1>0, <1>1, <1>2, <1>3, OnlyProgress

-----------------------------------------------------------------------------
\* A callback is credited to the run that the route names, which has sent a
\* select with its transaction, and is marked when it was not asked for.
LEMMA CallbackInv ==
    ASSUME IInv, NEW t \in Txns, NEW s \in Answers, Callback(t, s)
    PROVE  IInv'
<1> DEFINE r == route[t].run
           entry == <<r, s, t>>
<1>0. UNCHANGED <<size, name, linker, rpc, stage, ppc, route, sent>>
  BY DEF Callback
<1>a. /\ acks' = acks \cup {entry} \/ acks' = acks
      /\ acks \subseteq acks' /\ unasked \subseteq unasked' /\ unasked' \subseteq acks'
      /\ usable' \subseteq acks'
  BY DEF Callback, IInv, TypeOK
<1>b. acks' # acks => Asked(r, s, t) \/ entry \in unasked'
  BY DEF Callback
<1>c. r \in Runs /\ Asked(r, 1, t)
  BY DEF Callback, IInv, TypeOK, CallbackCreditedToItsRun
<1>f. /\ \A p, k, u : Asked(p, k, u) => Asked(p, k, u)'
      /\ Txns' = Txns
      /\ \A p, j : Txn(p, j)' = Txn(p, j)
      /\ \A p : Payloads(p)' = Payloads(p)
  BY <1>0, AskedGrows
<1>g. entry[1] = r /\ entry[2] = s /\ entry[3] = t
  OBVIOUS
<1>h. entry \in Runs \X Answers \X Txns
  BY <1>c
<1> HIDE DEF entry, r
<1>1. TypeOK'
  <2>1. acks' \subseteq Runs \X Answers \X Txns
    BY <1>a, <1>h DEF IInv, TypeOK
  <2> QED
    BY <1>0, <1>a, <1>f, <2>1 DEF IInv, TypeOK
<1>2. InOrder'
  BY <1>0 DEF IInv, InOrder
<1>3. CallbackCreditedToItsRun'
  <2>1. \A e \in acks' : Asked(e[1], 1, e[3])
    BY <1>a, <1>c, <1>g DEF IInv, CallbackCreditedToItsRun
  <2> QED
    BY <1>0, <1>f, <2>1 DEF IInv, CallbackCreditedToItsRun
<1>4. Sourced'
  <2>1. \A e \in acks' : Asked(e[1], e[2], e[3]) \/ e \in unasked'
    BY <1>a, <1>b, <1>g DEF IInv, Sourced
  <2> QED
    BY <1>f, <2>1 DEF Sourced
<1>5. Queued'
  BY <1>0, <1>a, <1>f DEF IInv, Queued
<1>6. RequestFollowsCallback'
  BY <1>0, <1>a, <1>f DEF IInv, RequestFollowsCallback
<1> QED
  BY <1>1, <1>2, <1>3, <1>4, <1>5, <1>6 DEF IInv

\* No step changes what the invariant says.
LEMMA NextInv == IInv /\ [Next]_vars => IInv'
<1> SUFFICES ASSUME IInv, [Next]_vars PROVE IInv'
  OBVIOUS
<1>1. ASSUME NEW r \in Runs, Run(r) PROVE IInv'
  BY <1>1, ConfigureInv, StageSentInv, WaitInv, BuildNextInv, FinishInv DEF Run
<1>2. ASSUME NEW r \in Runs, NEW i \in Payloads(r), Payload(r, i) PROVE IInv'
  BY <1>2, RefuseInv, SendInv, SellerReturnsInv DEF Payload
<1>3. ASSUME NEW t \in Txns, NEW s \in Answers, Callback(t, s) PROVE IInv'
  BY <1>3, CallbackInv
<1>4. CASE UNCHANGED vars
  <2> USE <1>4 DEF vars
  <2>1. TypeOK' /\ InOrder'
    BY DEF IInv, TypeOK, InOrder, Txns, Txn, Payloads
  <2>2. Queued'
    BY AskedGrows DEF IInv, Queued
  <2> QED
    BY <2>1, <2>2, OnlyProgress
<1> QED
  BY <1>1, <1>2, <1>3, <1>4 DEF Next, Terminated

LEMMA InvHolds == SafetySpec => []IInv
  BY InitInv, NextInv, PTL DEF SafetySpec

-----------------------------------------------------------------------------
\* Runs, payloads, routes and stored callbacks keep their types: no run goes
\* past confirm.
THEOREM TypeCorrect == SafetySpec => []TypeOK
  BY InvHolds, PTL DEF IInv

\* runPreorder sends an init or a confirm only for a transaction it selected
\* itself and whose good callback of the stage before was credited to it, asked
\* for or marked as unasked, whatever callbacks come, how often and in which
\* order, and whichever runs share a transaction_id.
THEOREM RequestsFollowCallbacks == SafetySpec => []RequestFollowsCallback
  BY InvHolds, PTL DEF IInv

\* A callback is credited only to a run that has sent a select with its
\* transaction, whoever made the linker, and also when runs share a
\* transaction_id.
THEOREM CallbacksAreCredited == SafetySpec => []CallbackCreditedToItsRun
  BY InvHolds, PTL DEF IInv
-----------------------------------------------------------------------------
(* Error injection: the index of a payload in its batch decides            *)
(* (ShouldCorrupt).                                                        *)

\* An index is so many whole seconds, and the rest.
LEMMA Seconds ==
    ASSUME NEW rps \in Nat \ {0}, NEW i \in Nat
    PROVE  /\ i \div rps \in Nat /\ i % rps \in Nat /\ i % rps < rps
           /\ i = (i \div rps) * rps + (i % rps)
  OBVIOUS

\* The rest is what is left of whole seconds.
LEMMA Rest ==
    ASSUME NEW rps \in Nat \ {0}, NEW q \in Nat, NEW c \in Nat, c < rps
    PROVE  (q * rps + c) % rps = c
  OBVIOUS

\* Two indices less than a second apart with the same rest are the same.
LEMMA OncePerSecond ==
    ASSUME NEW rps \in Nat \ {0}, NEW i \in Nat, NEW j \in Nat,
           i < j + rps, j < i + rps, i % rps = j % rps
    PROVE  i = j
<1> DEFINE p == i \div rps
           q == j \div rps
           c == i % rps
<1>1. p \in Nat /\ q \in Nat /\ c \in Nat /\ i = p * rps + c /\ j = q * rps + c
  BY Seconds
<1> HIDE DEF p, q, c
<1>2. p * rps < (q + 1) * rps /\ q * rps < (p + 1) * rps
  BY <1>1
<1>3. ~(p >= q + 1) /\ ~(q >= p + 1)
  BY <1>1, <1>2
<1> QED
  BY <1>1, <1>3

\* Of the payloads of any second of a batch, whichever payload it starts at, exactly as
\* many are corrupted as README.md:176-178 says: none at one request per second, one below
\* ten, and floor(rps * 0.10) from ten on.  A batch that shrank between two stages starts
\* its seconds elsewhere, and the share is the same.
LEMMA ShareOfSecond ==
    ASSUME NEW rps \in Nat \ {0}, NEW start \in Nat
    PROVE  Cardinality({i \in start..(start + rps - 1) : ShouldCorrupt(TRUE, rps, i)})
             = IF rps = 1 THEN 0 ELSE IF rps < 10 THEN 1 ELSE (rps * 10) \div 100
<1> DEFINE k == WrongCount(rps)
           C == {i \in start..(start + rps - 1) : ShouldCorrupt(TRUE, rps, i)}
           a == start % rps
           q == start \div rps
<1>1. CASE rps = 1
  <2>1. C = {}
    BY <1>1 DEF ShouldCorrupt
  <2> QED
    BY <1>1, <2>1, FS_EmptySet
<1>2. CASE rps # 1
  <2>1. k \in Nat /\ k >= 1 /\ k <= rps /\ k = IF rps < 10 THEN 1 ELSE (rps * 10) \div 100
    BY <1>2 DEF WrongCount
  <2>2. C = {i \in start..(start + rps - 1) : i % rps < k}
    BY <1>2 DEF ShouldCorrupt
  <2>3. q \in Nat /\ a \in Nat /\ a < rps /\ start = q * rps + a
    BY Seconds
  <2> HIDE DEF k, C, a, q
  <2> DEFINE f == [r \in 0..(k - 1) |-> IF r >= a THEN start + r - a ELSE start + r - a + rps]
  <2>4. ASSUME NEW r \in 0..(k - 1)
        PROVE  f[r] \in start..(start + rps - 1) /\ f[r] \in Nat /\ f[r] % rps = r
    <3>1. r \in Nat /\ r < rps
      BY <2>1
    <3>2. CASE r >= a
      <4>1. f[r] = q * rps + r /\ f[r] \in start..(start + rps - 1) /\ f[r] \in Nat
        BY <2>1, <2>3, <3>1, <3>2
      <4> QED
        BY <2>3, <3>1, <4>1, Rest
    <3>3. CASE r < a
      <4>1. (q + 1) * rps = q * rps + rps /\ q * rps \in Nat
        BY <2>3
      <4>2. f[r] = (q + 1) * rps + r /\ f[r] \in start..(start + rps - 1) /\ f[r] \in Nat
        BY <2>1, <2>3, <3>1, <3>3, <4>1
      <4>3. q + 1 \in Nat
        BY <2>3
      <4> QED
        BY <3>1, <4>2, <4>3, Rest
    <3> QED
      BY <2>3, <3>1, <3>2, <3>3
  <2>5. \A r \in 0..(k - 1) : f[r] \in C
    <3>1. \A r \in 0..(k - 1) : r < k
      BY <2>1
    <3> QED
      BY <2>2, <2>4, <3>1
  <2>6. \A i \in C : \E r \in 0..(k - 1) : f[r] = i
    <3> SUFFICES ASSUME NEW i \in C PROVE f[i % rps] = i /\ i % rps \in 0..(k - 1)
      OBVIOUS
    <3>1. i \in Nat /\ i \in start..(start + rps - 1) /\ i % rps < k
      BY <2>2
    <3>2. i % rps \in 0..(k - 1)
      BY <2>1, <3>1, Seconds
    <3>3. /\ f[i % rps] \in Nat /\ f[i % rps] \in start..(start + rps - 1)
          /\ f[i % rps] % rps = i % rps
      BY <2>4, <3>2
    <3> HIDE DEF f
    <3>4. f[i % rps] < i + rps /\ i < f[i % rps] + rps
      BY <3>1, <3>3
    <3>5. f[i % rps] = i
      BY <3>1, <3>3, <3>4, OncePerSecond
    <3> QED
      BY <3>2, <3>5
  <2>7. ExistsBijection(0..(k - 1), C)
    <3>1. f \in [0..(k - 1) -> C]
      BY <2>5
    <3>2. DOMAIN f = 0..(k - 1)
      OBVIOUS
    <3> HIDE DEF f
    <3>3. f \in Injection(0..(k - 1), C)
      BY <2>4, <3>1, <3>2 DEF Injection, IsInjective
    <3>4. f \in Surjection(0..(k - 1), C)
      BY <2>6, <3>1 DEF Surjection
    <3> QED
      BY <3>3, <3>4 DEF ExistsBijection, Bijection
  <2>8. IsFiniteSet(0..(k - 1)) /\ Cardinality(0..(k - 1)) = k
    BY <2>1, FS_Interval
  <2>9. Cardinality(C) = k
    BY <2>7, <2>8, FS_Bijection
  <2> QED
    BY <1>2, <2>1, <2>9 DEF C
<1> QED
  BY <1>1, <1>2

\* Seconds and rest determine each other.
LEMMA Quotient ==
    ASSUME NEW rps \in Nat \ {0}, NEW q \in Nat, NEW c \in Nat, c < rps
    PROVE  (q * rps + c) \div rps = q
  OBVIOUS

\* Both, for an index that is given as so many seconds and a rest.
LEMMA Divide ==
    ASSUME NEW rps \in Nat \ {0}, NEW q \in Nat, NEW c \in Nat, c < rps, NEW n, n = q * rps + c
    PROVE  n \div rps = q /\ n % rps = c
  BY Rest, Quotient

\* The smaller of two.
Least(a, b) == IF a < b THEN a ELSE b

\* k of each whole second of n payloads, and the first k of the rest.
Share(n, rps, k) == (n \div rps) * k + Least(n % rps, k)

\* That many of the first n payloads are corrupted.
LEMMA CorruptedOf ==
    ASSUME NEW rps \in Nat \ {0}, NEW k \in Nat \ {0}, k <= rps, NEW n \in Nat
    PROVE  LET C == {i \in 0..(n - 1) : i % rps < k}
           IN  IsFiniteSet(C) /\ Cardinality(C) = Share(n, rps, k)
<1> DEFINE C == {i \in 0..(n - 1) : i % rps < k}
           q == n \div rps
           a == n % rps
           m == q * k + Least(a, k)
           f == [t \in 0..(m - 1) |-> (t \div k) * rps + (t % k)]
<1>1. q \in Nat /\ a \in Nat /\ a < rps /\ n = q * rps + a
  BY Seconds
<1>2. Least(a, k) \in Nat /\ Least(a, k) <= a /\ Least(a, k) <= k
  BY <1>1 DEF Least
<1>3. q * k \in Nat /\ m \in Nat /\ q * rps \in Nat
  BY <1>1, <1>2
<1> HIDE DEF q, a
<1>4. ASSUME NEW t \in 0..(m - 1)
      PROVE  f[t] \in C /\ t = (f[t] \div rps) * k + (f[t] % rps)
  <2> DEFINE p == t \div k
             c == t % k
  <2>1. t \in Nat /\ t < m
    BY <1>3
  <2>2. p \in Nat /\ c \in Nat /\ c < k /\ c < rps /\ t = p * k + c /\ f[t] = p * rps + c
    BY <2>1, Seconds
  <2> HIDE DEF p, c, f
  <2>3. f[t] % rps = c /\ f[t] \div rps = p
    BY <2>2, Rest, Quotient
  <2>4. f[t] \in Nat /\ f[t] < n
    <3>1. f[t] \in Nat
      BY <2>2
    <3>2. CASE p < q
      <4>1. (p + 1) * rps <= q * rps /\ (p + 1) * rps = p * rps + rps
        BY <1>1, <2>2, <3>2
      <4> QED
        BY <1>1, <1>3, <2>2, <4>1
    <3>3. CASE p = q
      <4>1. c < Least(a, k)
        BY <1>1, <1>2, <1>3, <2>1, <2>2, <3>3
      <4> QED
        BY <1>1, <1>2, <1>3, <2>2, <3>1, <3>3, <4>1
    <3>4. CASE p > q
      <4>1. p * k >= (q + 1) * k /\ (q + 1) * k = q * k + k
        BY <1>1, <2>2, <3>4
      <4> QED
        BY <1>2, <1>3, <2>1, <2>2, <4>1
    <3> QED
      BY <1>1, <2>2, <3>1, <3>2, <3>3, <3>4
  <2> QED
    BY <2>2, <2>3, <2>4
<1>5. ASSUME NEW i \in C
      PROVE  \E t \in 0..(m - 1) : f[t] = i
  <2> DEFINE p == i \div rps
             c == i % rps
             t == p * k + c
  <2>1. i \in Nat /\ i < n
    BY <1>1
  <2>2. p \in Nat /\ c \in Nat /\ c < k /\ i = p * rps + c
    BY <2>1, Seconds
  <2> HIDE DEF p, c
  <2>3. t \in Nat /\ t \div k = p /\ t % k = c
    BY <2>2, Rest, Quotient
  <2>4. t < m
    <3>1. CASE p < q
      <4>1. (p + 1) * k <= q * k /\ (p + 1) * k = p * k + k
        BY <1>1, <2>2, <3>1
      <4> QED
        BY <1>2, <1>3, <2>2, <4>1
    <3>2. CASE p = q
      <4>1. c < a
        BY <1>1, <1>3, <2>1, <2>2, <3>2
      <4>2. c < Least(a, k)
        BY <1>1, <2>2, <4>1 DEF Least
      <4> QED
        BY <1>2, <1>3, <2>2, <3>2, <4>2
    <3>3. CASE p > q
      <4>1. p * rps >= (q + 1) * rps /\ (q + 1) * rps = q * rps + rps
        BY <1>1, <2>2, <3>3
      <4> QED
        BY <1>1, <1>3, <2>1, <2>2, <4>1
    <3> QED
      BY <1>1, <2>2, <3>1, <3>2, <3>3
  <2>5. t \in 0..(m - 1)
    BY <1>3, <2>3, <2>4
  <2> HIDE DEF t
  <2>6. f[t] = i
    BY <2>2, <2>3, <2>5
  <2> QED
    BY <2>5, <2>6
<1>6. ExistsBijection(0..(m - 1), C)
  <2>1. f \in [0..(m - 1) -> C]
    BY <1>4
  <2> HIDE DEF f, C, m
  <2>2. \A t, u \in 0..(m - 1) : f[t] = f[u] => t = u
    BY <1>4
  <2>3. f \in Injection(0..(m - 1), C)
    BY <2>1, <2>2 DEF Injection, IsInjective
  <2>4. f \in Surjection(0..(m - 1), C)
    BY <1>5, <2>1 DEF Surjection
  <2> QED
    BY <2>3, <2>4 DEF ExistsBijection, Bijection
<1> HIDE DEF C, m
<1>7. IsFiniteSet(0..(m - 1)) /\ Cardinality(0..(m - 1)) = m
  <2>1. m - 1 \in Int /\ 0 \in Int /\ m \in Nat
    BY <1>3
  <2>2. Cardinality(0..(m - 1)) = IF 0 > m - 1 THEN 0 ELSE (m - 1) - 0 + 1
    BY <2>1, FS_Interval
  <2> QED
    BY <2>1, <2>2, FS_Interval
<1>8. IsFiniteSet(C) /\ Cardinality(C) = m
  BY <1>6, <1>7, FS_Bijection
<1> QED
  BY <1>8 DEF C, m, q, a, Share

-----------------------------------------------------------------------------
(* OrderFlow: how many requests each stage sends, and what the workbook    *)
(* says of them.                                                           *)

\* The batches of a run: the first has rps requests for each second, each of the others
\* one for each success of the one before it.
FlowInv ==
    /\ scene \in Scenes
    /\ phase \in 1..3
    /\ batch \in Seq(Nat) /\ Len(batch) = phase
    /\ batch[1] = scene.rps * scene.secs
    /\ \A s \in 1..3 : s < phase => batch[s + 1] = Succeed(s)
    /\ pc = "done" => phase = 3

\* What is corrupted is a part of the batch.
LEMMA CorruptedFits ==
    ASSUME NEW n \in Nat
    PROVE  /\ IsFiniteSet(Corrupted(n))
           /\ Cardinality(Corrupted(n)) \in Nat /\ Cardinality(Corrupted(n)) <= n
<1>1. IsFiniteSet(0..(n - 1)) /\ Cardinality(0..(n - 1)) = n
  <2>1. n - 1 \in Int /\ 0 \in Int
    OBVIOUS
  <2>2. Cardinality(0..(n - 1)) = IF 0 > n - 1 THEN 0 ELSE (n - 1) - 0 + 1
    BY <2>1, FS_Interval
  <2> QED
    BY <2>1, <2>2, FS_Interval
<1>2. Corrupted(n) \subseteq 0..(n - 1)
  BY DEF Corrupted
<1>3. /\ IsFiniteSet(Corrupted(n))
      /\ Cardinality(Corrupted(n)) <= Cardinality(0..(n - 1))
  BY <1>1, <1>2, FS_Subset
<1>4. Cardinality(Corrupted(n)) \in Nat
  BY <1>3, FS_CardinalityType
<1> QED
  BY <1>1, <1>3, <1>4

\* So a stage has no more successes than requests.
LEMMA SucceedFits ==
    ASSUME FlowInv, NEW s \in 1..phase
    PROVE  batch[s] \in Nat /\ Succeed(s) \in Nat /\ Succeed(s) <= batch[s]
<1>1. batch[s] \in Nat
  BY DEF FlowInv
<1> QED
  BY <1>1, CorruptedFits DEF Succeed

\* The next stage has one request for each success.
LEMMA StageInv ==
    ASSUME FlowInv, phase < 3, phase' = phase + 1, batch' = Append(batch, Succeed(phase)),
           scene' = scene, pc' # "done"
    PROVE  FlowInv'
<1>1. phase \in 1..phase /\ phase' \in 1..3 /\ phase \in Nat
  BY DEF FlowInv
<1>2. Succeed(phase) \in Nat
  BY <1>1, SucceedFits
<1>3. /\ batch' \in Seq(Nat) /\ Len(batch') = phase'
      /\ \A s \in 1..phase : batch'[s] = batch[s]
      /\ batch'[phase + 1] = Succeed(phase)
  BY <1>1, <1>2 DEF FlowInv
<1>4. \A s \in 1..phase : Succeed(s)' = Succeed(s)
  BY <1>3 DEF Succeed, Corrupted
<1>5. batch'[1] = scene'.rps * scene'.secs
  BY <1>1, <1>3 DEF FlowInv
<1>6. ASSUME NEW s \in 1..3, s < phase'
      PROVE  batch'[s + 1] = Succeed(s)'
  <2>1. s \in 1..phase
    BY <1>1, <1>6
  <2>2. CASE s = phase
    BY <1>3, <1>4, <2>1, <2>2
  <2>3. CASE s # phase
    <3>1. s < phase /\ s + 1 \in 1..phase
      BY <1>1, <2>1, <2>3
    <3>2. batch[s + 1] = Succeed(s)
      BY <3>1 DEF FlowInv
    <3> QED
      BY <1>3, <1>4, <2>1, <3>1, <3>2
  <2> QED
    BY <2>2, <2>3
<1> QED
  BY <1>1, <1>3, <1>5, <1>6 DEF FlowInv

\* FlowInv is inductive: only NextStage and Without add a batch.
LEMMA FlowInvHolds == FlowSpec => []FlowInv
<1>1. FlowInit => FlowInv
  <2> SUFFICES ASSUME FlowInit PROVE FlowInv
    OBVIOUS
  <2>1. scene.rps \in Nat /\ scene.secs \in Nat /\ scene \in Scenes
    BY ScenesAreRuns DEF FlowInit
  <2>2. scene.rps * scene.secs \in Nat
    BY <2>1
  <2>3. batch \in Seq(Nat) /\ Len(batch) = 1 /\ batch[1] = scene.rps * scene.secs
    BY <2>2 DEF FlowInit
  <2> QED
    BY <2>1, <2>3 DEF FlowInit, FlowInv
<1>2. FlowInv /\ [FlowNext]_flowVars => FlowInv'
  <2> SUFFICES ASSUME FlowInv, [FlowNext]_flowVars PROVE FlowInv'
    OBVIOUS
  <2>1. ASSUME UNCHANGED <<scene, phase, batch>>, pc' = "done" => phase = 3
        PROVE  FlowInv'
    <3>1. \A s \in 1..3 : Succeed(s)' = Succeed(s)
      BY <2>1 DEF Succeed, Corrupted
    <3> QED
      BY <2>1, <3>1 DEF FlowInv
  <2>2. CASE BuildSelect
    BY <2>1, <2>2 DEF BuildSelect, Go
  <2>3. CASE SendRequest
    BY <2>1, <2>3 DEF SendRequest, Go
  <2>4. CASE NextStage
    BY <2>4, StageInv DEF NextStage, Go
  <2>5. CASE Without
    BY <2>5, StageInv DEF Without
  <2>6. CASE FinishRun
    BY <2>1, <2>6 DEF FinishRun
  <2>7. CASE UNCHANGED flowVars
    BY <2>1, <2>7 DEF flowVars, FlowInv
  <2> QED
    BY <2>2, <2>3, <2>4, <2>5, <2>6, <2>7 DEF FlowNext
<1> QED
  BY <1>1, <1>2, PTL DEF FlowSpec

\* What the workbook reads of a stage.
LEMMA JourneyCounts ==
    ASSUME FlowInv, phase = 3, NEW s \in 1..3
    PROVE  Journeys[s].sent = batch[s] /\ Journeys[s].success = Succeed(s)
<1>1. batch[s] \in Nat /\ Succeed(s) \in Nat
  BY SucceedFits
<1>2. Requests(s).sent = batch[s]
  BY DEF Requests
<1>3. Summary(s).success = Succeed(s)
  BY DEF Summary, LatencySummary
<1>4. CallbackMetrics("completed", Nil, Summary(s)) = Summary(s)
  BY DEF CallbackMetrics
<1>5. Journeys[s] = Journey(Requests(s), Summary(s))
  BY <1>4 DEF Journeys, StageJourney
<1> QED
  BY <1>2, <1>3, <1>5 DEF Journey

-----------------------------------------------------------------------------
(* The tolerance of the workbook.                                          *)

\* The c payloads corrupted of n are never fewer than k of rps, and never more than one in
\* ten of n and of a second's successes.
LEMMA ShareBounds ==
    ASSUME NEW rps \in Nat \ {0}, NEW k \in Nat \ {0}, 10 * k <= rps, NEW n \in Nat,
           NEW c \in Nat, c = Share(n, rps, k)
    PROVE  rps * c >= k * n /\ 10 * c <= n + rps - k
<1> DEFINE q == n \div rps
           a == n % rps
           l == Least(a, k)
<1>1. q \in Nat /\ a \in Nat /\ a < rps /\ n = q * rps + a
  BY Seconds
<1>2. l \in Nat /\ l <= a /\ l <= k /\ (l = a \/ l = k)
  BY <1>1 DEF Least
<1>3. c = q * k + l
  BY DEF Share
<1> HIDE DEF q, a, l
<1>4. rps * c >= k * n
  <2>1. rps * c = rps * (q * k) + rps * l /\ k * n = rps * (q * k) + k * a
    BY <1>1, <1>2, <1>3
  <2>2. rps * l >= k * a
    <3>1. CASE l = a
      BY <1>1, <1>2, <3>1
    <3>2. CASE l = k
      BY <1>1, <1>2, <3>2
    <3> QED
      BY <1>2, <3>1, <3>2
  <2>3. rps * (q * k) \in Nat /\ rps * l \in Nat /\ k * a \in Nat
    BY <1>1, <1>2
  <2> QED
    BY <2>1, <2>2, <2>3
<1>5. 10 * c <= n + rps - k
  <2>1. q * (10 * k) <= q * rps
    BY <1>1
  <2>2. q * (10 * k) = 10 * (q * k) /\ q * k \in Nat /\ q * rps \in Nat
    BY <1>1
  <2>3. 10 * l <= a + rps - k
    BY <1>1, <1>2
  <2>4. 10 * c = 10 * (q * k) + 10 * l
    BY <1>2, <1>3, <2>2
  <2> HIDE DEF l
  <2> QED
    BY <1>1, <1>2, <2>1, <2>2, <2>3, <2>4
<1> QED
  BY <1>4, <1>5

\* A stage whose share is at least the one of a second reaches the tolerance from below.
LEMMA ShareIsEnough ==
    ASSUME NEW rps \in Nat \ {0}, NEW k \in Nat, NEW n \in Nat, NEW c \in Nat,
           100 * k >= 8 * rps, rps * c >= k * n
    PROVE  100 * c >= 8 * n
<1>1. n * (100 * k) >= n * (8 * rps)
  OBVIOUS
<1>2. rps * (100 * c) >= rps * (8 * n)
  <2>1. rps * (100 * c) = 100 * (rps * c) /\ n * (100 * k) = 100 * (k * n)
        /\ rps * (8 * n) = n * (8 * rps) /\ rps * c \in Nat /\ k * n \in Nat
    OBVIOUS
  <2> QED
    BY <1>1, <2>1
<1> QED
  BY <1>2

\* A batch of q seconds and e payloads more.
LEMMA ShareOf ==
    ASSUME NEW rps \in Nat \ {0}, NEW k \in Nat, NEW q \in Nat, NEW e \in Nat, e < rps
    PROVE  Share(q * rps + e, rps, k) = q * k + Least(e, k)
  BY Rest, Quotient DEF Share

\* The confirm requests of a run of five seconds.
LEMMA FiveSeconds ==
    ASSUME NEW rps \in Nat \ {0}, NEW k \in Nat \ {0}, 10 * k <= rps
    PROVE  LET n2 == 5 * rps - 5 * k
               n3 == n2 - Share(n2, rps, k)
           IN  100 * Share(n3, rps, k) <= 12 * n3
<1> DEFINE e2 == rps - 5 * k
           e3 == rps - 10 * k
<1>1. e2 \in Nat /\ e2 < rps /\ e2 >= k /\ e3 \in Nat /\ e3 < rps
  OBVIOUS
<1>2. 5 * rps - 5 * k = 4 * rps + e2
  OBVIOUS
<1>3. Share(4 * rps + e2, rps, k) = 4 * k + Least(e2, k)
  BY <1>1, ShareOf
<1>4. Share(5 * rps - 5 * k, rps, k) = 5 * k
  BY <1>1, <1>2, <1>3 DEF Least
<1>5. (5 * rps - 5 * k) - 5 * k = 4 * rps + e3
  OBVIOUS
<1>6. Share(4 * rps + e3, rps, k) = 4 * k + Least(e3, k)
  BY <1>1, ShareOf
<1>7. 100 * (4 * k + Least(e3, k)) <= 12 * (4 * rps + e3)
  BY <1>1 DEF Least
<1> QED
  BY <1>4, <1>5, <1>6, <1>7

\* The batches of a run with a strict seller, from five seconds on: of n1, n2 and n3
\* requests c1, c2 and c3 are corrupted and the rest is the next batch.
Shrinking(rps, secs, k, n1, n2, n3, c1, c2, c3) ==
    /\ rps \in Nat /\ rps >= 10 /\ secs \in Nat /\ secs >= 5
    /\ k \in Nat \ {0} /\ 10 * k <= rps /\ 100 * k >= 8 * rps
    /\ n1 \in Nat /\ n2 \in Nat /\ n3 \in Nat /\ c1 \in Nat /\ c2 \in Nat /\ c3 \in Nat
    /\ n1 = rps * secs /\ n2 = n1 - c1 /\ n3 = n2 - c2
    /\ c1 = Share(n1, rps, k) /\ c2 = Share(n2, rps, k) /\ c3 = Share(n3, rps, k)

\* What dropCheck tolerates of n requests with c drops.
Tolerated(n, c) == n > 0 /\ 100 * c >= 8 * n /\ 100 * c <= 12 * n

\* Every one of these batches is within the tolerance.  The bounds of ShareBounds are enough
\* for all but the confirm requests of five seconds.
LEMMA WithinTolerance ==
    ASSUME NEW rps, NEW secs, NEW k, NEW n1, NEW n2, NEW n3, NEW c1, NEW c2, NEW c3,
           Shrinking(rps, secs, k, n1, n2, n3, c1, c2, c3)
    PROVE  Tolerated(n1, c1) /\ Tolerated(n2, c2) /\ Tolerated(n3, c3)
<1> DEFINE d == rps - k
<1> USE DEF Shrinking
<1>1. rps \in Nat \ {0} /\ k \in Nat /\ d \in Nat /\ d > 0
  OBVIOUS
<1>2. /\ rps * c1 >= k * n1 /\ 10 * c1 <= n1 + rps - k
      /\ rps * c2 >= k * n2 /\ 10 * c2 <= n2 + rps - k
      /\ rps * c3 >= k * n3 /\ 10 * c3 <= n3 + rps - k
  BY <1>1, ShareBounds
<1>3. 100 * c1 >= 8 * n1 /\ 100 * c2 >= 8 * n2 /\ 100 * c3 >= 8 * n3
  BY <1>1, <1>2, ShareIsEnough
<1>4. c1 = secs * k
  <2>1. n1 = secs * rps + 0 /\ 0 \in Nat /\ 0 < rps
    OBVIOUS
  <2>2. n1 \div rps = secs /\ n1 % rps = 0
    BY <1>1, <2>1, Divide, Zenon
  <2> QED
    BY <2>2 DEF Share, Least
<1>5. n1 = secs * rps /\ n2 = secs * d
  BY <1>4
<1>6. secs * d >= 5 * d /\ secs * rps >= 5 * rps /\ secs * d \in Nat
  BY <1>1
<1>7. n1 > 0 /\ 100 * c1 <= 12 * n1
  BY <1>1, <1>2, <1>5, <1>6
<1>8. n2 > 0 /\ 100 * c2 <= 12 * n2
  BY <1>1, <1>2, <1>5, <1>6
<1>9. n3 > 0
  BY <1>2, <1>5, <1>6
<1>10. 100 * c3 <= 12 * n3
  <2>1. CASE secs >= 6
    <3>1. secs * d >= 6 * d
      BY <1>1, <2>1
    <3> QED
      BY <1>1, <1>2, <1>5, <1>6, <3>1
  <2>2. CASE secs = 5
    <3>1. n2 = 5 * rps - 5 * k
      BY <1>5, <2>2
    <3>2. 100 * Share(n2 - Share(n2, rps, k), rps, k) <= 12 * (n2 - Share(n2, rps, k))
      BY <1>1, <3>1, FiveSeconds, Zenon
    <3> QED
      BY <3>2
  <2> QED
    BY <2>1, <2>2
<1> QED
  BY <1>3, <1>7, <1>8, <1>9, <1>10 DEF Tolerated

\* The stages of a run with injection, at ten requests per second or more.
LEMMA CorruptedShare ==
    ASSUME scene.enabled, NEW n \in Nat, scene.rps \in Nat, scene.rps >= 10
    PROVE  Cardinality(Corrupted(n)) = Share(n, scene.rps, WrongCount(scene.rps))
<1> DEFINE k == WrongCount(scene.rps)
<1>1. k \in Nat \ {0} /\ k <= scene.rps /\ scene.rps \in Nat \ {0}
  BY DEF WrongCount
<1>2. Corrupted(n) = {i \in 0..(n - 1) : i % scene.rps < k}
  BY DEF Corrupted, ShouldCorrupt
<1> HIDE DEF k
<1>3. Cardinality({i \in 0..(n - 1) : i % scene.rps < k}) = Share(n, scene.rps, k)
  BY <1>1, CorruptedOf
<1> QED
  BY <1>2, <1>3 DEF k

\* Without a drop in any stage.
LEMMA Undropped ==
    ASSUME FlowInv, phase = 3, scene.enabled \in BOOLEAN, \A s \in 1..3 : Succeed(s) = batch[s]
    PROVE  LET row == BehaviorRow(Journeys, scene.enabled)
           IN  /\ ~scene.enabled =>
                    (\A s \in 1..3 : row.checks[s] = "OK") /\ row.observation = "Baseline clean"
               /\ scene.enabled =>
                    /\ \A s \in 1..3 : row.checks[s] = "Lower than expected"
                    /\ row.observation = "Inconsistent"
<1>1. scene.rps \in Nat \ {0} /\ scene.secs \in Nat \ {0}
  BY ScenesAreRuns DEF FlowInv
<1>2. batch[1] \in Nat /\ batch[1] > 0
  BY <1>1 DEF FlowInv
<1>3. batch[2] = batch[1] /\ batch[3] = batch[2]
  BY DEF FlowInv
<1>4. ASSUME NEW s \in 1..3
      PROVE  NoDrop(Journeys[s]) /\ ~DropAtLeast(Journeys[s], 8)
  <2>1. Journeys[s].sent = batch[1] /\ Journeys[s].success = batch[1]
    BY <1>3, JourneyCounts
  <2> QED
    BY <1>2, <2>1 DEF NoDrop, DropAtLeast
<1>5. CASE ~scene.enabled
  <2>1. \A s \in 1..3 : DropCheck(Journeys[s], scene.enabled) = "OK"
    BY <1>4, <1>5 DEF DropCheck
  <2>2. Observation(Journeys, scene.enabled) = "Baseline clean"
    BY <1>4, <1>5 DEF Observation
  <2> QED
    BY <1>5, <2>1, <2>2 DEF BehaviorRow
<1>6. CASE scene.enabled
  <2>1. \A s \in 1..3 : DropCheck(Journeys[s], scene.enabled) = "Lower than expected"
    BY <1>4, <1>6 DEF DropCheck
  <2>2. Observation(Journeys, scene.enabled) = "Inconsistent"
    BY <1>4, <1>6 DEF Observation
  <2> QED
    BY <1>6, <2>1, <2>2 DEF BehaviorRow
<1> QED
  BY <1>5, <1>6

\* With the injected drop in every stage.
LEMMA Dropped ==
    ASSUME FlowInv, phase = 3, scene.enabled, ~scene.lenient, scene.rps >= 10, scene.secs >= 5,
           100 * WrongCount(scene.rps) >= 8 * scene.rps
    PROVE  LET row == BehaviorRow(Journeys, scene.enabled)
           IN  (\A s \in 1..3 : row.checks[s] = "OK") /\ row.observation = "Drop propagated"
<1> DEFINE k == WrongCount(scene.rps)
           c == [s \in 1..3 |-> Share(batch[s], scene.rps, k)]
<1>1. scene.rps \in Nat /\ scene.secs \in Nat
  BY ScenesAreRuns DEF FlowInv
<1>2. k \in Nat \ {0} /\ 10 * k <= scene.rps /\ 100 * k >= 8 * scene.rps
  BY <1>1 DEF WrongCount
<1> HIDE DEF k
<1>3. ASSUME NEW s \in 1..3
      PROVE  batch[s] \in Nat /\ c[s] \in Nat /\ Succeed(s) = batch[s] - c[s]
  <2>1. batch[s] \in Nat
    BY SucceedFits
  <2>2. Cardinality(Corrupted(batch[s])) = c[s]
    BY <1>1, <2>1, CorruptedShare DEF k
  <2>3. c[s] \in Nat
    BY <2>1, <2>2, CorruptedFits
  <2> QED
    BY <2>1, <2>2, <2>3 DEF Succeed
<1>4. \A s \in 1..3 : c[s] = Share(batch[s], scene.rps, k)
  OBVIOUS
<1> HIDE DEF c
<1>5. /\ batch[1] = scene.rps * scene.secs
      /\ batch[2] = batch[1] - c[1] /\ batch[3] = batch[2] - c[2]
  BY <1>3 DEF FlowInv
<1>6. \A s \in 1..3 : Tolerated(batch[s], c[s])
  <2>1. Shrinking(scene.rps, scene.secs, k, batch[1], batch[2], batch[3], c[1], c[2], c[3])
    BY <1>1, <1>2, <1>3, <1>4, <1>5 DEF Shrinking
  <2> QED
    BY <2>1, WithinTolerance
<1>7. ASSUME NEW s \in 1..3
      PROVE  /\ DropAtLeast(Journeys[s], 8) /\ DropAtMost(Journeys[s], 12)
             /\ DropAtLeast(Journeys[s], 2)
  <2>1. Journeys[s].sent = batch[s] /\ Journeys[s].success = batch[s] - c[s]
    BY <1>3, JourneyCounts
  <2> QED
    BY <1>3, <1>6, <2>1 DEF Tolerated, DropAtLeast, DropAtMost
<1>8. \A s \in 1..3 : DropCheck(Journeys[s], scene.enabled) = "OK"
  BY <1>7 DEF DropCheck
<1>9. Observation(Journeys, scene.enabled) = "Drop propagated"
  BY <1>7 DEF Observation
<1> QED
  BY <1>8, <1>9 DEF BehaviorRow

\* A run tells a strict seller from a lenient one (README.md:63): the workbook calls the
\* stages of a run of five seconds or more OK when exactly the injected requests are
\* refused, lower than expected when none is, and a run without injection clean, at every
\* rate whose share is within dropCheck's tolerance and for every duration.
THEOREM InjectionShows == FlowSpec => []InjectionIsVisible
<1>1. FlowInv => InjectionIsVisible
  <2> SUFFICES ASSUME FlowInv, pc = "done" PROVE InjectionIsVisible
    BY DEF InjectionIsVisible
  <2>1. phase = 3 /\ scene \in Scenes
    BY DEF FlowInv
  <2>2. scene.enabled \in BOOLEAN /\ scene.lenient \in BOOLEAN
    BY <2>1, ScenesAreRuns
  <2>3. CASE ~scene.enabled \/ scene.lenient
    <3>1. \A n \in Nat : ~scene.enabled => Cardinality(Corrupted(n)) = 0
      BY FS_EmptySet DEF Corrupted, ShouldCorrupt
    <3>2. \A s \in 1..3 : batch[s] \in Nat
      BY <2>1, SucceedFits
    <3>3. \A s \in 1..3 : Succeed(s) = batch[s]
      BY <2>3, <3>1, <3>2 DEF Succeed
    <3> QED
      BY <2>1, <2>2, <2>3, <3>3, Undropped DEF InjectionIsVisible
  <2>4. CASE scene.enabled /\ ~scene.lenient
    BY <2>1, <2>4, Dropped DEF InjectionIsVisible
  <2> QED
    BY <2>2, <2>3, <2>4
<1> QED
  BY <1>1, FlowInvHolds, PTL

\* Of the last rps requests of any batch of a run, as many are corrupted as the README
\* says (README.md:176-178), although the batches shrink from stage to stage and their seconds
\* start elsewhere: what ShouldCorrupt decides by the index alone.
THEOREM SharesAreInjected == FlowSpec => []InjectedShare
<1>1. FlowInv => InjectedShare
  <2> SUFFICES ASSUME FlowInv, NEW s \in DOMAIN batch, batch[s] >= scene.rps, scene.enabled
               PROVE  Cardinality(Corrupted(batch[s]) \cap (batch[s] - scene.rps)..batch[s])
                        = IF scene.rps = 1 THEN 0
                          ELSE IF scene.rps < 10 THEN 1 ELSE (scene.rps * 10) \div 100
    BY DEF InjectedShare
  <2> DEFINE n == batch[s]
             rps == scene.rps
             start == n - rps
  <2>1. n \in Nat /\ rps \in Nat \ {0} /\ start \in Nat
    BY ScenesAreRuns DEF FlowInv
  <2>2. Corrupted(n) = {i \in 0..(n - 1) : ShouldCorrupt(TRUE, rps, i)}
    BY DEF Corrupted, ShouldCorrupt
  <2>3. n = start + rps
    BY <2>1
  <2> HIDE DEF n, rps, start
  <2>4. 0..(n - 1) \cap start..n = start..(start + rps - 1)
    BY <2>1, <2>3
  <2>5. Corrupted(n) \cap start..n = {i \in start..(start + rps - 1) : ShouldCorrupt(TRUE, rps, i)}
    BY <2>2, <2>4
  <2>6. Cardinality({i \in start..(start + rps - 1) : ShouldCorrupt(TRUE, rps, i)})
          = IF rps = 1 THEN 0 ELSE IF rps < 10 THEN 1 ELSE (rps * 10) \div 100
    BY <2>1, ShareOfSecond
  <2> QED
    BY <2>5, <2>6 DEF n, rps, start
<1> QED
  BY <1>1, FlowInvHolds, PTL

-----------------------------------------------------------------------------
(* OrderFlow: what the requests of a run say.                              *)
(*                                                                         *)
(* OrderInv follows the order of one transaction from stage to stage: it has *)
(* at least one item and one fulfillment (Shaped); once it was corrupted it *)
(* names something wrong (Wronged), and until then it is Clean, which says *)
(* what the select took from the catalog and what init and confirm repeat. *)

OrderFields == {"id", "state", "billing", "amount", "price", "breakup", "provider", "items",
                "fulfillments"}
ItemFields == {"id", "count", "fulfillment_id", "location_id"}
FulfillmentFields == {"id", "end"}

\* An order has at least one item and one fulfillment, with all their members.
Shaped(o) ==
    /\ DOMAIN o = OrderFields /\ DOMAIN o.provider = {"id", "locations"}
    /\ \E n \in Nat \ {0} : DOMAIN o.items = 1..n
    /\ \E n \in Nat \ {0} : DOMAIN o.fulfillments = 1..n
    /\ \A k \in DOMAIN o.items : DOMAIN o.items[k] = ItemFields
    /\ \A k \in DOMAIN o.fulfillments : DOMAIN o.fulfillments[k] = FulfillmentFields

\* An error that was injected is still there.
Wronged(o) ==
    o.provider.id = "wrong-provider-id" \/ o.fulfillments[1].id = "wrong-fulfillment-id"

\* Every item is delivered by a fulfillment of the order from a location of the provider.
Served(o) ==
    \A k \in DOMAIN o.items :
        /\ DefaultFulfillmentId(scene.prov) # Empty =>
            \E m \in DOMAIN o.fulfillments : o.items[k].fulfillment_id = o.fulfillments[m].id
        /\ ProviderLocation(scene.prov) # Empty => o.items[k].location_id \in o.provider.locations

\* The end of a fulfillment in a select, an init, a confirm.
EndOf(step, end) ==
    /\ step = 1 => end = ExampleEnd
    /\ step = 2 => end = ExampleEnd
    /\ step = 3 => end.gps = "g" /\ end.area_code = "a" /\ end.person # Nil

\* The items of the select; only one without a name may have lost its quantity.
SameItems(o, p) ==
    /\ DOMAIN o.items = DOMAIN p.items
    /\ \A k \in DOMAIN o.items :
        /\ o.items[k].id = p.items[k].id
        /\ o.items[k].count = IF o.items[k].id = Empty /\ ~scene.counts THEN Nil
                              ELSE p.items[k].count

\* An order nothing was injected into.
Clean(o, sel, step) ==
    /\ Known(o) /\ Served(o)
    /\ step = 1 => \A k \in DOMAIN o.items : o.items[k].count = 2
    /\ \A k \in DOMAIN o.fulfillments : EndOf(step, o.fulfillments[k].end)
    /\ o.state \in OrderStates \cup {Nil}
    /\ step = 1 => o.billing = Nil /\ o.provider # Nil
    /\ step = 2 => o.billing # Nil
    /\ step < 3 => o.id = Nil /\ o.amount = Nil
    /\ step = 3 => o.id = "t" /\ o.amount = "250"
    /\ step > 1 => SameItems(o, sel)

OrderInv ==
    /\ scene \in Scenes /\ phase \in 1..3 /\ tainted \in BOOLEAN
    /\ pc = "build" \/ (phase = 1 /\ pc = "send") => phase = 1 /\ ~tainted
    /\ phase = 1 /\ pc = "answer" => select = order
    /\ pc \in {"send", "answer"} =>
        /\ Shaped(order)
        /\ tainted => Wronged(order)
        /\ ~tainted => Clean(order, select, phase)

-----------------------------------------------------------------------------
(* Numbers, sequences, strings.                                            *)

\* A set of natural numbers has a least element.
LEMMA LeastElement ==
    ASSUME NEW S, S \subseteq Nat, S # {}
    PROVE  Min(S) \in S /\ \A x \in S : Min(S) <= x
<1> DEFINE R == OpToRel(<, Nat)
<1>1. IsWellFoundedOn(R, Nat)
  BY NatLessThanWellFounded
<1>2. \A y, x \in Nat : y < x => <<y, x>> \in R
  BY DEF OpToRel
<1> HIDE DEF R
<1>3. PICK x \in S : \A y \in S : ~ (<<y, x>> \in R)
  BY <1>1, WFMin, Zenon
<1>4. \A y \in S : y \in Nat /\ x \in Nat
  OBVIOUS
<1>5. ASSUME NEW y \in S PROVE x <= y
  <2>1. ~(<<y, x>> \in R)
    BY <1>3
  <2>2. ~(y < x)
    BY <1>2, <1>4, <2>1, Zenon
  <2> QED
    BY <1>4, <2>2
<1> QED
  BY <1>5 DEF Min

\* A bounded one has a greatest.
LEMMA GreatestElement ==
    ASSUME NEW n \in Nat, NEW S, S \subseteq 1..n, S # {}
    PROVE  Max(S) \in S
<1> DEFINE T == {n - x : x \in S}
<1>0. \A x \in S : x \in Nat /\ x <= n
  OBVIOUS
<1>1. T \subseteq Nat /\ T # {}
  <2>1. \A x \in S : n - x \in Nat
    BY <1>0
  <2> QED
    BY <2>1
<1>2. Min(T) \in T /\ \A x \in T : Min(T) <= x
  BY <1>1, LeastElement
<1>3. PICK m \in S : Min(T) = n - m
  BY <1>2
<1>5. ASSUME NEW x \in S PROVE m >= x
  <2>1. n - x \in T
    OBVIOUS
  <2>2. n - m <= n - x
    BY <1>2, <1>3, <2>1
  <2> QED
    BY <1>0, <2>2
<1> QED
  BY <1>5 DEF Max

\* FirstNonEmpty gives an element that is not empty, if there is one.
LEMMA FirstNonEmptyIs ==
    ASSUME NEW n \in Nat, NEW s, DOMAIN s = 1..n
    PROVE  \/ FirstNonEmpty(s) = Empty /\ \A k \in 1..n : s[k] = Empty
           \/ \E k \in 1..n : s[k] # Empty /\ FirstNonEmpty(s) = s[k]
<1> DEFINE named == {k \in DOMAIN s : s[k] # Empty}
<1>1. CASE named = {}
  BY <1>1 DEF FirstNonEmpty
<1>2. CASE named # {}
  <2>0. named \subseteq Nat
    OBVIOUS
  <2> HIDE DEF named
  <2>1. Min(named) \in named
    BY <1>2, <2>0, LeastElement
  <2>2. FirstNonEmpty(s) = s[Min(named)]
    BY <1>2 DEF FirstNonEmpty, named
  <2> QED
    BY <2>1, <2>2 DEF named
<1> QED
  BY <1>1, <1>2

\* Of two it is the first, unless that is empty.
LEMMA FirstOfTwo ==
    ASSUME NEW a, NEW b
    PROVE  FirstNonEmpty(<<a, b>>) = IF a # Empty THEN a ELSE b
<1> DEFINE s == <<a, b>>
           named == {k \in DOMAIN s : s[k] # Empty}
<1>1. DOMAIN s = 1..2 /\ s[1] = a /\ s[2] = b
  OBVIOUS
<1>2. named \subseteq 1..2 /\ named \subseteq Nat
  BY <1>1
<1>3. (1 \in named <=> a # Empty) /\ (2 \in named <=> b # Empty)
  BY <1>1
<1>4. FirstNonEmpty(s) = IF named = {} THEN Empty ELSE s[Min(named)]
  BY DEF FirstNonEmpty
<1> HIDE DEF s, named
<1>5. CASE named = {}
  BY <1>3, <1>4, <1>5 DEF s
<1>6. CASE named # {}
  <2>1. Min(named) \in named /\ \A x \in named : Min(named) <= x
    BY <1>2, <1>6, LeastElement
  <2>2. PICK m \in 1..2 : m = Min(named)
    BY <1>2, <2>1
  <2>3. 1 \in named => m = 1
    BY <2>1, <2>2
  <2>4. FirstNonEmpty(s) = IF a # Empty THEN a ELSE b
    BY <1>1, <1>3, <1>4, <1>6, <2>1, <2>2, <2>3
  <2> QED
    BY <2>4 DEF s
<1> QED
  BY <1>5, <1>6

\* What is computed for the members of a finite set is a finite set.
LEMMA FiniteImage ==
    ASSUME NEW K, IsFiniteSet(K), NEW f, f = [k \in K |-> f[k]]
    PROVE  IsFiniteSet({f[k] : k \in K})
<1>1. f \in Surjection(K, {f[k] : k \in K})
  BY DEF Surjection
<1> QED
  BY <1>1, FS_Surjection

\* SetToSeq lists a finite set.
LEMMA SetToSeqLists ==
    ASSUME NEW S, IsFiniteSet(S), S # {}
    PROVE  /\ DOMAIN SetToSeq(S) = 1..Cardinality(S) /\ Cardinality(S) \in Nat \ {0}
           /\ \A k \in 1..Cardinality(S) : SetToSeq(S)[k] \in S
           /\ \A x \in S : \E k \in 1..Cardinality(S) : SetToSeq(S)[k] = x
<1> DEFINE n == Cardinality(S)
           q == SetToSeq(S)
<1>1. n \in Nat /\ ExistsBijection(1..n, S)
  BY FS_CardinalityType
<1>2. n # 0
  BY FS_EmptySet
<1>3. IsFiniteSet(1..n) /\ Cardinality(1..n) = n
  BY <1>1, <1>2, FS_Interval
<1> HIDE DEF n
<1>4. PICK f \in [1..n -> S] : IsInjective(f)
  BY <1>1 DEF ExistsBijection, Bijection, Injection
<1>5. q \in [1..n -> S] /\ IsInjective(q)
  BY <1>4 DEF SetToSeq, n
<1> HIDE DEF q
<1>6. q \in Injection(1..n, S)
  BY <1>5 DEF Injection
<1>7. q \in Surjection(1..n, S)
  BY <1>3, <1>6, FS_Injection DEF n
<1> QED
  BY <1>1, <1>2, <1>5, <1>7 DEF Surjection, n, q

\* The empty string is no name that the example uses.
LEMMA EmptyIsNoName == Empty # "g" /\ Empty # "a" /\ Empty # "fx" /\ TestBuyer # Empty
<1>1. Empty # "g"
  BY Zenon DEF Empty
<1>2. Empty # "a"
  BY Zenon DEF Empty
<1>3. Empty # "fx"
  BY Zenon DEF Empty
<1>4. TestBuyer # Empty
  BY Zenon DEF Empty, TestBuyer
<1> QED
  BY <1>1, <1>2, <1>3, <1>4

-----------------------------------------------------------------------------
(* The operators of OrderPayloads and the answer of the seller.            *)

\* p with other quantities, places, prices and so on, but the same names.
SameNames(o, p) ==
    /\ DOMAIN o = OrderFields /\ o.provider = p.provider
    /\ DOMAIN o.items = DOMAIN p.items /\ DOMAIN o.fulfillments = DOMAIN p.fulfillments
    /\ \A k \in DOMAIN p.items :
        /\ DOMAIN o.items[k] = ItemFields
        /\ o.items[k].id = p.items[k].id
        /\ o.items[k].fulfillment_id = p.items[k].fulfillment_id
        /\ o.items[k].location_id = p.items[k].location_id
    /\ \A k \in DOMAIN p.fulfillments :
        /\ DOMAIN o.fulfillments[k] = FulfillmentFields
        /\ o.fulfillments[k].id = p.fulfillments[k].id

\* What an order is known by is its names.
LEMMA NamesDecide ==
    ASSUME NEW o, NEW p, Shaped(p), SameNames(o, p)
    PROVE  /\ Shaped(o)
           /\ Wronged(p) => Wronged(o)
           /\ Known(p) => Known(o)
           /\ Served(p) => Served(o)
<1>1. Shaped(o)
  BY DEF Shaped, SameNames
<1>2. Wronged(p) => Wronged(o)
  BY DEF Shaped, SameNames, Wronged
<1>3. Ids(o.items) = Ids(p.items) /\ Ids(o.fulfillments) = Ids(p.fulfillments)
  BY DEF SameNames, Ids
<1>4. o.provider = p.provider
  BY DEF SameNames
<1>5. Known(p) => Known(o)
  <2>1. /\ {o.items[k].fulfillment_id : k \in DOMAIN o.items}
            = {p.items[k].fulfillment_id : k \in DOMAIN p.items}
        /\ {o.items[k].location_id : k \in DOMAIN o.items}
            = {p.items[k].location_id : k \in DOMAIN p.items}
    BY DEF SameNames
  <2> QED
    BY <1>3, <1>4, <2>1 DEF Known
<1>6. Served(p) => Served(o)
  BY DEF SameNames, Served
<1> QED
  BY <1>1, <1>2, <1>5, <1>6

\* The answer of the seller has the names of what was sent; its quote has the quantities,
\* and only on_select leaves quantities and places out.
LEMMA AnswerKeeps ==
    ASSUME NEW o, Shaped(o), phase \in 1..3
    PROVE  /\ SameNames(Answer(o), o)
           /\ Answer(o).id = o.id /\ Answer(o).state = o.state
           /\ Answer(o).amount = o.amount /\ Answer(o).price = "250"
           /\ Answer(o).billing = IF scene.name = Empty THEN o.billing ELSE scene.name
           /\ Answer(o).breakup
                = [k \in DOMAIN o.items |-> [id |-> o.items[k].id, count |-> o.items[k].count]]
           /\ \A k \in DOMAIN o.items :
                Answer(o).items[k].count = IF scene.counts \/ phase > 1 THEN o.items[k].count
                                           ELSE Nil
           /\ \A k \in DOMAIN o.fulfillments :
                \/ Answer(o).fulfillments[k].end = o.fulfillments[k].end
                \/ phase = 1 /\ Answer(o).fulfillments[k].end = Nil
<1> DEFINE a == Answer(o)
           items == [k \in DOMAIN o.items |-> IF scene.counts \/ phase > 1 THEN o.items[k]
                                              ELSE [o.items[k] EXCEPT !.count = Nil]]
           fulfillments == [k \in DOMAIN o.fulfillments |->
                              IF scene.ends \/ phase > 1 THEN o.fulfillments[k]
                              ELSE [o.fulfillments[k] EXCEPT !.end = Nil]]
<1>1. DOMAIN o = OrderFields
  BY DEF Shaped
<1>2. /\ DOMAIN a = OrderFields
      /\ a.id = o.id /\ a.state = o.state /\ a.amount = o.amount /\ a.price = "250"
      /\ a.provider = o.provider
  BY <1>1 DEF Answer, OrderFields
<1>3. /\ a.billing = IF scene.name = Empty THEN o.billing ELSE scene.name
      /\ a.breakup = [k \in DOMAIN o.items |-> [id |-> o.items[k].id, count |-> o.items[k].count]]
  BY <1>1 DEF Answer, OrderFields
<1>4. a.items = items /\ a.fulfillments = fulfillments
  BY <1>1 DEF Answer, OrderFields
<1>5. ASSUME NEW k \in DOMAIN o.items
      PROVE  /\ DOMAIN items[k] = ItemFields
             /\ items[k].id = o.items[k].id
             /\ items[k].fulfillment_id = o.items[k].fulfillment_id
             /\ items[k].location_id = o.items[k].location_id
             /\ items[k].count = IF scene.counts \/ phase > 1 THEN o.items[k].count ELSE Nil
  <2>1. DOMAIN o.items[k] = ItemFields
    BY DEF Shaped
  <2> QED
    BY <2>1 DEF ItemFields
<1>6. ASSUME NEW k \in DOMAIN o.fulfillments
      PROVE  /\ DOMAIN fulfillments[k] = FulfillmentFields
             /\ fulfillments[k].id = o.fulfillments[k].id
             /\ \/ fulfillments[k].end = o.fulfillments[k].end
                \/ phase = 1 /\ fulfillments[k].end = Nil
  <2>1. DOMAIN o.fulfillments[k] = FulfillmentFields
    BY DEF Shaped
  <2> QED
    BY <2>1 DEF FulfillmentFields
<1>7. DOMAIN items = DOMAIN o.items /\ DOMAIN fulfillments = DOMAIN o.fulfillments
  OBVIOUS
<1> HIDE DEF a, items, fulfillments
<1>8. SameNames(a, o)
  BY <1>2, <1>4, <1>5, <1>6, <1>7 DEF SameNames
<1> QED
  BY <1>2, <1>3, <1>4, <1>5, <1>6, <1>8 DEF a

\* EnrichInit keeps the names, and what it fills in.
LEMMA EnrichInitKeeps ==
    ASSUME NEW o, Shaped(o), NEW sel
    PROVE  LET e == EnrichInit(o, sel)
           IN  /\ SameNames(e, o)
               /\ e.id = o.id /\ e.state = o.state /\ e.amount = o.amount
               /\ e.billing = IF o.billing = Nil THEN TestBuyer ELSE o.billing
               /\ \A k \in DOMAIN o.items : e.items[k].count = ItemCount(o, o.items[k])
               /\ \A k \in DOMAIN o.fulfillments :
                    e.fulfillments[k].end = InitEnd(o.fulfillments[k].end, sel)
<1> DEFINE e == EnrichInit(o, sel)
           items == [k \in DOMAIN o.items |->
                       [o.items[k] EXCEPT !.count = ItemCount(o, o.items[k])]]
           fulfillments == [k \in DOMAIN o.fulfillments |->
                       [o.fulfillments[k] EXCEPT
                           !.end = InitEnd(o.fulfillments[k].end, sel)]]
<1>1. DOMAIN o = OrderFields
  BY DEF Shaped
<1>2. /\ DOMAIN e = OrderFields
      /\ e.id = o.id /\ e.state = o.state /\ e.amount = o.amount
      /\ e.provider = o.provider
  BY <1>1 DEF EnrichInit, OrderFields
<1>3. e.billing = IF o.billing = Nil THEN TestBuyer ELSE o.billing
  BY <1>1 DEF EnrichInit, OrderFields
<1>4. e.items = items /\ e.fulfillments = fulfillments
  BY <1>1 DEF EnrichInit, OrderFields
<1>5. ASSUME NEW k \in DOMAIN o.items
      PROVE  /\ DOMAIN items[k] = ItemFields
             /\ items[k].id = o.items[k].id
             /\ items[k].fulfillment_id = o.items[k].fulfillment_id
             /\ items[k].location_id = o.items[k].location_id
             /\ items[k].count = ItemCount(o, o.items[k])
  <2>1. DOMAIN o.items[k] = ItemFields
    BY DEF Shaped
  <2> QED
    BY <2>1 DEF ItemFields
<1>6. ASSUME NEW k \in DOMAIN o.fulfillments
      PROVE  /\ DOMAIN fulfillments[k] = FulfillmentFields
             /\ fulfillments[k].id = o.fulfillments[k].id
             /\ fulfillments[k].end = InitEnd(o.fulfillments[k].end, sel)
  <2>1. DOMAIN o.fulfillments[k] = FulfillmentFields
    BY DEF Shaped
  <2> QED
    BY <2>1 DEF FulfillmentFields
<1>7. DOMAIN items = DOMAIN o.items /\ DOMAIN fulfillments = DOMAIN o.fulfillments
  OBVIOUS
<1> HIDE DEF e, items, fulfillments
<1>8. SameNames(e, o)
  BY <1>2, <1>4, <1>5, <1>6, <1>7 DEF SameNames
<1> QED
  BY <1>2, <1>3, <1>4, <1>5, <1>6, <1>8 DEF e

\* EnrichConfirm keeps the names, and makes the state one that the protocol knows.
LEMMA EnrichConfirmKeeps ==
    ASSUME NEW o, Shaped(o), NEW txn
    PROVE  LET e == EnrichConfirm(o, txn)
           IN  /\ SameNames(e, o)
               /\ e.state \in OrderStates
               /\ o.id = Nil => e.id = txn
               /\ e.amount = ConfirmAmount(o)
               /\ \A k \in DOMAIN o.items : e.items[k] = o.items[k]
               /\ \A k \in DOMAIN o.fulfillments :
                    e.fulfillments[k].end = ConfirmEnd(o.fulfillments[k].end, o.billing)
<1> DEFINE e == EnrichConfirm(o, txn)
           fulfillments == [k \in DOMAIN o.fulfillments |->
                       [o.fulfillments[k] EXCEPT
                           !.end = ConfirmEnd(o.fulfillments[k].end, o.billing)]]
<1>1. DOMAIN o = OrderFields
  BY DEF Shaped
<1>2. /\ DOMAIN e = OrderFields /\ e.provider = o.provider /\ e.items = o.items
      /\ e.amount = ConfirmAmount(o)
  BY <1>1 DEF EnrichConfirm, OrderFields
<1>3. e.state \in OrderStates /\ (o.id = Nil => e.id = txn)
  BY <1>1 DEF EnrichConfirm, OrderFields, OrderStates
<1>4. e.fulfillments = fulfillments
  BY <1>1 DEF EnrichConfirm, OrderFields
<1>5. \A k \in DOMAIN o.items : DOMAIN o.items[k] = ItemFields
  BY DEF Shaped
<1>6. ASSUME NEW k \in DOMAIN o.fulfillments
      PROVE  /\ DOMAIN fulfillments[k] = FulfillmentFields
             /\ fulfillments[k].id = o.fulfillments[k].id
             /\ fulfillments[k].end = ConfirmEnd(o.fulfillments[k].end, o.billing)
  <2>1. DOMAIN o.fulfillments[k] = FulfillmentFields
    BY DEF Shaped
  <2> QED
    BY <2>1 DEF FulfillmentFields
<1>7. DOMAIN fulfillments = DOMAIN o.fulfillments
  OBVIOUS
<1> HIDE DEF e, fulfillments
<1>8. SameNames(e, o)
  BY <1>2, <1>4, <1>5, <1>6, <1>7 DEF SameNames
<1> QED
  BY <1>2, <1>3, <1>4, <1>6, <1>8 DEF e

\* NormalizeSelect accepts an order that says where to deliver and by what, and
\* leaves what it says.
LEMMA NormalizeSelectKeeps ==
    ASSUME NEW o, Shaped(o), o.items = [k \in DOMAIN o.items |-> o.items[k]],
           \A k \in DOMAIN o.items : o.items[k].fulfillment_id # Nil,
           \A k \in DOMAIN o.fulfillments : o.fulfillments[k].end = ExampleEnd
    PROVE  LET e == NormalizeSelect(o)
           IN  /\ SameNames(e, o)
               /\ e.id = o.id /\ e.state = o.state /\ e.amount = o.amount
               /\ e.billing = o.billing
               /\ e.items = o.items
               /\ \A k \in DOMAIN o.fulfillments : e.fulfillments[k].end = ExampleEnd
<1> DEFINE e == NormalizeSelect(o)
<1>1. DOMAIN o = OrderFields
  BY DEF Shaped
<1>2. ExampleEnd # Nil /\ Empty \notin {ExampleEnd.gps, ExampleEnd.area_code}
  <2>1. ExampleEnd # Nil
    BY NilIsAbsent
  <2>2. ExampleEnd.gps = "g" /\ ExampleEnd.area_code = "a"
    BY DEF ExampleEnd
  <2> QED
    BY <2>1, <2>2, EmptyIsNoName
<1>3. ~ \E k \in DOMAIN o.fulfillments :
          ~ (/\ o.fulfillments[k].end # Nil
             /\ Empty \notin {o.fulfillments[k].end.gps, o.fulfillments[k].end.area_code})
  BY <1>2
<1>4. DOMAIN e = OrderFields
  BY <1>1, <1>3 DEF NormalizeSelect, OrderFields
<1>5. e.id = o.id /\ e.state = o.state /\ e.amount = o.amount /\ e.provider = o.provider
      /\ e.billing = o.billing
  BY <1>1, <1>3 DEF NormalizeSelect, OrderFields
<1>6. e.items = [k \in DOMAIN o.items |->
                    IF o.items[k].fulfillment_id = Nil /\ FirstNonEmpty(Ids(o.fulfillments)) # Empty
                    THEN [o.items[k] EXCEPT !.fulfillment_id = FirstNonEmpty(Ids(o.fulfillments))]
                    ELSE o.items[k]]
  BY <1>1, <1>3 DEF NormalizeSelect, OrderFields
<1>7. e.items = o.items
  BY <1>6
<1>8. e.fulfillments = o.fulfillments
  BY <1>1, <1>3 DEF NormalizeSelect, OrderFields
<1> HIDE DEF e
<1>9. SameNames(e, o)
  BY <1>4, <1>5, <1>7, <1>8 DEF SameNames, Shaped
<1> QED
  BY <1>5, <1>7, <1>8, <1>9 DEF e

\* What is injected shows: in each stage one of the names that are looked at is wrong.
LEMMA CorruptedIsWronged ==
    ASSUME NEW o, Shaped(o), NEW step \in 1..3, step = 1 => o.provider # Nil
    PROVE  /\ Shaped(CorruptForStage(Actions[step], o))
           /\ Wronged(CorruptForStage(Actions[step], o))
<1> DEFINE c == CorruptForStage(Actions[step], o)
<1>1. DOMAIN o = OrderFields /\ DOMAIN o.provider = {"id", "locations"}
  BY DEF Shaped
<1>2. /\ o.items # <<>> /\ o.fulfillments # <<>>
      /\ 1 \in DOMAIN o.items /\ 1 \in DOMAIN o.fulfillments
      /\ DOMAIN o.items[1] = ItemFields /\ DOMAIN o.fulfillments[1] = FulfillmentFields
  BY DEF Shaped
<1>3. Actions[1] = "select" /\ Actions[2] = "init" /\ Actions[3] = "confirm"
  BY DEF Actions
<1> DEFINE items == [o.items EXCEPT ![1] = [o.items[1] EXCEPT !.id = "wrong-item-id"]]
           fulfillments == [o.fulfillments EXCEPT ![1] =
                              [o.fulfillments[1] EXCEPT !.id = "wrong-fulfillment-id"]]
<1>4. /\ DOMAIN items = DOMAIN o.items
      /\ \A k \in DOMAIN o.items : DOMAIN items[k] = ItemFields
  BY <1>2 DEF Shaped
<1>5. /\ DOMAIN fulfillments = DOMAIN o.fulfillments
      /\ \A k \in DOMAIN o.fulfillments : DOMAIN fulfillments[k] = FulfillmentFields
      /\ fulfillments[1].id = "wrong-fulfillment-id"
  BY <1>2 DEF Shaped, FulfillmentFields
<1>6. CASE step = 1
  <2>1. c = [o EXCEPT !.items[1].id = "wrong-item-id", !.provider.id = "wrong-provider-id"]
    BY <1>2, <1>3, <1>6 DEF CorruptForStage
  <2>2. /\ DOMAIN c = OrderFields /\ c.items = items /\ c.fulfillments = o.fulfillments
        /\ c.provider = [o.provider EXCEPT !.id = "wrong-provider-id"]
    BY <1>1, <2>1 DEF OrderFields
  <2>3. DOMAIN c.provider = {"id", "locations"} /\ c.provider.id = "wrong-provider-id"
    BY <1>1, <2>2
  <2> HIDE DEF c, items
  <2>4. Shaped(c)
    BY <1>4, <2>2, <2>3 DEF Shaped
  <2> QED
    BY <2>3, <2>4 DEF Wronged, c
<1>7. CASE step = 2
  <2>1. c = [o EXCEPT !.items[1].id = "wrong-item-id",
                      !.fulfillments[1].id = "wrong-fulfillment-id"]
    BY <1>2, <1>3, <1>7 DEF CorruptForStage
  <2>2. /\ DOMAIN c = OrderFields /\ c.items = items /\ c.fulfillments = fulfillments
        /\ c.provider = o.provider
    BY <1>1, <2>1 DEF OrderFields
  <2> HIDE DEF c, items, fulfillments
  <2>3. Shaped(c)
    BY <1>1, <1>4, <1>5, <2>2 DEF Shaped
  <2> QED
    BY <1>5, <2>2, <2>3 DEF Wronged, c
<1>8. CASE step = 3
  <2>1. c = [o EXCEPT !.fulfillments[1].id = "wrong-fulfillment-id", !.state = "xyz"]
    BY <1>2, <1>3, <1>8 DEF CorruptForStage
  <2>2. /\ DOMAIN c = OrderFields /\ c.items = o.items /\ c.fulfillments = fulfillments
        /\ c.provider = o.provider
    BY <1>1, <2>1 DEF OrderFields
  <2> HIDE DEF c, fulfillments
  <2>3. Shaped(c)
    BY <1>1, <1>5, <2>2 DEF Shaped
  <2> QED
    BY <1>5, <2>2, <2>3 DEF Wronged, c
<1> QED
  BY <1>6, <1>7, <1>8

-----------------------------------------------------------------------------
(* A select made from a catalog.                                           *)

\* The elements of a sequence.
LEMMA SeqElements ==
    ASSUME NEW T, NEW q \in Seq(T)
    PROVE  Len(q) \in Nat /\ DOMAIN q = 1..Len(q) /\ \A j \in 1..Len(q) : q[j] \in T
OBVIOUS

\* The catalog of a scene has at least one item, and its names are not those of the errors.
LEMMA ShopNames ==
    ASSUME NEW s \in Scenes
    PROVE  /\ s.prov.id \in Text
           /\ s.prov.items \in Seq([id : Text, location_id : STRING, fulfillment_id : Text])
           /\ Len(s.prov.items) \in Nat \ {0} /\ DOMAIN s.prov.items = 1..Len(s.prov.items)
           /\ \A j \in DOMAIN s.prov.items :
                /\ s.prov.items[j].id \in Text /\ s.prov.items[j].location_id \in STRING
                /\ s.prov.items[j].fulfillment_id \in Text
           /\ Len(s.prov.fulfillments) \in Nat
           /\ DOMAIN s.prov.fulfillments = 1..Len(s.prov.fulfillments)
           /\ \A j \in DOMAIN s.prov.fulfillments : s.prov.fulfillments[j].id \in Text
<1>1. /\ s.prov.id \in Text
      /\ s.prov.items \in Seq([id : Text, location_id : STRING, fulfillment_id : Text])
      /\ s.prov.items # <<>>
      /\ s.prov.fulfillments \in Seq([id : Text])
  BY ScenesAreShops
<1> HIDE DEF Text
<1>2. Len(s.prov.items) # 0
  BY <1>1
<1>3. /\ Len(s.prov.items) \in Nat /\ DOMAIN s.prov.items = 1..Len(s.prov.items)
      /\ \A j \in 1..Len(s.prov.items) :
            s.prov.items[j] \in [id : Text, location_id : STRING, fulfillment_id : Text]
  BY <1>1, SeqElements
<1>4. /\ Len(s.prov.fulfillments) \in Nat
      /\ DOMAIN s.prov.fulfillments = 1..Len(s.prov.fulfillments)
      /\ \A j \in 1..Len(s.prov.fulfillments) :
            s.prov.fulfillments[j] \in [id : Text]
  BY <1>1, SeqElements
<1> QED
  BY <1>1, <1>2, <1>3, <1>4

\* The first location of a provider is one of the catalog, if it is not empty.
LEMMA LocationIsName ==
    ASSUME NEW s \in Scenes
    PROVE  /\ ProviderLocation(s.prov) \in STRING \cup {Empty}
           /\ ProviderLocation(s.prov) \in Locations(s.prov) \cup {Empty}
<1>1. s.prov.locations \in Seq(STRING)
  BY ScenesAreShops
<1> DEFINE ls == s.prov.locations
<1> HIDE DEF ls
<1>2. CASE ls = <<>>
  <2>1. Head(ls \o <<Empty>>) = Empty
    BY <1>2
  <2> QED
    BY <2>1 DEF ProviderLocation, ls
<1>3. CASE ls # <<>>
  <2>1. Len(ls) \in Nat \ {0} /\ ls[1] \in STRING
    BY <1>1, <1>3 DEF ls
  <2>2. ls \in Seq(STRING \cup {Empty}) /\ <<Empty>> \in Seq(STRING \cup {Empty})
    BY <1>1 DEF ls
  <2>3. (ls \o <<Empty>>)[1] = ls[1]
    BY <2>1, <2>2
  <2>4. Head(ls \o <<Empty>>) = ls[1]
    BY <2>1, <2>2, <2>3
  <2>5. ls[1] \in Range(ls)
    BY <2>1 DEF Range
  <2> QED
    BY <2>1, <2>4, <2>5 DEF ProviderLocation, Locations, ls
<1> QED
  BY <1>2, <1>3

\* The fulfillment an item asks for, or the first of the provider that has a name.
LEMMA FulfillmentOfItem ==
    ASSUME NEW s \in Scenes, NEW j \in DOMAIN s.prov.items
    PROVE  LET id == FulfillmentId(s.prov, s.prov.items[j])
           IN  /\ id # Nil
               /\ DefaultFulfillmentId(s.prov) # Empty => id # Empty
               /\ id # Empty => \/ id = s.prov.items[j].fulfillment_id
                                \/ \E m \in DOMAIN s.prov.fulfillments :
                                      id = s.prov.fulfillments[m].id
<1> DEFINE fs == s.prov.fulfillments
           default == DefaultFulfillmentId(s.prov)
           own == s.prov.items[j].fulfillment_id
<1>1. FulfillmentId(s.prov, s.prov.items[j]) = IF own # Empty THEN own ELSE default
  BY FirstOfTwo DEF FulfillmentId
<1>2. Len(fs) \in Nat /\ DOMAIN fs = 1..Len(fs) /\ own \in Text
      /\ \A m \in DOMAIN fs : fs[m].id \in Text
  BY ShopNames
<1>3. DOMAIN Ids(fs) = 1..Len(fs) /\ \A m \in 1..Len(fs) : Ids(fs)[m] = fs[m].id
  BY <1>2 DEF Ids
<1>4. default = FirstNonEmpty(Ids(fs))
  BY DEF DefaultFulfillmentId
<1> HIDE DEF fs, default, own
<1>5. default = Empty \/ \E m \in 1..Len(fs) : default = fs[m].id
  BY <1>2, <1>3, <1>4, FirstNonEmptyIs
<1>6. own # Nil /\ Empty # Nil /\ \A m \in DOMAIN fs : fs[m].id # Nil
  BY <1>2, NilIsAbsent DEF Text
<1> QED
  BY <1>1, <1>2, <1>5, <1>6 DEF fs, default, own

\* The items of an order made from the catalog.
LEMMA CatalogItems ==
    ASSUME NEW s \in Scenes, NEW chosen \in Chosen(s.prov)
    PROVE  /\ \E n \in Nat \ {0} : DOMAIN chosen = 1..n
           /\ \A k \in DOMAIN chosen :
                LET j == chosen[k]
                    item == OrderItem(s.prov, s.prov.items[j])
                IN  /\ j \in DOMAIN s.prov.items
                    /\ DOMAIN item = ItemFields
                    /\ item.id = s.prov.items[j].id /\ item.count = 2
                    /\ item.fulfillment_id = FulfillmentId(s.prov, s.prov.items[j])
                    /\ item.location_id \in STRING \cup {Empty}
                    /\ item.location_id \in Locations(s.prov) \cup {Empty}
                    /\ ProviderLocation(s.prov) # Empty =>
                        item.location_id = ProviderLocation(s.prov)
<1>1. Len(s.prov.items) \in Nat \ {0}
  BY ShopNames
<1>2. PICK n \in 1..MaxItemsPerOrder(s.prov) : chosen \in Injection(1..n, DOMAIN s.prov.items)
  BY DEF Chosen
<1>3. n \in Nat \ {0}
  BY <1>1, <1>2 DEF MaxItemsPerOrder
<1>4. chosen \in [1..n -> DOMAIN s.prov.items]
  BY <1>2 DEF Injection
<1>5. ASSUME NEW k \in DOMAIN chosen
      PROVE  LET j == chosen[k]
                 item == OrderItem(s.prov, s.prov.items[j])
             IN  /\ j \in DOMAIN s.prov.items
                 /\ DOMAIN item = ItemFields
                 /\ item.id = s.prov.items[j].id /\ item.count = 2
                 /\ item.fulfillment_id = FulfillmentId(s.prov, s.prov.items[j])
                 /\ item.location_id \in STRING \cup {Empty}
                 /\ item.location_id \in Locations(s.prov) \cup {Empty}
                 /\ ProviderLocation(s.prov) # Empty =>
                     item.location_id = ProviderLocation(s.prov)
  <2> DEFINE j == chosen[k]
             item == OrderItem(s.prov, s.prov.items[j])
             place == ProviderLocation(s.prov)
  <2>1. j \in DOMAIN s.prov.items
    BY <1>4
  <2>2. /\ DOMAIN item = ItemFields /\ item.id = s.prov.items[j].id /\ item.count = 2
        /\ item.fulfillment_id = FulfillmentId(s.prov, s.prov.items[j])
        /\ item.location_id = FirstNonEmpty(<<place, s.prov.items[j].location_id>>)
    BY DEF OrderItem, ItemFields
  <2>3. item.location_id = IF place # Empty THEN place ELSE s.prov.items[j].location_id
    BY <2>2, FirstOfTwo
  <2>4. s.prov.items[j].location_id \in STRING /\ s.prov.items[j].location_id \in Locations(s.prov)
    BY <2>1, ShopNames DEF Locations
  <2>5. place \in STRING \cup {Empty} /\ place \in Locations(s.prov) \cup {Empty}
    BY LocationIsName
  <2> QED
    BY <2>1, <2>2, <2>3, <2>4, <2>5
<1> QED
  BY <1>3, <1>4, <1>5

\* The fulfillments of an order: those its items ask for.
UsedList(f, ids) == SetToSeq({[f EXCEPT !.id = id] : id \in ids})

\* One for each name, like that of the example in all else.
LEMMA ListOfUsed ==
    ASSUME NEW ids, IsFiniteSet(ids), ids # {}, NEW f, DOMAIN f = FulfillmentFields
    PROVE  LET list == UsedList(f, ids)
           IN  /\ \E n \in Nat \ {0} : DOMAIN list = 1..n
               /\ \A k \in DOMAIN list :
                    DOMAIN list[k] = FulfillmentFields /\ list[k].id \in ids /\ list[k].end = f.end
               /\ \A id \in ids : \E k \in DOMAIN list : list[k].id = id
<1> DEFINE entry == [id \in ids |-> [f EXCEPT !.id = id]]
           S == {entry[id] : id \in ids}
<1>1. {[f EXCEPT !.id = id] : id \in ids} = S
  OBVIOUS
<1>3. \A id \in ids : /\ DOMAIN entry[id] = FulfillmentFields
                      /\ entry[id].id = id /\ entry[id].end = f.end
  BY DEF FulfillmentFields
<1>0. entry = [id \in ids |-> entry[id]]
  OBVIOUS
<1> HIDE DEF entry
<1>2. IsFiniteSet(S)
  BY <1>0, FiniteImage
<1>4. S # {}
  OBVIOUS
<1> DEFINE list == SetToSeq(S)
<1>5. /\ DOMAIN list = 1..Cardinality(S) /\ Cardinality(S) \in Nat \ {0}
      /\ \A k \in 1..Cardinality(S) : list[k] \in S
      /\ \A x \in S : \E k \in 1..Cardinality(S) : list[k] = x
  BY <1>2, <1>4, SetToSeqLists
<1> DEFINE n == Cardinality(S)
<1> HIDE DEF list, n
<1>6. \A k \in DOMAIN list :
        DOMAIN list[k] = FulfillmentFields /\ list[k].id \in ids /\ list[k].end = f.end
  BY <1>3, <1>5
<1>7. \A id \in ids : \E k \in DOMAIN list : list[k].id = id
  <2> TAKE id \in ids
  <2>1. entry[id] \in S
    OBVIOUS
  <2>2. PICK k \in DOMAIN list : list[k] = entry[id]
    BY <1>5, <2>1
  <2> QED
    BY <1>3, <2>2
<1>8. UsedList(f, ids) = list
  BY <1>1 DEF UsedList, list
<1> QED
  BY <1>5, <1>6, <1>7, <1>8

\* The order of the example with the items, the provider and the fulfillments of the
\* catalog is an order nothing was injected into.
LEMMA CatalogOrderIsClean ==
    ASSUME scene \in Scenes, NEW chosen \in Chosen(scene.prov), NEW sel
    PROVE  LET o == CatalogOrder(Example, scene.prov, chosen)
           IN  /\ Shaped(o) /\ Clean(o, sel, 1)
               /\ o.items = [k \in DOMAIN o.items |-> o.items[k]]
               /\ \A k \in DOMAIN o.items : o.items[k].fulfillment_id # Nil
<1> DEFINE prov == scene.prov
           o == CatalogOrder(Example, prov, chosen)
           items == [k \in DOMAIN chosen |-> OrderItem(prov, prov.items[chosen[k]])]
           location == ChosenLocation(items)
           used == {items[k].fulfillment_id : k \in DOMAIN items} \ {Empty}
           sample == Example.fulfillments[1]
           list == UsedList(sample, used)
           provider == [id |-> prov.id,
                        locations |-> IF location = Empty THEN Example.provider.locations
                                      ELSE {location}]
<1>1. DOMAIN Example = OrderFields
  BY DEF Example, OrderFields
<1>2. /\ Example.id = Nil /\ Example.state = Nil /\ Example.billing = Nil
      /\ Example.amount = Nil /\ Example.provider.locations = {"lx"}
  BY DEF Example
<1>3. /\ DOMAIN Example.fulfillments = 1..1 /\ DOMAIN sample = FulfillmentFields
      /\ sample.id = "fx" /\ sample.end = ExampleEnd
  BY DEF Example, FulfillmentFields
<1> HIDE DEF sample
<1>4. o = [Example EXCEPT !.items = items, !.provider = provider,
                          !.fulfillments = IF used = {} THEN Example.fulfillments ELSE list]
  BY DEF CatalogOrder, UsedList, sample
<1> HIDE DEF o, items, list, provider, used, location
<1>5. /\ DOMAIN o = OrderFields /\ o.items = items /\ o.provider = provider
      /\ o.fulfillments = IF used = {} THEN Example.fulfillments ELSE list
      /\ o.id = Nil /\ o.state = Nil /\ o.billing = Nil /\ o.amount = Nil
  BY <1>1, <1>2, <1>4 DEF OrderFields
<1>6. PICK n \in Nat \ {0} : DOMAIN chosen = 1..n
  BY CatalogItems
<1>7. DOMAIN items = 1..n /\ items = [k \in DOMAIN items |-> items[k]]
  BY <1>6 DEF items
<1>8. ASSUME NEW k \in 1..n
      PROVE  /\ chosen[k] \in DOMAIN prov.items
             /\ DOMAIN items[k] = ItemFields
             /\ items[k].id = prov.items[chosen[k]].id /\ items[k].count = 2
             /\ items[k].fulfillment_id = FulfillmentId(prov, prov.items[chosen[k]])
             /\ items[k].location_id \in STRING \cup {Empty}
             /\ items[k].location_id \in Locations(prov) \cup {Empty}
             /\ ProviderLocation(prov) # Empty => items[k].location_id = ProviderLocation(prov)
  <2>1. items[k] = OrderItem(prov, prov.items[chosen[k]])
    BY <1>6 DEF items
  <2> QED
    BY <1>6, <2>1, CatalogItems
<1>9. ASSUME NEW k \in 1..n
      PROVE  /\ items[k].fulfillment_id # Nil
             /\ DefaultFulfillmentId(prov) # Empty => items[k].fulfillment_id # Empty
             /\ items[k].fulfillment_id # Empty =>
                    \/ \E j \in DOMAIN prov.items :
                          items[k].fulfillment_id = prov.items[j].fulfillment_id
                    \/ \E m \in DOMAIN prov.fulfillments :
                          items[k].fulfillment_id = prov.fulfillments[m].id
  BY <1>8, FulfillmentOfItem
<1>10. /\ location \in STRING \cup {Empty}
       /\ ProviderLocation(prov) # Empty => location = ProviderLocation(prov)
       /\ IF location = Empty THEN \A k \in 1..n : items[k].location_id = Empty
          ELSE \E k \in 1..n : items[k].location_id = location
  <2> DEFINE places == [k \in DOMAIN items |-> items[k].location_id]
  <2>1. DOMAIN places = 1..n /\ \A k \in 1..n : places[k] = items[k].location_id
    BY <1>7
  <2>2. location = FirstNonEmpty(places)
    BY DEF location, ChosenLocation
  <2> HIDE DEF places
  <2>3. \/ location = Empty /\ \A k \in 1..n : places[k] = Empty
        \/ \E k \in 1..n : places[k] # Empty /\ location = places[k]
    BY <2>1, <2>2, FirstNonEmptyIs
  <2>4. 1 \in 1..n
    OBVIOUS
  <2> QED
    BY <1>8, <2>1, <2>3, <2>4
<1>11. /\ DOMAIN provider = {"id", "locations"} /\ provider.id = prov.id
       /\ provider.locations = IF location = Empty THEN {"lx"} ELSE {location}
       /\ provider # Nil
  <2>1. /\ DOMAIN provider = {"id", "locations"} /\ provider.id = prov.id
        /\ provider.locations = IF location = Empty THEN {"lx"} ELSE {location}
    BY <1>2 DEF provider
  <2>2. prov.id \in STRING
    BY ShopNames DEF Text
  <2>3. provider \in [id : STRING, locations : SUBSET (STRING \cup {"lx"})]
    BY <1>2, <1>10, <2>2 DEF provider
  <2> QED
    BY <2>1, <2>3, NilIsAbsent
<1>13. IsFiniteSet(used)
  <2> DEFINE asked == [k \in 1..n |-> items[k].fulfillment_id]
  <2>1. IsFiniteSet(1..n)
    BY FS_Interval
  <2>2. asked = [k \in 1..n |-> asked[k]]
    OBVIOUS
  <2>3. used \subseteq {asked[k] : k \in 1..n}
    BY <1>7 DEF used
  <2> HIDE DEF asked
  <2>4. IsFiniteSet({asked[k] : k \in 1..n})
    BY <2>1, <2>2, FiniteImage
  <2> QED
    BY <2>3, <2>4, FS_Subset
<1>14. ASSUME used # {}
       PROVE  /\ \E m \in Nat \ {0} : DOMAIN list = 1..m
              /\ \A k \in DOMAIN list : /\ DOMAIN list[k] = FulfillmentFields
                                        /\ list[k].id \in used /\ list[k].end = ExampleEnd
              /\ \A id \in used : \E k \in DOMAIN list : list[k].id = id
  <2> DEFINE l == UsedList(sample, used)
  <2>1. /\ \E m \in Nat \ {0} : DOMAIN l = 1..m
        /\ \A k \in DOMAIN l : DOMAIN l[k] = FulfillmentFields /\ l[k].id \in used /\ l[k].end = sample.end
        /\ \A id \in used : \E k \in DOMAIN l : l[k].id = id
    BY <1>3, <1>13, <1>14, ListOfUsed
  <2> HIDE DEF l
  <2>2. list = l
    BY DEF list, l
  <2> QED
    BY <1>3, <2>1, <2>2
<1>15. /\ \E m \in Nat \ {0} : DOMAIN o.fulfillments = 1..m
       /\ \A k \in DOMAIN o.fulfillments :
            /\ DOMAIN o.fulfillments[k] = FulfillmentFields
            /\ o.fulfillments[k].end = ExampleEnd
            /\ IF used = {} THEN o.fulfillments[k].id = "fx" ELSE o.fulfillments[k].id \in used
  <2>1. CASE used = {}
    <3>1. \A k \in 1..1 : k = 1
      OBVIOUS
    <3>2. o.fulfillments = Example.fulfillments /\ Example.fulfillments[1] = sample
      BY <1>5, <2>1 DEF sample
    <3>3. \A k \in DOMAIN o.fulfillments : o.fulfillments[k] = sample
      BY <1>3, <3>1, <3>2
    <3>4. DOMAIN o.fulfillments = 1..1
      BY <1>3, <3>2
    <3> QED
      BY <1>3, <2>1, <3>3, <3>4
  <2>2. CASE used # {}
    BY <1>5, <1>14, <2>2
  <2> QED
    BY <2>1, <2>2
<1>16. Shaped(o)
  BY <1>5, <1>7, <1>8, <1>11, <1>15 DEF Shaped
<1>17. Known(o)
  <2> DEFINE places == {items[k].location_id : k \in DOMAIN items} \ {Empty}
  <2>1. o.provider.id = prov.id
    BY <1>5, <1>11
  <2>2. Range(Ids(o.items)) \subseteq Range(Ids(prov.items))
    BY <1>5, <1>7, <1>8 DEF Range, Ids
  <2>3. used \subseteq Fulfillments(prov)
    <3> SUFFICES ASSUME NEW k \in 1..n, items[k].fulfillment_id # Empty
                 PROVE  items[k].fulfillment_id \in Fulfillments(prov)
      BY <1>7 DEF used
    <3>1. CASE \E j \in DOMAIN prov.items : items[k].fulfillment_id = prov.items[j].fulfillment_id
      BY <3>1 DEF Fulfillments
    <3>2. CASE \E j \in DOMAIN prov.fulfillments :
                 items[k].fulfillment_id = prov.fulfillments[j].id
      BY <3>2 DEF Fulfillments, Range, Ids
    <3> QED
      BY <1>9, <3>1, <3>2
  <2>4. places \subseteq Locations(prov)
    BY <1>7, <1>8
  <2>5. Range(Ids(o.fulfillments)) = IF used = {} THEN {"fx"} ELSE used
    <3> DEFINE names == Range(Ids(o.fulfillments))
    <3>1. names = {o.fulfillments[k].id : k \in DOMAIN o.fulfillments}
      BY DEF Range, Ids
    <3> HIDE DEF names
    <3>2. CASE used = {}
      <4>1. \E k \in DOMAIN o.fulfillments : o.fulfillments[k].id = "fx"
        BY <1>15, <3>2
      <4>2. names = {"fx"}
        BY <1>15, <3>1, <3>2, <4>1
      <4> QED
        BY <3>2, <4>2 DEF names
    <3>3. CASE used # {}
      <4>1. \A id \in used : \E k \in DOMAIN o.fulfillments : o.fulfillments[k].id = id
        BY <1>5, <1>14, <3>3
      <4>2. \A k \in DOMAIN o.fulfillments : o.fulfillments[k].id \in used
        BY <1>15, <3>3
      <4>3. names = used
        BY <3>1, <4>1, <4>2
      <4> QED
        BY <3>3, <4>3 DEF names
    <3> QED
      BY <3>2, <3>3
  <2>6. IF places = {} THEN o.provider.locations = {"lx"} ELSE o.provider.locations \subseteq places
    <3>1. CASE location = Empty
      BY <1>5, <1>7, <1>10, <1>11, <3>1
    <3>2. CASE location # Empty
      BY <1>5, <1>7, <1>10, <1>11, <3>2
    <3> QED
      BY <3>1, <3>2
  <2> HIDE DEF prov
  <2> QED
    BY <1>5, <2>1, <2>2, <2>3, <2>4, <2>5, <2>6 DEF Known, used, prov
<1>18. Served(o)
  <2> SUFFICES ASSUME NEW k \in 1..n
               PROVE  /\ DefaultFulfillmentId(prov) # Empty =>
                          \E m \in DOMAIN o.fulfillments :
                              items[k].fulfillment_id = o.fulfillments[m].id
                      /\ ProviderLocation(prov) # Empty =>
                          items[k].location_id \in o.provider.locations
    BY <1>5, <1>7 DEF Served
  <2>1. ASSUME DefaultFulfillmentId(prov) # Empty
        PROVE  \E m \in DOMAIN o.fulfillments : items[k].fulfillment_id = o.fulfillments[m].id
    <3>1. items[k].fulfillment_id \in used
      BY <1>7, <1>9, <2>1 DEF used
    <3>2. used # {} /\ o.fulfillments = list
      BY <1>5, <3>1
    <3> QED
      BY <1>14, <3>1, <3>2
  <2>2. ProviderLocation(prov) # Empty => items[k].location_id \in o.provider.locations
    BY <1>5, <1>8, <1>10, <1>11
  <2> QED
    BY <2>1, <2>2
<1>19. Clean(o, sel, 1)
  BY <1>5, <1>7, <1>8, <1>11, <1>15, <1>17, <1>18 DEF Clean, EndOf
<1> QED
  BY <1>5, <1>7, <1>9, <1>16, <1>19 DEF o

-----------------------------------------------------------------------------
(* From stage to stage.                                                    *)

\* The place of an init: that of the select, whether or not the callback repeats it.
LEMMA InitEndIs ==
    ASSUME NEW end \in {Nil, ExampleEnd}, NEW sel, sel # Nil, sel.fulfillments # <<>>,
           sel.fulfillments[1].end = ExampleEnd
    PROVE  InitEnd(end, sel) = ExampleEnd
<1> DEFINE asked == [DefaultEnd EXCEPT !.gps = FirstNonEmpty(<<ExampleEnd.gps, @>>),
                                       !.area_code = FirstNonEmpty(<<ExampleEnd.area_code, @>>)]
<1>1. ExampleEnd # Nil
  BY NilIsAbsent
<1>2. FirstNonEmpty(<<ExampleEnd.gps, DefaultEnd.gps>>) = "g"
  BY FirstOfTwo, EmptyIsNoName DEF ExampleEnd
<1>3. FirstNonEmpty(<<ExampleEnd.area_code, DefaultEnd.area_code>>) = "a"
  BY FirstOfTwo, EmptyIsNoName DEF ExampleEnd
<1>4. asked = ExampleEnd
  <2>1. asked = [DefaultEnd EXCEPT !.gps = "g", !.area_code = "a"]
    BY <1>2, <1>3
  <2>2. [DefaultEnd EXCEPT !.gps = "g", !.area_code = "a"] = ExampleEnd
    <3> DEFINE place == [DefaultEnd EXCEPT !.gps = "g", !.area_code = "a"]
    <3>1. /\ DOMAIN place = {"gps", "area_code", "person"} /\ place = [f \in DOMAIN place |-> place[f]]
          /\ place.gps = "g" /\ place.area_code = "a" /\ place.person = Nil
      BY DEF DefaultEnd
    <3>2. /\ DOMAIN ExampleEnd = {"gps", "area_code", "person"}
          /\ ExampleEnd = [f \in DOMAIN ExampleEnd |-> ExampleEnd[f]]
          /\ ExampleEnd.gps = "g" /\ ExampleEnd.area_code = "a" /\ ExampleEnd.person = Nil
      BY DEF ExampleEnd
    <3> HIDE DEF place
    <3>3. \A f \in {"gps", "area_code", "person"} : place[f] = ExampleEnd[f]
      BY <3>1, <3>2
    <3>4. place = ExampleEnd
      BY <3>1, <3>2, <3>3
    <3> QED
      BY <3>4 DEF place
  <2> QED
    BY <2>1, <2>2
<1>5. InitEnd(end, sel) = Fill(end, asked)
  BY <1>1 DEF InitEnd
<1> HIDE DEF asked
<1>6. Fill(end, ExampleEnd) = ExampleEnd
  <2>1. ExampleEnd = [f \in DOMAIN ExampleEnd |-> ExampleEnd[f]]
    BY DEF ExampleEnd
  <2> QED
    BY <2>1 DEF Fill
<1> QED
  BY <1>4, <1>5, <1>6

\* The quantity of an item with a name is the one the quote repeats, if the callback
\* leaves it out; an item without one has what the callback says.
LEMMA ItemCountIs ==
    ASSUME NEW o, NEW n \in Nat, DOMAIN o.breakup = 1..n,
           \A k \in 1..n : o.breakup[k].count = 2,
           NEW item, item.count \in {2, Nil}, \E k \in 1..n : o.breakup[k].id = item.id
    PROVE  ItemCount(o, item) = IF item.id = Empty THEN item.count ELSE 2
<1> DEFINE quoted == {k \in DOMAIN o.breakup : o.breakup[k].id = item.id /\ o.breakup[k].count > 0}
<1>1. quoted # {} /\ quoted \subseteq 1..n
  OBVIOUS
<1> HIDE DEF quoted
<1>2. Max(quoted) \in quoted
  BY <1>1, GreatestElement
<1>3. o.breakup[Max(quoted)].count = 2
  BY <1>1, <1>2
<1>4. ItemCount(o, item) = IF item.id = Empty \/ item.count # Nil THEN item.count
                           ELSE IF quoted = {} THEN 1 ELSE o.breakup[Max(quoted)].count
  BY DEF ItemCount, quoted
<1> QED
  BY <1>1, <1>3, <1>4

\* The person to hand over to is added to the place of the init, which stays.
LEMMA ConfirmEndIs ==
    ASSUME NEW billing, billing # Nil
    PROVE  EndOf(3, ConfirmEnd(ExampleEnd, billing))
<1> DEFINE person == IF billing \in {Nil, Empty} THEN TestBuyer ELSE billing
           end == ConfirmEnd(ExampleEnd, billing)
<1>1. person # Nil /\ ExampleEnd # Nil
  BY NilIsAbsent
<1> HIDE DEF person
<1>2. end = Fill(ExampleEnd, [ExampleEnd EXCEPT !.person = person])
  BY <1>1 DEF ConfirmEnd, person
<1>3. DOMAIN ExampleEnd = {"gps", "area_code", "person"}
      /\ ExampleEnd.gps = "g" /\ ExampleEnd.area_code = "a" /\ ExampleEnd.person = Nil
  BY DEF ExampleEnd
<1>4. end.gps = "g" /\ end.area_code = "a" /\ end.person = person
  BY <1>1, <1>2, <1>3 DEF Fill
<1> QED
  BY <1>1, <1>4 DEF EndOf

\* A select made from the catalog is clean, whichever items are chosen.
LEMMA SelectIsClean ==
    ASSUME scene \in Scenes, NEW o \in SelectOrders(Example, <<scene.prov>>), NEW sel
    PROVE  Shaped(NormalizeSelect(o)) /\ Clean(NormalizeSelect(o), sel, 1)
<1>1. scene.prov.items # <<>>
  BY ScenesAreShops
<1>2. Head(<<scene.prov>>) = scene.prov /\ <<scene.prov>> # <<>>
  OBVIOUS
<1>3. PICK chosen \in Chosen(scene.prov) : o = CatalogOrder(Example, scene.prov, chosen)
  BY <1>1, <1>2 DEF SelectOrders
<1>4. /\ Shaped(o) /\ Clean(o, sel, 1)
      /\ o.items = [k \in DOMAIN o.items |-> o.items[k]]
      /\ \A k \in DOMAIN o.items : o.items[k].fulfillment_id # Nil
  BY <1>3, CatalogOrderIsClean
<1>5. \A k \in DOMAIN o.fulfillments : o.fulfillments[k].end = ExampleEnd
  BY <1>4 DEF Clean, EndOf
<1> DEFINE e == NormalizeSelect(o)
<1>6. /\ SameNames(e, o)
      /\ e.id = o.id /\ e.state = o.state /\ e.amount = o.amount /\ e.billing = o.billing
      /\ e.items = o.items
      /\ \A k \in DOMAIN o.fulfillments : e.fulfillments[k].end = ExampleEnd
  BY <1>4, <1>5, NormalizeSelectKeeps
<1> HIDE DEF e
<1>7. /\ Shaped(e) /\ Known(e) /\ Served(e)
  BY <1>4, <1>6, NamesDecide DEF Clean
<1>8. DOMAIN e.fulfillments = DOMAIN o.fulfillments /\ e.provider = o.provider
  BY <1>6 DEF SameNames
<1>9. Clean(e, sel, 1)
  BY <1>4, <1>6, <1>7, <1>8 DEF Clean, EndOf
<1> QED
  BY <1>7, <1>9 DEF e

\* An init made from the callback of a clean select is clean, and repeats its items.
LEMMA InitIsClean ==
    ASSUME scene \in Scenes, NEW o, Shaped(o), o # Nil, phase = 1, Clean(o, o, 1)
    PROVE  Clean(EnrichInit(Answer(o), o), o, 2)
<1> DEFINE a == Answer(o)
           e == EnrichInit(a, o)
<1>1. /\ SameNames(a, o)
      /\ a.id = o.id /\ a.state = o.state /\ a.amount = o.amount
      /\ a.billing = IF scene.name = Empty THEN o.billing ELSE scene.name
      /\ a.breakup = [k \in DOMAIN o.items |-> [id |-> o.items[k].id, count |-> o.items[k].count]]
      /\ \A k \in DOMAIN o.items :
            a.items[k].count = IF scene.counts \/ phase > 1 THEN o.items[k].count ELSE Nil
      /\ \A k \in DOMAIN o.fulfillments :
            a.fulfillments[k].end = o.fulfillments[k].end \/ a.fulfillments[k].end = Nil
  BY AnswerKeeps
<1>2. /\ Shaped(a) /\ Known(a) /\ Served(a)
  BY <1>1, NamesDecide DEF Clean
<1> HIDE DEF a
<1>3. /\ SameNames(e, a)
      /\ e.id = a.id /\ e.state = a.state /\ e.amount = a.amount
      /\ e.billing = IF a.billing = Nil THEN TestBuyer ELSE a.billing
      /\ \A k \in DOMAIN a.items : e.items[k].count = ItemCount(a, a.items[k])
      /\ \A k \in DOMAIN a.fulfillments :
            e.fulfillments[k].end = InitEnd(a.fulfillments[k].end, o)
  BY <1>2, EnrichInitKeeps
<1>4. Known(e) /\ Served(e)
  BY <1>2, <1>3, NamesDecide
<1>5. e.billing # Nil
  <2>1. scene.name # Nil /\ TestBuyer # Nil
    BY ScenesAreRuns, NilIsAbsent
  <2> QED
    BY <1>3, <2>1
<1> HIDE DEF e
<1>6. ASSUME NEW k \in DOMAIN o.items
      PROVE  /\ e.items[k].id = o.items[k].id
             /\ e.items[k].count = IF e.items[k].id = Empty /\ ~scene.counts THEN Nil
                                   ELSE o.items[k].count
  <2>1. PICK n \in Nat \ {0} : DOMAIN o.items = 1..n
    BY DEF Shaped
  <2>2. \A j \in 1..n : o.items[j].count = 2
    BY <2>1 DEF Clean
  <2>3. DOMAIN a.breakup = 1..n
    BY <1>1, <2>1
  <2>4. \A j \in 1..n : a.breakup[j].count = 2 /\ a.breakup[j].id = o.items[j].id
    BY <1>1, <2>1, <2>2
  <2>5. k \in 1..n /\ k \in DOMAIN a.items /\ a.items[k].id = o.items[k].id
    BY <1>1, <2>1 DEF SameNames
  <2>6. a.items[k].count = IF scene.counts THEN 2 ELSE Nil
    BY <1>1, <2>1, <2>2
  <2>7. ItemCount(a, a.items[k]) = IF a.items[k].id = Empty THEN a.items[k].count ELSE 2
    <3>1. a.items[k].count \in {2, Nil}
      BY <2>6
    <3> QED
      BY <2>3, <2>4, <2>5, <3>1, ItemCountIs
  <2>8. e.items[k].id = a.items[k].id /\ e.items[k].count = ItemCount(a, a.items[k])
    BY <1>3, <2>5 DEF SameNames
  <2>9. scene.counts \in BOOLEAN
    BY ScenesAreRuns
  <2> QED
    BY <2>2, <2>5, <2>6, <2>7, <2>8, <2>9
<1>7. ASSUME NEW k \in DOMAIN o.fulfillments
      PROVE  e.fulfillments[k].end = ExampleEnd
  <2>1. 1 \in DOMAIN o.fulfillments /\ o.fulfillments # <<>>
    BY DEF Shaped
  <2>2. o.fulfillments[1].end = ExampleEnd /\ o.fulfillments[k].end = ExampleEnd
    BY <2>1 DEF Clean, EndOf
  <2>3. a.fulfillments[k].end \in {Nil, ExampleEnd} /\ k \in DOMAIN a.fulfillments
    BY <1>1, <2>2 DEF SameNames
  <2>4. InitEnd(a.fulfillments[k].end, o) = ExampleEnd
    BY <2>1, <2>2, <2>3, InitEndIs
  <2> QED
    BY <1>3, <2>3, <2>4
<1>8. DOMAIN e.items = DOMAIN o.items /\ DOMAIN e.fulfillments = DOMAIN o.fulfillments
  BY <1>1, <1>3 DEF SameNames
<1>9. SameItems(e, o)
  BY <1>6, <1>8 DEF SameItems
<1>10. e.id = Nil /\ e.amount = Nil /\ e.state \in OrderStates \cup {Nil}
  BY <1>1, <1>3 DEF Clean
<1>11. \A k \in DOMAIN e.fulfillments : EndOf(2, e.fulfillments[k].end)
  BY <1>7, <1>8 DEF EndOf
<1>12. Clean(e, o, 2)
  BY <1>4, <1>5, <1>9, <1>10, <1>11 DEF Clean
<1> QED
  BY <1>12 DEF e, a

\* A confirm made from the callback of a clean init is clean, and pays what was quoted.
LEMMA ConfirmIsClean ==
    ASSUME scene \in Scenes, NEW o, NEW sel, Shaped(o), phase = 2, Clean(o, sel, 2)
    PROVE  Clean(EnrichConfirm(Answer(o), "t"), sel, 3)
<1> DEFINE a == Answer(o)
           e == EnrichConfirm(a, "t")
<1>1. /\ SameNames(a, o)
      /\ a.id = o.id /\ a.state = o.state /\ a.amount = o.amount /\ a.price = "250"
      /\ a.billing = IF scene.name = Empty THEN o.billing ELSE scene.name
      /\ \A k \in DOMAIN o.items : a.items[k].count = o.items[k].count
      /\ \A k \in DOMAIN o.fulfillments : a.fulfillments[k].end = o.fulfillments[k].end
  <2>1. phase \in 1..3 /\ phase # 1 /\ phase > 1
    OBVIOUS
  <2>2. \A k \in DOMAIN o.items :
          a.items[k].count = IF scene.counts \/ phase > 1 THEN o.items[k].count ELSE Nil
    BY <2>1, AnswerKeeps
  <2>3. \A k \in DOMAIN o.items : a.items[k].count = o.items[k].count
    BY <2>1, <2>2
  <2>4. \A k \in DOMAIN o.fulfillments : a.fulfillments[k].end = o.fulfillments[k].end
    BY <2>1, AnswerKeeps
  <2> QED
    BY <2>1, <2>3, <2>4, AnswerKeeps
<1>2. /\ Shaped(a) /\ Known(a) /\ Served(a)
  BY <1>1, NamesDecide DEF Clean
<1> HIDE DEF a
<1>3. /\ SameNames(e, a) /\ e.state \in OrderStates /\ (a.id = Nil => e.id = "t")
      /\ e.amount = ConfirmAmount(a)
      /\ \A k \in DOMAIN a.items : e.items[k] = a.items[k]
      /\ \A k \in DOMAIN a.fulfillments :
            e.fulfillments[k].end = ConfirmEnd(a.fulfillments[k].end, a.billing)
  BY <1>2, EnrichConfirmKeeps
<1> HIDE DEF e
<1>4. Known(e) /\ Served(e)
  BY <1>2, <1>3, NamesDecide
<1>5. a.billing # Nil
  <2>1. scene.name # Nil
    BY ScenesAreRuns, NilIsAbsent
  <2>2. o.billing # Nil
    BY DEF Clean
  <2> QED
    BY <1>1, <2>1, <2>2
<1>6. e.id = "t" /\ e.amount = "250"
  <2>1. a.id = Nil /\ a.amount = Nil
    BY <1>1 DEF Clean
  <2>2. "250" # Nil
    BY NilIsAbsent
  <2>3. ConfirmAmount(a) = "250"
    BY <1>1, <2>1, <2>2 DEF ConfirmAmount
  <2> QED
    BY <1>3, <2>1, <2>3
<1>7. /\ DOMAIN e.items = DOMAIN o.items /\ DOMAIN e.fulfillments = DOMAIN o.fulfillments
      /\ DOMAIN a.items = DOMAIN o.items /\ DOMAIN a.fulfillments = DOMAIN o.fulfillments
      /\ \A k \in DOMAIN o.items : a.items[k].id = o.items[k].id
  BY <1>1, <1>3 DEF SameNames
<1>8. \A k \in DOMAIN o.items : e.items[k].id = o.items[k].id /\ e.items[k].count = o.items[k].count
  BY <1>1, <1>3, <1>7
<1>9. SameItems(e, sel)
  BY <1>7, <1>8 DEF SameItems, Clean
<1>10. \A k \in DOMAIN e.fulfillments : EndOf(3, e.fulfillments[k].end)
  <2> SUFFICES ASSUME NEW k \in DOMAIN o.fulfillments PROVE EndOf(3, e.fulfillments[k].end)
    BY <1>7
  <2>1. a.fulfillments[k].end = ExampleEnd
    BY <1>1 DEF Clean, EndOf
  <2> QED
    BY <1>3, <1>5, <1>7, <2>1, ConfirmEndIs
<1>11. Clean(e, sel, 3)
  BY <1>3, <1>4, <1>6, <1>9, <1>10 DEF Clean
<1> QED
  BY <1>11 DEF e, a

\* What has to be shown of a step that leaves a request to send or to answer.
LEMMA OrderInvNext ==
    ASSUME scene \in Scenes, scene' = scene, phase' \in 1..3, tainted' \in BOOLEAN,
           pc' \in {"send", "answer"},
           phase' = 1 /\ pc' = "send" => ~tainted',
           phase' = 1 /\ pc' = "answer" => select' = order',
           Shaped(order'), tainted' => Wronged(order'),
           ~tainted' => Clean(order', select', phase')
    PROVE  OrderInv'
<1>1. ~tainted' => Clean(order, select, phase)'
  BY DEF Clean, Known, Served, SameItems
<1> QED
  BY <1>1 DEF OrderInv

\* The seller's answer and what is made of it keep an injected error.
LEMMA ErrorStays ==
    ASSUME NEW o, Shaped(o), phase \in 1..3
    PROVE  /\ Shaped(EnrichInit(Answer(o), select)) /\ Shaped(EnrichConfirm(Answer(o), "t"))
           /\ Wronged(o) => /\ Wronged(EnrichInit(Answer(o), select))
                            /\ Wronged(EnrichConfirm(Answer(o), "t"))
<1>1. SameNames(Answer(o), o)
  BY AnswerKeeps
<1>2. Shaped(Answer(o)) /\ (Wronged(o) => Wronged(Answer(o)))
  BY <1>1, NamesDecide
<1>3. SameNames(EnrichInit(Answer(o), select), Answer(o))
  BY <1>2, EnrichInitKeeps
<1>4. SameNames(EnrichConfirm(Answer(o), "t"), Answer(o))
  BY <1>2, EnrichConfirmKeeps
<1> QED
  BY <1>2, <1>3, <1>4, NamesDecide

\* OrderInv is inductive: BuildSelect makes a clean order, SendRequest leaves it or corrupts it,
\* and NextStage makes a clean one of a clean one.
LEMMA OrderInvHolds == FlowSpec => []OrderInv
<1>1. FlowInit => OrderInv
  <2> SUFFICES ASSUME FlowInit PROVE OrderInv
    OBVIOUS
  <2>1. scene \in Scenes /\ phase = 1 /\ pc = "build" /\ tainted = FALSE
    BY DEF FlowInit
  <2>2. pc \notin {"send", "answer"} /\ phase \in 1..3
    BY <2>1
  <2>3. tainted \in BOOLEAN /\ ~tainted
    BY <2>1
  <2> QED
    BY <2>1, <2>2, <2>3 DEF OrderInv
<1>2. OrderInv /\ [FlowNext]_flowVars => OrderInv'
  <2> SUFFICES ASSUME OrderInv, [FlowNext]_flowVars PROVE OrderInv'
    OBVIOUS
  <2>0. scene \in Scenes /\ phase \in 1..3 /\ tainted \in BOOLEAN
    BY DEF OrderInv
  <2>1. CASE BuildSelect
    <3>1. /\ phase = 1 /\ ~tainted /\ pc' = "send"
          /\ UNCHANGED <<scene, phase, batch, idx, select, tainted>>
      BY <2>1 DEF BuildSelect, Go, OrderInv
    <3>2. PICK o \in SelectOrders(Example, <<scene.prov>>) : order' = NormalizeSelect(o)
      BY <2>1 DEF BuildSelect
    <3>3. Shaped(order') /\ Clean(order', select', phase')
      BY <2>0, <3>1, <3>2, SelectIsClean
    <3> QED
      BY <2>0, <3>1, <3>3, OrderInvNext
  <2>2. CASE SendRequest
    <3> DEFINE corrupt == idx \in Corrupted(batch[phase])
    <3>1. /\ pc = "send" /\ pc' = "answer" /\ tainted' = (tainted \/ corrupt)
          /\ order' = PreparePayload(Actions[phase], corrupt, order)
          /\ select' = IF phase = 1 THEN order' ELSE select
          /\ UNCHANGED <<scene, phase, batch, idx>>
      BY <2>2 DEF SendRequest, Go
    <3>2. /\ Shaped(order) /\ (tainted => Wronged(order))
          /\ (~tainted => Clean(order, select, phase)) /\ (phase = 1 => ~tainted)
      BY <3>1 DEF OrderInv
    <3> HIDE DEF corrupt
    <3>3. CASE corrupt
      <4>1. phase = 1 => order.provider # Nil
        BY <3>2 DEF Clean
      <4>2. order' = CorruptForStage(Actions[phase], order)
        BY <3>1, <3>3 DEF PreparePayload
      <4>3. Shaped(order') /\ Wronged(order')
        BY <2>0, <3>2, <4>1, <4>2, CorruptedIsWronged
      <4>4. tainted' = TRUE
        BY <3>1, <3>3
      <4> QED
        BY <2>0, <3>1, <4>3, <4>4, OrderInvNext
    <3>4. CASE ~corrupt
      <4>1. order' = order /\ tainted' = tainted
        BY <2>0, <3>1, <3>4 DEF PreparePayload
      <4>2. ~tainted => Clean(order', select', phase')
        BY <2>0, <3>1, <3>2, <4>1 DEF Clean
      <4> QED
        BY <2>0, <3>1, <3>2, <4>1, <4>2, OrderInvNext
    <3> QED
      BY <3>3, <3>4
  <2>3. CASE NextStage
    <3> DEFINE refused == ~scene.lenient /\ ~Valid(order)
    <3>1. /\ phase < 3 /\ order # Nil /\ pc = "answer"
          /\ pc' = IF refused THEN "lost" ELSE "send"
          /\ phase' = phase + 1
          /\ order' = IF refused THEN Nil
                      ELSE IF phase = 1 THEN EnrichInit(Answer(order), select)
                      ELSE EnrichConfirm(Answer(order), "t")
          /\ UNCHANGED <<scene, select, tainted>>
      BY <2>3 DEF NextStage, Go
    <3>2. /\ Shaped(order) /\ (tainted => Wronged(order))
          /\ (~tainted => Clean(order, select, phase)) /\ (phase = 1 => select = order)
      BY <3>1 DEF OrderInv
    <3> HIDE DEF refused
    <3>3. phase' \in 2..3
      BY <2>0, <3>1
    <3>4. CASE refused
      BY <2>0, <3>1, <3>3, <3>4 DEF OrderInv
    <3>5. CASE ~refused
      <4>1. pc' = "send"
        BY <3>1, <3>5
      <4>2. CASE phase = 1
        <5>1. order' = EnrichInit(Answer(order), select) /\ phase' = 2
          BY <3>1, <3>5, <4>2
        <5>2. ~tainted' => Clean(order', select', phase')
          BY <2>0, <3>1, <3>2, <4>2, <5>1, InitIsClean
        <5> QED
          BY <2>0, <3>1, <3>2, <4>1, <5>1, <5>2, ErrorStays, OrderInvNext
      <4>3. CASE phase = 2
        <5>1. order' = EnrichConfirm(Answer(order), "t") /\ phase' = 3
          BY <3>1, <3>5, <4>3
        <5>2. ~tainted' => Clean(order', select', phase')
          BY <2>0, <3>1, <3>2, <4>3, <5>1, ConfirmIsClean
        <5> QED
          BY <2>0, <3>1, <3>2, <4>1, <5>1, <5>2, ErrorStays, OrderInvNext
      <4> QED
        BY <2>0, <3>1, <4>2, <4>3
    <3> QED
      BY <3>4, <3>5
  <2>4. CASE Without
    <3>1. phase' \in 2..3 /\ pc' = "lost" /\ scene' = scene /\ tainted' = tainted
      BY <2>0, <2>4 DEF Without
    <3> QED
      BY <2>0, <3>1 DEF OrderInv
  <2>5. CASE FinishRun
    BY <2>0, <2>5 DEF FinishRun, OrderInv
  <2>6. CASE UNCHANGED flowVars
    <3>1. UNCHANGED <<scene, phase, pc, order, select, tainted>>
      BY <2>6 DEF flowVars
    <3>2. Clean(order, select, phase)' <=> Clean(order, select, phase)
      BY <3>1 DEF Clean, Known, Served, SameItems
    <3> QED
      BY <3>1, <3>2 DEF OrderInv
  <2> QED
    BY <2>1, <2>2, <2>3, <2>4, <2>5, <2>6 DEF FlowNext
<1> QED
  BY <1>1, <1>2, PTL DEF FlowSpec

\* OrderIsCarriedThrough: what the buyer confirms is what it selected, for any catalog, any
\* choice of its items and however much the callbacks leave out: the quantities come back from
\* the quote (ItemCount), but for items without a name, and the place from the select that was
\* recorded (InitEnd).
THEOREM OrdersAreCarriedThrough == FlowSpec => []OrderIsCarriedThrough
<1>1. OrderInv => OrderIsCarriedThrough
  <2> SUFFICES ASSUME OrderInv, phase = 3, pc = "send", ~tainted
               PROVE  /\ Ids(order.items) = Ids(select.items)
                      /\ \A k \in DOMAIN order.items :
                          order.items[k].count
                            = IF order.items[k].id = Empty /\ ~scene.counts THEN Nil
                              ELSE select.items[k].count
                      /\ \A f \in Range(order.fulfillments) :
                          f.end.gps = "g" /\ f.end.area_code = "a" /\ f.end.person # Nil
                      /\ order.amount = "250" /\ order.id = "t"
                      /\ \A item \in Range(order.items) :
                          /\ DefaultFulfillmentId(scene.prov) # Empty =>
                              item.fulfillment_id \in Range(Ids(order.fulfillments))
                          /\ ProviderLocation(scene.prov) # Empty =>
                              item.location_id \in order.provider.locations
    BY DEF OrderIsCarriedThrough
  <2>1. Clean(order, select, 3)
    BY DEF OrderInv
  <2>2. SameItems(order, select)
    BY <2>1 DEF Clean
  <2>3. /\ Ids(order.items) = Ids(select.items)
        /\ \A k \in DOMAIN order.items :
            order.items[k].count = IF order.items[k].id = Empty /\ ~scene.counts THEN Nil
                                   ELSE select.items[k].count
    BY <2>2 DEF SameItems, Ids
  <2>4. \A f \in Range(order.fulfillments) :
          f.end.gps = "g" /\ f.end.area_code = "a" /\ f.end.person # Nil
    BY <2>1 DEF Clean, EndOf, Range
  <2>5. order.amount = "250" /\ order.id = "t"
    BY <2>1 DEF Clean
  <2>6. \A item \in Range(order.items) :
          /\ DefaultFulfillmentId(scene.prov) # Empty =>
              item.fulfillment_id \in Range(Ids(order.fulfillments))
          /\ ProviderLocation(scene.prov) # Empty =>
              item.location_id \in order.provider.locations
    <3>1. Served(order)
      BY <2>1 DEF Clean
    <3>2. \A m \in DOMAIN order.fulfillments :
            order.fulfillments[m].id \in Range(Ids(order.fulfillments))
      BY DEF Range, Ids
    <3>3. \A item \in Range(order.items) : \E k \in DOMAIN order.items : item = order.items[k]
      BY DEF Range
    <3> QED
      BY <3>1, <3>2, <3>3 DEF Served
  <2> QED
    BY <2>3, <2>4, <2>5, <2>6
<1> QED
  BY <1>1, OrderInvHolds, PTL

\* A wrong name is the name of nothing in the catalog.
LEMMA WrongedIsUnknown ==
    ASSUME scene \in Scenes, NEW o, Shaped(o), Wronged(o)
    PROVE  ~Known(o)
<1>1. SUFFICES ASSUME Known(o) PROVE FALSE
  OBVIOUS
<1>2. /\ scene.prov.id \in Text
      /\ \A j \in DOMAIN scene.prov.items : scene.prov.items[j].fulfillment_id \in Text
      /\ \A j \in DOMAIN scene.prov.fulfillments : scene.prov.fulfillments[j].id \in Text
  BY ShopNames
<1>3. CASE o.provider.id = "wrong-provider-id"
  BY <1>1, <1>2, <1>3 DEF Known, Text
<1>4. CASE o.fulfillments[1].id = "wrong-fulfillment-id"
  <2>1. 1 \in DOMAIN o.fulfillments
    BY DEF Shaped
  <2>2. "wrong-fulfillment-id" \in Range(Ids(o.fulfillments))
    BY <1>4, <2>1 DEF Range, Ids
  <2>3. "wrong-fulfillment-id" \in Fulfillments(scene.prov) \cup {"fx"}
    BY <1>1, <2>2 DEF Known
  <2>4. "wrong-fulfillment-id" \notin Fulfillments(scene.prov)
    BY <1>2 DEF Fulfillments, Range, Ids, Text
  <2> QED
    BY <2>3, <2>4
<1> QED
  BY <1>3, <1>4 DEF Wronged

\* NamesAreAccountedFor: for any catalog, a request has a name that is neither the catalog's nor
\* one of the two the example leaves where the items have none, exactly when it, or one before it
\* that the seller let pass, was corrupted, and as many are corrupted as the README says:
\* CorruptForStage leaves a name that is in no catalog, and neither the seller nor EnrichInit and
\* EnrichConfirm take it out again.
THEOREM NamesAccountedFor == FlowSpec => []NamesAreAccountedFor
<1>1. OrderInv /\ InjectedShare => NamesAreAccountedFor
  <2> SUFFICES ASSUME OrderInv, pc = "answer" PROVE Valid(order) = ~tainted
    BY DEF NamesAreAccountedFor
  <2>0. scene \in Scenes /\ tainted \in BOOLEAN /\ Shaped(order)
    BY DEF OrderInv
  <2>1. CASE tainted
    <3>1. ~Known(order)
      BY <2>0, <2>1, WrongedIsUnknown DEF OrderInv
    <3> QED
      BY <2>0, <2>1, <3>1 DEF Valid
  <2>2. CASE ~tainted
    <3>1. Clean(order, select, phase)
      BY <2>2 DEF OrderInv
    <3>2. Known(order) /\ order.state \in OrderStates \cup {Nil}
      BY <3>1 DEF Clean
    <3> QED
      BY <2>0, <2>2, <3>2 DEF Valid
  <2> QED
    BY <2>1, <2>2
<1> QED
  BY <1>1, OrderInvHolds, SharesAreInjected, PTL

-----------------------------------------------------------------------------
(* Percentiles and reports.                                                *)

\* How many samples there are up to a value.
LEMMA UpToCounts ==
    ASSUME NEW n \in Nat, NEW s \in [1..n -> Nat], NEW v
    PROVE  /\ IsFiniteSet({i \in 1..n : s[i] <= v})
           /\ UpTo(s, v) = Cardinality({i \in 1..n : s[i] <= v})
           /\ UpTo(s, v) \in Nat /\ UpTo(s, v) <= n
<1> DEFINE S == {i \in 1..n : s[i] <= v}
<1>1. IsFiniteSet(1..n) /\ Cardinality(1..n) = n
  BY FS_Interval
<1>2. UpTo(s, v) = Cardinality(S)
  BY DEF UpTo
<1>3. S \in SUBSET (1..n)
  OBVIOUS
<1> HIDE DEF S
<1>4. IsFiniteSet(S) /\ Cardinality(S) <= Cardinality(1..n)
  BY <1>1, <1>3, FS_Subset
<1>5. Cardinality(S) \in Nat
  BY <1>4, FS_CardinalityType
<1> QED
  BY <1>1, <1>2, <1>4, <1>5 DEF S

\* Some samples have a greatest among them: the one with the most samples up to it.
LEMMA GreatestSample ==
    ASSUME NEW n \in Nat, NEW s \in [1..n -> Nat], NEW B, B \subseteq 1..n, B # {}
    PROVE  \E i \in B : \A j \in B : s[j] <= s[i]
<1> DEFINE Above(i) == n - UpTo(s, s[i])
           T == {Above(i) : i \in B}
<1>1. \A i \in B : Above(i) \in Nat /\ i \in 1..n /\ s[i] \in Nat
  <2> SUFFICES ASSUME NEW i \in B PROVE Above(i) \in Nat /\ i \in 1..n /\ s[i] \in Nat
    OBVIOUS
  <2>1. UpTo(s, s[i]) \in Nat /\ UpTo(s, s[i]) <= n
    BY UpToCounts
  <2> QED
    BY <2>1
<1> HIDE DEF Above
<1>2. T \subseteq Nat /\ T # {}
  BY <1>1
<1>3. Min(T) \in T /\ \A x \in T : Min(T) <= x
  BY <1>2, LeastElement
<1>4. PICK i \in B : Min(T) = Above(i)
  BY <1>3
<1>5. ASSUME NEW j \in B, ~(s[j] <= s[i])
      PROVE  FALSE
  <2> DEFINE I == {k \in 1..n : s[k] <= s[i]}
             J == {k \in 1..n : s[k] <= s[j]}
  <2>1. s[i] \in Nat /\ s[j] \in Nat /\ j \in 1..n
    BY <1>1
  <2>2. I \subseteq J /\ j \in J /\ j \notin I
    BY <1>5, <2>1
  <2>3. /\ IsFiniteSet(J) /\ UpTo(s, s[j]) = Cardinality(J) /\ UpTo(s, s[j]) \in Nat
        /\ UpTo(s, s[i]) = Cardinality(I) /\ UpTo(s, s[i]) \in Nat
    BY UpToCounts
  <2> HIDE DEF I, J
  <2>4. Cardinality(I) <= Cardinality(J) /\ (Cardinality(J) = Cardinality(I) => J = I)
    BY <2>2, <2>3, FS_Subset
  <2>5. UpTo(s, s[i]) < UpTo(s, s[j])
    BY <2>2, <2>3, <2>4
  <2>6. Above(i) <= Above(j)
    BY <1>3, <1>4
  <2> QED
    BY <2>3, <2>5, <2>6 DEF Above
<1> QED
  BY <1>5

\* What is at k: a sample with at least k samples up to it, and fewer than k below it.
LEMMA SortedAt ==
    ASSUME NEW n \in Nat, NEW s \in [1..n -> Nat], NEW k \in 1..n
    PROVE  LET v == Sorted(s)[k] IN
           /\ v \in Nat /\ \E i \in 1..n : v = s[i]
           /\ UpTo(s, v) >= k
           /\ \A i \in 1..n : UpTo(s, s[i]) >= k => v <= s[i]
           /\ Below(s, v) \in Nat /\ Below(s, v) < k
<1> DEFINE S == {v \in Range(s) : UpTo(s, v) >= k}
           v == Sorted(s)[k]
<1>1. v = Min(S)
  BY DEF Sorted
<1>2. S \subseteq Nat /\ \A x \in S : (\E i \in 1..n : x = s[i]) /\ UpTo(s, x) >= k
  BY DEF Range
<1>3. \A i \in 1..n : UpTo(s, s[i]) >= k => s[i] \in S
  BY DEF Range
<1>4. S # {}
  <2>1. PICK i \in 1..n : \A j \in 1..n : s[j] <= s[i]
    BY GreatestSample
  <2>2. {j \in 1..n : s[j] <= s[i]} = 1..n
    BY <2>1
  <2>3. Cardinality(1..n) = n
    BY FS_Interval
  <2>4. UpTo(s, s[i]) = Cardinality(1..n)
    BY <2>2, UpToCounts
  <2> QED
    BY <1>3, <2>3, <2>4
<1> HIDE DEF S, v
<1>5. v \in S /\ \A x \in S : v <= x
  BY <1>1, <1>2, <1>4, LeastElement
<1>6. v \in Nat /\ (\E i \in 1..n : v = s[i]) /\ UpTo(s, v) >= k
  BY <1>2, <1>5
<1> DEFINE B == {i \in 1..n : s[i] < v}
<1>7. Below(s, v) = Cardinality(B)
  BY DEF Below
<1>8. IsFiniteSet(B) /\ Cardinality(B) \in Nat
  <2>1. IsFiniteSet(1..n) /\ B \in SUBSET (1..n)
    BY FS_Interval
  <2>2. IsFiniteSet(B)
    BY <2>1, FS_Subset
  <2> QED
    BY <2>2, FS_CardinalityType
<1>9. Cardinality(B) < k
  <2>1. CASE B = {}
    BY <2>1, FS_EmptySet
  <2>2. CASE B # {}
    <3>1. B \subseteq 1..n
      OBVIOUS
    <3>2. PICK i \in B : \A j \in B : s[j] <= s[i]
      BY <2>2, <3>1, GreatestSample
    <3>3. i \in 1..n /\ s[i] \in Nat /\ s[i] < v
      OBVIOUS
    <3>4. ~(UpTo(s, s[i]) >= k)
      BY <1>3, <1>5, <1>6, <3>3
    <3> DEFINE C == {j \in 1..n : s[j] <= s[i]}
    <3>5. IsFiniteSet(C) /\ UpTo(s, s[i]) = Cardinality(C) /\ UpTo(s, s[i]) \in Nat
      BY <3>3, UpToCounts
    <3>6. B \subseteq C
      BY <3>2
    <3> HIDE DEF B, C
    <3>7. Cardinality(B) <= Cardinality(C)
      BY <3>5, <3>6, FS_Subset
    <3> QED
      BY <1>8, <3>4, <3>5, <3>7
  <2> QED
    BY <2>1, <2>2
<1> QED
  BY <1>3, <1>5, <1>6, <1>7, <1>8, <1>9 DEF v

\* What is sorted is in order.
LEMMA SortedInOrder ==
    ASSUME NEW n \in Nat, NEW s \in [1..n -> Nat], NEW k \in 1..n, NEW l \in k..n
    PROVE  Sorted(s)[k] <= Sorted(s)[l]
<1>1. l \in 1..n
  OBVIOUS
<1>2. PICK i \in 1..n : Sorted(s)[l] = s[i]
  BY <1>1, SortedAt
<1>3. UpTo(s, s[i]) >= l /\ UpTo(s, s[i]) \in Nat
  BY <1>1, <1>2, SortedAt, UpToCounts
<1>4. UpTo(s, s[i]) >= k
  BY <1>3
<1> QED
  BY <1>2, <1>4, SortedAt

\* A sorted sequence has the samples it was made from: as many up to any value.
LEMMA SortedRearranges ==
    ASSUME NEW n \in Nat, NEW s \in [1..n -> Nat], NEW v \in Nat
    PROVE  Sorted(s) \in [1..n -> Nat] /\ UpTo(Sorted(s), v) = UpTo(s, v)
<1> DEFINE q == Sorted(s)
           u == UpTo(s, v)
<1>1. q \in [1..n -> Nat]
  <2>1. DOMAIN q = 1..n /\ q = [k \in DOMAIN q |-> q[k]]
    BY DEF Sorted
  <2>2. \A k \in 1..n : q[k] \in Nat
    BY SortedAt
  <2> HIDE DEF q
  <2> QED
    BY <2>1, <2>2
<1>2. u \in Nat /\ u <= n
  BY UpToCounts
<1>3. ASSUME NEW k \in 1..n, q[k] <= v PROVE k <= u
  <2>1. PICK w \in Nat : w = q[k] /\ UpTo(s, w) >= k
    BY SortedAt
  <2> DEFINE S == {i \in 1..n : s[i] <= w}
             T == {i \in 1..n : s[i] <= v}
  <2>2. /\ UpTo(s, w) = Cardinality(S) /\ UpTo(s, w) \in Nat
        /\ IsFiniteSet(T) /\ u = Cardinality(T)
    BY UpToCounts
  <2> HIDE DEF q
  <2>3. S \subseteq T
    BY <1>3, <2>1
  <2> HIDE DEF S, T, q, u
  <2>4. Cardinality(S) <= Cardinality(T)
    BY <2>2, <2>3, FS_Subset
  <2> QED
    BY <1>2, <2>1, <2>2, <2>4
<1>4. ASSUME NEW k \in 1..n, k <= u PROVE q[k] <= v
  <2> DEFINE B == {i \in 1..n : s[i] <= v}
  <2>1. u = Cardinality(B) /\ IsFiniteSet(B)
    BY UpToCounts
  <2>2. B # {}
    BY <1>2, <1>4, <2>1, FS_EmptySet
  <2>3. PICK i \in B : \A j \in B : s[j] <= s[i]
    BY <2>2, GreatestSample
  <2>4. i \in 1..n /\ s[i] \in Nat /\ s[i] <= v
    OBVIOUS
  <2>5. {j \in 1..n : s[j] <= s[i]} = B
    BY <2>3, <2>4
  <2>6. UpTo(s, s[i]) = u
    BY <2>1, <2>4, <2>5, UpToCounts
  <2>7. q[k] <= s[i] /\ q[k] \in Nat
    BY <1>4, <2>4, <2>6, SortedAt
  <2> HIDE DEF q
  <2> QED
    BY <2>4, <2>7
<1> HIDE DEF q, u
<1>5. {k \in 1..n : q[k] <= v} = 1..u
  BY <1>2, <1>3, <1>4
<1>6. UpTo(q, v) = Cardinality(1..u)
  <2>1. DOMAIN q = 1..n
    BY <1>1
  <2>2. UpTo(q, v) = Cardinality({k \in 1..n : q[k] <= v})
    BY <2>1 DEF UpTo
  <2> QED
    BY <1>5, <2>2
<1>7. Cardinality(1..u) = u
  BY <1>2, FS_Interval
<1> QED
  BY <1>1, <1>6, <1>7 DEF q, u

\* Sorted sorts any latencies: the result is in order, and a rearrangement of what was given,
\* since it has as many samples up to any value.  It is what the percentiles and the reports are
\* computed from.
THEOREM SortedIsSorting ==
    ASSUME NEW n \in Nat, NEW s \in [1..n -> Nat]
    PROVE  /\ Sorted(s) \in [1..n -> Nat]
           /\ \A k \in 1..n : \A l \in k..n : Sorted(s)[k] <= Sorted(s)[l]
           /\ \A v \in Nat : UpTo(Sorted(s), v) = UpTo(s, v)
<1>1. \A k \in 1..n : \A l \in k..n : Sorted(s)[k] <= Sorted(s)[l]
  BY SortedInOrder
<1>2. 0 \in Nat
  OBVIOUS
<1> QED
  BY <1>1, <1>2, SortedRearranges

\* The sample at k has the rank k, counted without sorting.
LEMMA RankAt ==
    ASSUME NEW n \in Nat, NEW s \in [1..n -> Nat], NEW k \in 1..n, NEW m \in Nat,
           100 * (k - 1) <= m, m < 100 * k
    PROVE  LET v == Sorted(s)[k]
           IN  v \in Nat /\ 100 * Below(s, v) <= m /\ m < 100 * UpTo(s, v)
<1> DEFINE v == Sorted(s)[k]
<1>1. v \in Nat /\ UpTo(s, v) >= k /\ Below(s, v) \in Nat /\ Below(s, v) < k
  BY SortedAt
<1>2. UpTo(s, v) \in Nat
  BY UpToCounts
<1> HIDE DEF v
<1>3. 100 * Below(s, v) <= m /\ m < 100 * UpTo(s, v)
  BY <1>1, <1>2
<1> QED
  BY <1>1, <1>3 DEF v

Percents == {50, 90, 95, 99}

\* A percentile is the sample of the rank it stands for, for any latencies: at most pct percent
\* of the others are below it, and more are up to it (percentileMs, whose index is rounded down).
THEOREM PercentileRank ==
    ASSUME NEW n \in Nat \ {0}, NEW s \in [1..n -> Nat], NEW pct \in Percents
    PROVE  LET v == PercentileMs(s, pct)
           IN  /\ v = Sorted(s)[PercentileIndex(n, pct) + 1]
               /\ PercentileIndex(n, pct) + 1 \in 1..n
               /\ v \in Nat
               /\ 100 * Below(s, v) <= pct * (n - 1)
               /\ pct * (n - 1) < 100 * UpTo(s, v)
<1> DEFINE k == PercentileIndex(n, pct) + 1
           m == pct * (n - 1)
           v == PercentileMs(s, pct)
<1>1. s # <<>> /\ Len(s) = n /\ n \in Nat
  OBVIOUS
<1>2. v = Sorted(s)[k]
  BY <1>1 DEF PercentileMs
<1>3. k \in 1..n /\ m \in Nat /\ 100 * (k - 1) <= m /\ m < 100 * k
  <2>1. CASE pct = 50
    BY <2>1 DEF PercentileIndex
  <2>2. CASE pct = 90
    BY <2>2 DEF PercentileIndex
  <2>3. CASE pct = 95
    BY <2>3 DEF PercentileIndex
  <2>4. CASE pct = 99
    BY <2>4 DEF PercentileIndex
  <2> QED
    BY <2>1, <2>2, <2>3, <2>4 DEF Percents
<1> HIDE DEF k, m, v
<1>4. v \in Nat /\ 100 * Below(s, v) <= m /\ m < 100 * UpTo(s, v)
  BY <1>1, <1>2, <1>3, RankAt
<1> QED
  BY <1>2, <1>3, <1>4 DEF k, m, v

\* The latencies of a stage, one for each success.
LEMMA SamplesOfStage ==
    ASSUME FlowInv, phase = 3, NEW s \in 1..3
    PROVE  /\ Succeed(s) \in Nat /\ Samples(s) \in [1..Succeed(s) -> Nat]
           /\ Samples(s) = <<>> <=> Succeed(s) = 0
<1>1. Succeed(s) \in Nat
  BY SucceedFits
<1> DEFINE n == Succeed(s)
<1> HIDE DEF n
<1>2. Samples(s) = [i \in 1..n |-> IF i <= scene.slow THEN 2 ELSE 1]
  BY DEF Samples, n
<1>3. Samples(s) \in [1..n -> Nat]
  BY <1>2
<1>4. Samples(s) = <<>> <=> n = 0
  <2>1. CASE n = 0
    <3>1. 1..n = {} /\ Samples(s) = <<>>
      BY <1>2, <2>1
    <3> QED
      BY <2>1, <3>1
  <2>2. CASE n # 0
    <3>1. 1 \in DOMAIN Samples(s)
      BY <1>1, <1>2, <2>2 DEF n
    <3> QED
      BY <2>2, <3>1
  <2> QED
    BY <2>1, <2>2
<1> QED
  BY <1>1, <1>3, <1>4 DEF n

\* The percentiles of a stage in the metrics of its run.
LEMMA JourneyOfStage ==
    ASSUME NEW s \in 1..3
    PROVE  LET j == Journeys[s]
           IN  /\ j.p90 = PercentileMs(Samples(s), 90) /\ j.p95 = PercentileMs(Samples(s), 95)
               /\ j.p99 = PercentileMs(Samples(s), 99)
<1>1. Journeys[s] = Journey(Requests(s), Summary(s))
  <2>1. CallbackMetrics("completed", Nil, Summary(s)) = Summary(s)
    BY DEF CallbackMetrics
  <2> QED
    BY <2>1 DEF Journeys, StageJourney
<1>2. /\ Summary(s).p90 = PercentileMs(Samples(s), 90)
      /\ Summary(s).p95 = PercentileMs(Samples(s), 95)
      /\ Summary(s).p99 = PercentileMs(Samples(s), 99)
  BY DEF Summary, LatencySummary
<1> QED
  BY <1>1, <1>2 DEF Journey

\* The percentiles of a stage are in order and have their ranks.
LEMMA PercentilesOfStage ==
    ASSUME FlowInv, phase = 3, NEW s \in 1..3
    PROVE  LET j == Journeys[s]
               samples == Samples(s)
               report == StageReport(j, samples)
           IN  /\ report.p95 = j.p95 /\ report.p50 <= report.p95 /\ report.p95 <= report.max
               /\ samples # <<>> =>
                    \A p \in {<<50, report.p50>>, <<90, j.p90>>, <<95, j.p95>>, <<99, j.p99>>} :
                        /\ 100 * Below(samples, p[2]) <= p[1] * (Len(samples) - 1)
                        /\ p[1] * (Len(samples) - 1) < 100 * UpTo(samples, p[2])
<1> DEFINE j == Journeys[s]
           q == Samples(s)
           n == Succeed(s)
           report == StageReport(j, q)
           P(pct) == PercentileMs(q, pct)
<1>1. n \in Nat /\ q \in [1..n -> Nat] /\ (q = <<>> <=> n = 0)
  BY SamplesOfStage
<1>2. j.p90 = P(90) /\ j.p95 = P(95) /\ j.p99 = P(99)
  BY JourneyOfStage
<1> HIDE DEF j, q, n
<1>3. /\ report.p50 = P(50) /\ report.p95 = P(95)
      /\ report.max = IF q # <<>> THEN Last(Sorted(q))
                      ELSE IF j.p99 # 0 THEN j.p99 ELSE j.p90
  BY <1>2 DEF StageReport
<1> HIDE DEF report, P
<1>4. CASE q = <<>>
  <2>1. P(50) = 0 /\ P(90) = 0 /\ P(95) = 0 /\ P(99) = 0
    BY <1>4 DEF PercentileMs, P
  <2>2. report.p50 = 0 /\ report.p95 = 0 /\ report.max = 0
    BY <1>2, <1>3, <1>4, <2>1
  <2> QED
    BY <1>2, <1>3, <1>4, <2>2 DEF j, q, report
<1>5. CASE q # <<>>
  <2>1. n \in Nat \ {0}
    BY <1>1, <1>5
  <2>2. \A pct \in Percents :
          /\ P(pct) = Sorted(q)[PercentileIndex(n, pct) + 1]
          /\ PercentileIndex(n, pct) + 1 \in 1..n /\ P(pct) \in Nat
          /\ 100 * Below(q, P(pct)) <= pct * (n - 1)
          /\ pct * (n - 1) < 100 * UpTo(q, P(pct))
    BY <1>1, <2>1, PercentileRank DEF P
  <2>3. Len(q) = n
    BY <1>1
  <2>4. \A p \in {<<50, report.p50>>, <<90, j.p90>>, <<95, j.p95>>, <<99, j.p99>>} :
          /\ 100 * Below(q, p[2]) <= p[1] * (Len(q) - 1)
          /\ p[1] * (Len(q) - 1) < 100 * UpTo(q, p[2])
    BY <1>2, <1>3, <2>2, <2>3 DEF Percents
  <2>5. /\ PercentileIndex(n, 50) + 1 \in 1..n
        /\ PercentileIndex(n, 95) + 1 \in (PercentileIndex(n, 50) + 1)..n
    BY <2>1 DEF PercentileIndex
  <2>6. Sorted(q)[PercentileIndex(n, 50) + 1] <= Sorted(q)[PercentileIndex(n, 95) + 1]
    BY <1>1, <2>5, SortedInOrder
  <2>7. report.p50 <= report.p95
    BY <1>3, <2>2, <2>6 DEF Percents
  <2>8. Last(Sorted(q)) = Sorted(q)[n]
    <3>1. Sorted(q) \in [1..n -> Nat]
      BY <1>1, SortedRearranges
    <3>2. Len(Sorted(q)) = n
      BY <1>1, <3>1
    <3> QED
      BY <3>2 DEF Last
  <2>9. PercentileIndex(n, 95) + 1 \in 1..n /\ n \in (PercentileIndex(n, 95) + 1)..n
    BY <2>1, <2>5 DEF PercentileIndex
  <2>10. Sorted(q)[PercentileIndex(n, 95) + 1] <= Sorted(q)[n]
    BY <1>1, <2>9, SortedInOrder
  <2>11. report.p95 <= report.max
    BY <1>3, <1>5, <2>2, <2>8, <2>10 DEF Percents
  <2> QED
    BY <1>2, <1>3, <2>4, <2>7, <2>11 DEF j, q, report
<1> QED
  BY <1>4, <1>5

\* PercentilesHaveTheirRank: at any rate and duration, and whatever share of the callbacks is
\* slow, the percentiles that are reported agree and are samples of the rank they stand for.
THEOREM PercentilesAreRanked == FlowSpec => []PercentilesHaveTheirRank
<1>1. FlowInv => PercentilesHaveTheirRank
  <2> SUFFICES ASSUME FlowInv, pc = "done" PROVE PercentilesHaveTheirRank
    BY DEF PercentilesHaveTheirRank
  <2>1. phase = 3
    BY DEF FlowInv
  <2> QED
    BY <2>1, PercentilesOfStage DEF PercentilesHaveTheirRank
<1> QED
  BY <1>1, FlowInvHolds, PTL
=============================================================================
