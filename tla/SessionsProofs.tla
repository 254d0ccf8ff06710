--------------------------- MODULE SessionsProofs ---------------------------
(***************************************************************************)
(* Theorems about Sessions: its types, that a deleted session stays        *)
(* deleted, and that requests one at a time leave one session.             *)
(*                                                                         *)
(* Types need to know that whoever uses a target has one, and so that the  *)
(* kind of a request agrees with the place its handler has reached; the    *)
(* same fact shows that nobody writes a session that is gone.              *)
(***************************************************************************)
EXTENDS Sessions, FiniteSetTheorems, TLAPS

\* Where the handlers of the requests that name a session can be, and which
\* requests can be where.
Placed ==
    \A r \in Requests :
        /\ op[r] = "none" <=> pc[r] = "idle"
        /\ pc[r] \in {"unindex", "drop", "read", "fallback", "lapse"} => target[r] \in Requests
        /\ pc[r] \in {"read", "fallback"} => op[r] \in {"toggle", "get", "delete"}
        /\ pc[r] = "lapse" => op[r] \in {"toggle", "get"}
        /\ pc[r] = "expire" => op[r] = "create"
        /\ pc[r] \in {"page", "match", "mark"} => op[r] = "sessions"
        /\ pc[r] \in {"set", "index", "save"} =>
            \/ op[r] = "create"
            \/ op[r] = "toggle" /\ target[r] \in Requests

IInv == TypeOK /\ Placed

-----------------------------------------------------------------------------

\* The initial state satisfies the inductive invariant.
LEMMA InitInv == Init => IInv
BY DEF Init, IInv, TypeOK, Placed, Ops, PCs, Statuses

\* Where a removal goes on to, by the kind of request.
LEMMA AfterDropCases ==
    ASSUME NEW r
    PROVE  /\ AfterDrop(r) \in {"expire", "list", "remove"}
           /\ AfterDrop(r) = "expire" => op[r] = "create"
  BY DEF AfterDrop

\* Every step preserves it.
LEMMA NextInv == IInv /\ [Next]_vars => IInv'
<1> SUFFICES ASSUME IInv, [Next]_vars PROVE IInv'
  OBVIOUS
<1> USE DEF Goto, Failed, request
<1>1. ASSUME NEW r \in Requests, NEW o \in Ops \ {"none"}, NEW s \in Requests \cup {None},
             Arrive(r, o, s)
      PROVE IInv'
  <2>1. fault' \in BOOLEAN /\ orderly' \in BOOLEAN
    BY <1>1, Zenon DEF IInv, TypeOK, Arrive
  <2>2. TypeOK'
    BY <1>1, <2>1 DEF IInv, TypeOK, Placed, Ops, PCs, Statuses, Arrive
  <2>3. Placed'
    BY <1>1 DEF IInv, TypeOK, Placed, Ops, PCs, Arrive
  <2> QED
    BY <2>2, <2>3 DEF IInv
<1>2. ASSUME NEW r \in Requests, FindByBPP(r) PROVE IInv'
  <2>1. fault' \in BOOLEAN /\ orderly' \in BOOLEAN
    BY <1>2, Zenon DEF IInv, TypeOK, FindByBPP, Indexed
  <2>2. TypeOK'
    BY <1>2, AfterDropCases, <2>1 DEF IInv, TypeOK, Placed, Ops, PCs, Statuses, FindByBPP, Indexed
  <2>3. Placed'
    BY <1>2, AfterDropCases DEF IInv, TypeOK, Placed, Ops, PCs, FindByBPP, Indexed
  <2> QED
    BY <2>2, <2>3 DEF IInv
<1>3. ASSUME NEW r \in Requests, Unindex(r) PROVE IInv'
  <2>1. fault' \in BOOLEAN /\ orderly' \in BOOLEAN
    BY <1>3, Zenon DEF IInv, TypeOK, Unindex
  <2>2. TypeOK'
    BY <1>3, AfterDropCases, <2>1 DEF IInv, TypeOK, Placed, Ops, PCs, Statuses, Unindex
  <2>3. Placed'
    BY <1>3, AfterDropCases DEF IInv, TypeOK, Placed, Ops, PCs, Unindex
  <2> QED
    BY <2>2, <2>3 DEF IInv
<1>4. ASSUME NEW r \in Requests, Drop(r) PROVE IInv'
  <2>1. fault' \in BOOLEAN /\ orderly' \in BOOLEAN
    BY <1>4, Zenon DEF IInv, TypeOK, Drop
  <2>2. TypeOK'
    BY <1>4, AfterDropCases, <2>1 DEF IInv, TypeOK, Placed, Ops, PCs, Statuses, Drop
  <2>3. Placed'
    BY <1>4, AfterDropCases DEF IInv, TypeOK, Placed, Ops, PCs, Drop
  <2> QED
    BY <2>2, <2>3 DEF IInv
<1>5. ASSUME NEW r \in Requests, ExpireSessions(r) PROVE IInv'
  <2>1. fault' \in BOOLEAN /\ orderly' \in BOOLEAN
    BY <1>5, Zenon DEF IInv, TypeOK, ExpireSessions
  <2>2. TypeOK'
    BY <1>5, <2>1 DEF IInv, TypeOK, Placed, Ops, PCs, Statuses, ExpireSessions
  <2>3. Placed'
    BY <1>5 DEF IInv, TypeOK, Placed, Ops, PCs, ExpireSessions
  <2> QED
    BY <2>2, <2>3 DEF IInv
<1>6. ASSUME NEW r \in Requests, SetSession(r) PROVE IInv'
  <2>1. fault' \in BOOLEAN /\ orderly' \in BOOLEAN
    BY <1>6, Zenon DEF IInv, TypeOK, SetSession, Subject
  <2>2. TypeOK'
    BY <1>6, <2>1 DEF IInv, TypeOK, Placed, Ops, PCs, Statuses, SetSession, Subject
  <2>3. Placed'
    BY <1>6 DEF IInv, TypeOK, Placed, Ops, PCs, SetSession, Subject
  <2> QED
    BY <2>2, <2>3 DEF IInv
<1>7. ASSUME NEW r \in Requests, SetIndex(r) PROVE IInv'
  <2>1. fault' \in BOOLEAN /\ orderly' \in BOOLEAN
    BY <1>7, Zenon DEF IInv, TypeOK, SetIndex, Subject
  <2>2. TypeOK'
    BY <1>7, <2>1 DEF IInv, TypeOK, Placed, Ops, PCs, Statuses, SetIndex, Subject
  <2>3. Placed'
    BY <1>7 DEF IInv, TypeOK, Placed, Ops, PCs, SetIndex, Subject
  <2> QED
    BY <2>2, <2>3 DEF IInv
<1>8. ASSUME NEW r \in Requests, SaveSession(r) PROVE IInv'
  <2>1. fault' \in BOOLEAN /\ orderly' \in BOOLEAN
    BY <1>8, Zenon DEF IInv, TypeOK, SaveSession, Subject
  <2>2. TypeOK'
    BY <1>8, <2>1 DEF IInv, TypeOK, Placed, Ops, PCs, Statuses, SaveSession, Subject
  <2>3. Placed'
    BY <1>8 DEF IInv, TypeOK, Placed, Ops, PCs, SaveSession, Subject
  <2> QED
    BY <2>2, <2>3 DEF IInv
<1>9. ASSUME NEW r \in Requests, Read(r) PROVE IInv'
  <2>1. fault' \in BOOLEAN /\ orderly' \in BOOLEAN
    BY <1>9, Zenon DEF IInv, TypeOK, Read, AfterRead
  <2>2. TypeOK'
    BY <1>9, <2>1 DEF IInv, TypeOK, Placed, Ops, PCs, Statuses, Read, AfterRead
  <2>3. Placed'
    BY <1>9 DEF IInv, TypeOK, Placed, Ops, PCs, Read, AfterRead
  <2> QED
    BY <2>2, <2>3 DEF IInv
<1>10. ASSUME NEW r \in Requests, Fallback(r) PROVE IInv'
  <2>1. fault' \in BOOLEAN /\ orderly' \in BOOLEAN
    BY <1>10, Zenon DEF IInv, TypeOK, Fallback, AfterFallback
  <2>2. TypeOK'
    BY <1>10, <2>1 DEF IInv, TypeOK, Placed, Ops, PCs, Statuses, Fallback, AfterFallback
  <2>3. Placed'
    BY <1>10 DEF IInv, TypeOK, Placed, Ops, PCs, Fallback, AfterFallback
  <2> QED
    BY <2>2, <2>3 DEF IInv
<1>11. ASSUME NEW r \in Requests, Lapse(r) PROVE IInv'
  <2>1. fault' \in BOOLEAN /\ orderly' \in BOOLEAN
    BY <1>11, Zenon DEF IInv, TypeOK, Lapse
  <2>2. TypeOK'
    BY <1>11, <2>1 DEF IInv, TypeOK, Placed, Ops, PCs, Statuses, Lapse
  <2>3. Placed'
    BY <1>11 DEF IInv, TypeOK, Placed, Ops, PCs, Lapse
  <2> QED
    BY <2>2, <2>3 DEF IInv
<1>12. ASSUME NEW r \in Requests, ListSessions(r) PROVE IInv'
  <2>1. fault' \in BOOLEAN /\ orderly' \in BOOLEAN
    BY <1>12, Zenon DEF IInv, TypeOK, ListSessions
  <2>2. TypeOK'
    BY <1>12, <2>1 DEF IInv, TypeOK, Placed, Ops, PCs, Statuses, ListSessions
  <2>3. Placed'
    BY <1>12 DEF IInv, TypeOK, Placed, Ops, PCs, ListSessions
  <2> QED
    BY <2>2, <2>3 DEF IInv
<1>13. ASSUME NEW r \in Requests, Remove(r) PROVE IInv'
  <2>1. fault' \in BOOLEAN /\ orderly' \in BOOLEAN
    BY <1>13, Zenon DEF IInv, TypeOK, Remove
  <2>2. TypeOK'
    BY <1>13, <2>1 DEF IInv, TypeOK, Placed, Ops, PCs, Statuses, Remove
  <2>3. Placed'
    BY <1>13 DEF IInv, TypeOK, Placed, Ops, PCs, Remove
  <2> QED
    BY <2>2, <2>3 DEF IInv
<1>14. ASSUME NEW r \in Requests, PassExpiresAt(r) PROVE IInv'
  <2>1. fault' \in BOOLEAN /\ orderly' \in BOOLEAN
    BY <1>14, Zenon DEF IInv, TypeOK, PassExpiresAt
  <2>2. TypeOK'
    BY <1>14, <2>1 DEF IInv, TypeOK, Placed, Ops, PCs, Statuses, PassExpiresAt
  <2>3. Placed'
    BY <1>14 DEF IInv, TypeOK, Placed, Ops, PCs, PassExpiresAt
  <2> QED
    BY <2>2, <2>3 DEF IInv
<1>15. ASSUME NEW r \in Requests, KeyExpires(r) PROVE IInv'
  <2>1. fault' \in BOOLEAN /\ orderly' \in BOOLEAN
    BY <1>15, Zenon DEF IInv, TypeOK, KeyExpires
  <2>2. TypeOK'
    BY <1>15, <2>1 DEF IInv, TypeOK, Placed, Ops, PCs, Statuses, KeyExpires
  <2>3. Placed'
    BY <1>15 DEF IInv, TypeOK, Placed, Ops, PCs, KeyExpires
  <2> QED
    BY <2>2, <2>3 DEF IInv
<1>16. CASE IndexExpires \/ UNCHANGED vars
  BY <1>16 DEF IInv, TypeOK, Placed, IndexExpires, vars
<1>17. ASSUME NEW r \in Requests, ReadPage(r) PROVE IInv'
  <2>1. fault' \in BOOLEAN /\ orderly' \in BOOLEAN
    BY <1>17, Zenon DEF IInv, TypeOK, ReadPage
  <2>2. TypeOK'
    BY <1>17, <2>1 DEF IInv, TypeOK, Placed, Ops, PCs, Statuses, ReadPage
  <2>3. Placed'
    BY <1>17 DEF IInv, TypeOK, Placed, Ops, PCs, ReadPage
  <2> QED
    BY <2>2, <2>3 DEF IInv
<1>18. ASSUME NEW r \in Requests, MatchPage(r) PROVE IInv'
  <2>1. fault' \in BOOLEAN /\ orderly' \in BOOLEAN
    BY <1>18, Zenon DEF IInv, TypeOK, MatchPage
  <2>2. TypeOK'
    BY <1>18, <2>1 DEF IInv, TypeOK, Placed, Ops, PCs, Statuses, MatchPage
  <2>3. Placed'
    BY <1>18 DEF IInv, TypeOK, Placed, Ops, PCs, MatchPage
  <2> QED
    BY <2>2, <2>3 DEF IInv
<1>19. ASSUME NEW r \in Requests, MarkExpired(r) PROVE IInv'
  <2>1. fault' \in BOOLEAN /\ orderly' \in BOOLEAN
    BY <1>19, Zenon DEF IInv, TypeOK, MarkExpired
  <2>2. TypeOK'
    BY <1>19, <2>1 DEF IInv, TypeOK, Placed, Ops, PCs, Statuses, MarkExpired
  <2>3. Placed'
    BY <1>19 DEF IInv, TypeOK, Placed, Ops, PCs, MarkExpired
  <2> QED
    BY <2>2, <2>3 DEF IInv
<1> QED
  BY <1>1, <1>2, <1>3, <1>4, <1>5, <1>6, <1>7, <1>8, <1>9, <1>10,
     <1>11, <1>12, <1>13, <1>14, <1>15, <1>16, <1>17, <1>18, <1>19 DEF Next

\* The inductive invariant holds in every reachable state.
LEMMA Invariance == SafetySpec => []IInv
BY InitInv, NextInv, PTL DEF SafetySpec

-----------------------------------------------------------------------------
\* Requests, keys, index and documents keep their types.
THEOREM TypeCorrect == SafetySpec => []TypeOK
<1>1. IInv => TypeOK
  BY DEF IInv
<1> QED BY Invariance, <1>1, PTL

\* No step brings back a session that is gone: whoever writes a session has read
\* it in one of the stores, or creates it and so is not the create that made it.
LEMMA GoneStays ==
    ASSUME IInv, [Next]_vars, NEW s \in Requests, Gone(s)
    PROVE  Gone(s)'
<1> USE DEF Gone, Holds, Goto, Failed, request
<1>1. ASSUME NEW r \in Requests, NEW o \in Ops \ {"none"}, NEW t \in Requests \cup {None},
             Arrive(r, o, t)
      PROVE Gone(s)'
  BY <1>1 DEF IInv, TypeOK, Arrive
<1>2. ASSUME NEW r \in Requests, FindByBPP(r) PROVE Gone(s)'
  BY <1>2, AfterDropCases DEF IInv, TypeOK, Placed, FindByBPP
<1>3. ASSUME NEW r \in Requests, Unindex(r) PROVE Gone(s)'
  BY <1>3, AfterDropCases DEF IInv, TypeOK, Placed, Unindex
<1>4. ASSUME NEW r \in Requests, Drop(r) PROVE Gone(s)'
  BY <1>4, AfterDropCases DEF IInv, TypeOK, Placed, Drop
<1>5. ASSUME NEW r \in Requests, ExpireSessions(r) PROVE Gone(s)'
  BY <1>5 DEF IInv, TypeOK, Placed, ExpireSessions
<1>6. ASSUME NEW r \in Requests, SetSession(r) PROVE Gone(s)'
  BY <1>6 DEF IInv, TypeOK, Placed, SetSession, Subject
<1>7. ASSUME NEW r \in Requests, SetIndex(r) PROVE Gone(s)'
  BY <1>7 DEF IInv, TypeOK, Placed, SetIndex
<1>8. ASSUME NEW r \in Requests, SaveSession(r) PROVE Gone(s)'
  BY <1>8 DEF IInv, TypeOK, Placed, SaveSession, Subject
<1>9. ASSUME NEW r \in Requests, Read(r) PROVE Gone(s)'
  BY <1>9 DEF IInv, TypeOK, Placed, Read, AfterRead
<1>10. ASSUME NEW r \in Requests, Fallback(r) PROVE Gone(s)'
  BY <1>10 DEF IInv, TypeOK, Placed, Fallback, AfterFallback
<1>11. ASSUME NEW r \in Requests, Lapse(r) PROVE Gone(s)'
  BY <1>11 DEF IInv, TypeOK, Placed, Lapse
<1>12. ASSUME NEW r \in Requests, ListSessions(r) PROVE Gone(s)'
  BY <1>12 DEF IInv, TypeOK, Placed, ListSessions
<1>13. ASSUME NEW r \in Requests, Remove(r) PROVE Gone(s)'
  BY <1>13 DEF IInv, TypeOK, Placed, Remove
<1>14. ASSUME NEW r \in Requests, PassExpiresAt(r) PROVE Gone(s)'
  BY <1>14 DEF IInv, TypeOK, Placed, PassExpiresAt
<1>15. ASSUME NEW r \in Requests, KeyExpires(r) PROVE Gone(s)'
  BY <1>15 DEF IInv, TypeOK, Placed, KeyExpires
<1>16. CASE IndexExpires \/ UNCHANGED vars
  BY <1>16 DEF IndexExpires, vars
<1>17. ASSUME NEW r \in Requests, ReadPage(r) PROVE Gone(s)'
  BY <1>17 DEF IInv, TypeOK, Placed, ReadPage
<1>18. ASSUME NEW r \in Requests, MatchPage(r) PROVE Gone(s)'
  BY <1>18 DEF IInv, TypeOK, Placed, MatchPage
<1>19. ASSUME NEW r \in Requests, MarkExpired(r) PROVE Gone(s)'
  BY <1>19 DEF IInv, TypeOK, Placed, MarkExpired
<1> QED
  BY <1>1, <1>2, <1>3, <1>4, <1>5, <1>6, <1>7, <1>8, <1>9, <1>10,
     <1>11, <1>12, <1>13, <1>14, <1>15, <1>16, <1>17, <1>18, <1>19 DEF Next

\* Deletion is final: a session that is in neither store, and that no request has
\* read, is never in a store again, whatever requests overlap and calls fail.
THEOREM DeletedForGood == SafetySpec => DeletionIsFinal
<1>1. IInv /\ [Next]_vars => [\A s \in Requests : Gone(s) => Gone(s)']_vars
  BY GoneStays
<1> QED
  BY Invariance, <1>1, PTL DEF SafetySpec, DeletionIsFinal

-----------------------------------------------------------------------------
\* While requests come one at a time and no call fails, no two are in progress, and
\* every session that has a key is the one the index names, except while its
\* deletion or its creation is half done.
Settled ==
    orderly /\ ~fault =>
        /\ \A q, r \in Requests :
            pc[q] \notin {"idle", "done"} /\ pc[r] \notin {"idle", "done"} => q = r
        /\ \A r \in Requests : pc[r] = "drop" => index = None
        /\ \A s \in Requests : redis[s] # "absent" =>
            /\ (\A r \in Requests : pc[r] \notin {"drop", "index"}) => index = s
            /\ \A r \in Requests :
                /\ pc[r] # "expire"
                /\ pc[r] = "lapse" /\ op[r] = "toggle" => target[r] = s
                /\ pc[r] = "set" => op[r] = "toggle" /\ target[r] = s
                /\ pc[r] \in {"unindex", "drop"} => target[r] = s
                /\ pc[r] = "index" => Subject(r) = s

\* Every step keeps it.
LEMMA SettledStays ==
    ASSUME IInv, Settled, [Next]_vars
    PROVE  Settled'
<1> USE DEF Settled, Subject, Goto, Failed, request
<1>1. ASSUME NEW r \in Requests, NEW o \in Ops \ {"none"}, NEW t \in Requests \cup {None},
             Arrive(r, o, t)
      PROVE Settled'
  BY <1>1 DEF IInv, TypeOK, Placed, Arrive, InProgress
<1>2. ASSUME NEW r \in Requests, FindByBPP(r) PROVE Settled'
  <2> SUFFICES ASSUME orderly', ~fault' PROVE Settled'
    BY DEF Settled
  <2>1. orderly /\ ~fault /\ pc[r] = "find" /\ UNCHANGED <<op, redis, index>>
    BY <1>2 DEF FindByBPP
  <2>2. CASE pc' = [pc EXCEPT ![r] = "unindex"] /\ target' = [target EXCEPT ![r] = index]
    BY <2>1, <2>2 DEF IInv, TypeOK, Placed
  <2>3. CASE pc' = [pc EXCEPT ![r] = AfterDrop(r)] /\ target' = target /\ ~Indexed
    <3> DEFINE p == AfterDrop(r)
    <3>1. p \in {"expire", "list", "remove"}
      BY AfterDropCases
    <3>2. pc' = [pc EXCEPT ![r] = p]
      BY <2>3
    <3> HIDE DEF p
    <3>3. \A s \in Requests : redis[s] = "absent"
      BY <2>1, <2>3, SessionsConstants DEF IInv, TypeOK, Indexed
    <3> QED
      BY <2>1, <2>3, <3>1, <3>2, <3>3 DEF IInv, TypeOK, Placed
  <2> QED
    BY <1>2, <2>2, <2>3 DEF FindByBPP
<1>3. ASSUME NEW r \in Requests, Unindex(r) PROVE Settled'
  <2> SUFFICES ASSUME orderly', ~fault' PROVE Settled'
    BY DEF Settled
  <2>1. orderly /\ ~fault /\ pc[r] = "unindex" /\ UNCHANGED <<op, target, redis>>
    BY <1>3 DEF Unindex
  <2>2. CASE pc' = [pc EXCEPT ![r] = "drop"] /\ index' = None /\ redis[target[r]] # "absent"
    BY <2>1, <2>2 DEF IInv, TypeOK, Placed
  <2>3. CASE pc' = [pc EXCEPT ![r] = AfterDrop(r)] /\ index' = index /\ redis[target[r]] = "absent"
    <3> DEFINE p == AfterDrop(r)
    <3>1. p \in {"expire", "list", "remove"}
      BY AfterDropCases
    <3>2. pc' = [pc EXCEPT ![r] = p]
      BY <2>3
    <3> HIDE DEF p
    <3> QED
      BY <2>1, <2>3, <3>1, <3>2 DEF IInv, TypeOK, Placed
  <2> QED
    BY <1>3, <2>2, <2>3 DEF Unindex
<1>4. ASSUME NEW r \in Requests, Drop(r) PROVE Settled'
  BY <1>4, AfterDropCases DEF IInv, TypeOK, Placed, Drop
<1>5. ASSUME NEW r \in Requests, ExpireSessions(r) PROVE Settled'
  BY <1>5 DEF IInv, TypeOK, Placed, ExpireSessions
<1>6. ASSUME NEW r \in Requests, SetSession(r) PROVE Settled'
  BY <1>6 DEF IInv, TypeOK, Placed, SetSession
<1>7. ASSUME NEW r \in Requests, SetIndex(r) PROVE Settled'
  BY <1>7 DEF IInv, TypeOK, Placed, SetIndex
<1>8. ASSUME NEW r \in Requests, SaveSession(r) PROVE Settled'
  BY <1>8 DEF IInv, TypeOK, Placed, SaveSession
<1>9. ASSUME NEW r \in Requests, Read(r) PROVE Settled'
  BY <1>9 DEF IInv, TypeOK, Placed, Read, AfterRead
<1>10. ASSUME NEW r \in Requests, Fallback(r) PROVE Settled'
  <2> SUFFICES ASSUME orderly', ~fault' PROVE Settled'
    BY DEF Settled
  <2>1. orderly /\ ~fault
    <3>1. ~fault
      BY <1>10 DEF Fallback
    <3>2. orderly' = orderly \/ orderly' = (orderly /\ op[r] # "toggle")
      BY <1>10, Zenon DEF Fallback
    <3> QED
      BY <3>1, <3>2
  <2>2. pc[r] = "fallback" /\ UNCHANGED <<op, target, redis, index>>
    BY <1>10 DEF Fallback
  <2>3. \E p \in {"remove", "lapse", "done"} :
           pc' = [pc EXCEPT ![r] = p] /\ (p = "lapse" => op[r] # "toggle")
    BY <1>10 DEF IInv, TypeOK, Fallback, AfterFallback
  <2> QED
    BY <2>1, <2>2, <2>3 DEF IInv, TypeOK, Placed
<1>11. ASSUME NEW r \in Requests, Lapse(r) PROVE Settled'
  BY <1>11 DEF IInv, TypeOK, Placed, Lapse
<1>12. ASSUME NEW r \in Requests, ListSessions(r) PROVE Settled'
  BY <1>12 DEF IInv, TypeOK, Placed, ListSessions
<1>13. ASSUME NEW r \in Requests, Remove(r) PROVE Settled'
  BY <1>13 DEF IInv, TypeOK, Placed, Remove
<1>14. ASSUME NEW r \in Requests, PassExpiresAt(r) PROVE Settled'
  BY <1>14 DEF IInv, TypeOK, Placed, PassExpiresAt
<1>15. ASSUME NEW r \in Requests, KeyExpires(r) PROVE Settled'
  BY <1>15 DEF IInv, TypeOK, Placed, KeyExpires
<1>16. CASE IndexExpires \/ UNCHANGED vars
  BY <1>16 DEF IInv, TypeOK, IndexExpires, Indexed, vars
<1>17. ASSUME NEW r \in Requests, ReadPage(r) PROVE Settled'
  BY <1>17 DEF IInv, TypeOK, Placed, ReadPage
<1>18. ASSUME NEW r \in Requests, MatchPage(r) PROVE Settled'
  BY <1>18 DEF IInv, TypeOK, Placed, MatchPage
<1>19. ASSUME NEW r \in Requests, MarkExpired(r) PROVE Settled'
  BY <1>19 DEF IInv, TypeOK, Placed, MarkExpired
<1> QED
  BY <1>1, <1>2, <1>3, <1>4, <1>5, <1>6, <1>7, <1>8, <1>9, <1>10,
     <1>11, <1>12, <1>13, <1>14, <1>15, <1>16, <1>17, <1>18, <1>19 DEF Next

\* One active session: one at a time, without failures and without a toggle that
\* revives a session, requests leave at most one session that is accepted.
THEOREM AtMostOneUsable == SafetySpec => []OneActiveSession
<1>1. Init => Settled
  BY DEF Init, Settled
<1>2. IInv /\ Settled => OneActiveSession
  <2> SUFFICES ASSUME IInv, Settled, orderly, ~fault PROVE Cardinality(Usable) <= 1
    BY DEF OneActiveSession
  <2>1. ASSUME NEW s \in Usable, NEW t \in Usable PROVE s = t
    BY <2>1 DEF Settled, Usable
  <2>2. CASE Usable = {}
    BY <2>2, FS_EmptySet
  <2>3. CASE \E s : Usable = {s}
    <3> PICK s : Usable = {s}
      BY <2>3
    <3>1. Cardinality({s}) = 1
      BY FS_Singleton
    <3> QED
      BY <3>1
  <2> QED
    BY <2>1, <2>2, <2>3
<1> QED
  BY Invariance, SettledStays, <1>1, <1>2, PTL DEF SafetySpec
=============================================================================
