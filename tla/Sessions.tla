------------------------------ MODULE Sessions ------------------------------
(***************************************************************************)
(* The sessions of one BPP (Manager in domain/session, with the Redis and  *)
(* MongoDB stores): POST /sessions, PUT /sessions/:id/verification and     *)
(* .../error_injection, GET /sessions/:id, GET /sessions, which lists them *)
(* a page at a time, DELETE /sessions/:id and DELETE /sessions.            *)
(*                                                                         *)
(* Redis holds a key per session and an index key that names the session   *)
(* of the BPP; MongoDB holds a document per session.  One action is one    *)
(* call to a store.  Any call may fail; keys expire.                       *)
(***************************************************************************)
EXTENDS Naturals, FiniteSets

CONSTANTS
    Requests,       \* HTTP requests; a create names its session after itself
    MaxConcurrent,  \* bound: how many requests are in progress at a time
    None            \* no session

ASSUME SessionsConstants == None \notin Requests /\ MaxConcurrent \in Nat

VARIABLES
    op,             \* [Requests -> what the request is, "none" before it arrives]
    pc,             \* [Requests -> where its handler is]
    target,         \* [Requests -> the session it is about; for a create the old one]
    copy,           \* [Requests -> status in the Session value it holds]
    ids,            \* [Requests -> the sessions a clear or a listing has read]
    redis,          \* [Requests -> status in session:<id>, "absent" without the key]
    index,          \* bpp_session:<bpp>
    mongo,          \* [Requests -> status in the document, "absent" without one]
    late,           \* the sessions past their ExpiresAt
    fault,          \* a call has failed
    orderly         \* no two requests overlapped, no toggle revived a session

vars == <<op, pc, target, copy, ids, redis, index, mongo, late,
          fault, orderly>>

request == <<op, target, copy, ids>>

Statuses == {"absent", "active", "expired"}
Ops == {"none", "create", "toggle", "get", "sessions", "delete", "clear"}
PCs == {"idle", "find", "unindex", "drop", "expire", "set", "index", "save",
        "read", "fallback", "lapse", "page", "match", "mark", "list", "remove", "done"}

Goto(r, a, b) == pc[r] = a /\ pc' = [pc EXCEPT ![r] = b]

\* A call that returned an error has changed nothing.
Failed == fault' = TRUE

InProgress == {r \in Requests : pc[r] \notin {"idle", "done"}}

\* The session that CreateSession and SaveSession write.
Subject(r) == IF op[r] = "create" THEN r ELSE target[r]

-----------------------------------------------------------------------------
\* A request arrives.  A toggle, a get or a delete names a session whose creation
\* has been answered; a toggle is refused, which is no step, while a run is active.
Arrive(r, o, s) ==
    /\ Cardinality(InProgress) < MaxConcurrent
    /\ \/ o \in {"create", "clear", "sessions"} /\ s = None
       \/ o \in {"toggle", "get", "delete"} /\ s # None /\ op[s] = "create" /\ pc[s] = "done"
    /\ Goto(r, "idle", CASE o = "sessions" -> "page" [] s = None -> "find" [] OTHER -> "read")
    /\ op' = [op EXCEPT ![r] = o]
    /\ target' = [target EXCEPT ![r] = s]
    /\ copy' = [copy EXCEPT ![r] = IF o = "create" THEN "active" ELSE "absent"]
    /\ orderly' = (orderly /\ InProgress = {})
    /\ UNCHANGED <<ids, redis, index, mongo, late, fault>>

-----------------------------------------------------------------------------
(* Removal from Redis, for create, clear and delete *)

AfterDrop(r) == CASE op[r] = "create" -> "expire"
                  [] op[r] = "clear" -> "list"
                  [] OTHER -> "remove"

\* The index names a session that still has its key.
Indexed == index # None /\ redis[index] # "absent"

\* GetSessionByBPP; an error counts as no session.
FindByBPP(r) ==
    /\ \/ /\ Indexed
          /\ Goto(r, "find", "unindex")
          /\ target' = [target EXCEPT ![r] = index]
          /\ UNCHANGED fault
       \/ /\ ~Indexed
          /\ Goto(r, "find", AfterDrop(r))
          /\ UNCHANGED <<target, fault>>
       \/ /\ Goto(r, "find", AfterDrop(r))
          /\ UNCHANGED target
          /\ Failed
    /\ UNCHANGED <<op, copy, ids, redis, index, mongo, late, orderly>>

\* DeleteSession reads the session again, then removes the index of its BPP,
\* whichever session that names.
Unindex(r) ==
    /\ \/ /\ Goto(r, "unindex", "drop")
          /\ redis[target[r]] # "absent"
          /\ index' = None
          /\ UNCHANGED fault
       \/ /\ Goto(r, "unindex", AfterDrop(r))
          /\ redis[target[r]] = "absent"
          /\ UNCHANGED <<index, fault>>
       \/ Goto(r, "unindex", "drop") /\ UNCHANGED index /\ Failed
       \/ Goto(r, "unindex", AfterDrop(r)) /\ UNCHANGED index /\ Failed
    /\ UNCHANGED <<request, redis, mongo, late, orderly>>

\* Mutant: only the index is removed, the session keeps its key.
DropKeepsKey(r) ==
    /\ Goto(r, "drop", AfterDrop(r))
    /\ UNCHANGED <<request, redis, index, mongo, late, fault, orderly>>

Drop(r) ==
    /\ Goto(r, "drop", AfterDrop(r))
    /\ \/ redis' = [redis EXCEPT ![target[r]] = "absent"] /\ UNCHANGED fault
       \/ redis' = redis /\ Failed
    /\ UNCHANGED <<request, index, mongo, late, orderly>>

-----------------------------------------------------------------------------
(* Create and the two toggles *)

\* ExpireSessionsByBPP; an error is ignored.
ExpireSessions(r) ==
    /\ Goto(r, "expire", "set")
    /\ \/ /\ mongo' = [s \in Requests |-> IF mongo[s] = "active" THEN "expired" ELSE mongo[s]]
          /\ UNCHANGED fault
       \/ mongo' = mongo /\ Failed
    /\ UNCHANGED <<request, redis, index, late, orderly>>

\* CreateSession writes the session, then the index; an error ends the request.
SetSession(r) ==
    /\ \/ /\ Goto(r, "set", "index")
          /\ redis' = [redis EXCEPT ![Subject(r)] = copy[r]]
          /\ UNCHANGED fault
       \/ Goto(r, "set", "done") /\ redis' = redis /\ Failed
    /\ UNCHANGED <<request, index, mongo, late, orderly>>

SetIndex(r) ==
    /\ \/ Goto(r, "index", "save") /\ index' = Subject(r) /\ UNCHANGED fault
       \/ Goto(r, "index", "done") /\ index' = index /\ Failed
    /\ UNCHANGED <<request, redis, mongo, late, orderly>>

\* A create first writes the states of its catalog and its runs.  Whether one of
\* these calls or SaveSession fails, the document is not written.
SaveSession(r) ==
    /\ Goto(r, "save", "done")
    /\ \/ mongo' = [mongo EXCEPT ![Subject(r)] = copy[r]] /\ UNCHANGED fault
       \/ mongo' = mongo /\ Failed
    /\ UNCHANGED <<request, redis, index, late, orderly>>

-----------------------------------------------------------------------------
(* GetAny, for toggles and gets, and the look-up of Delete *)

AfterRead(r) == IF op[r] = "delete" THEN "unindex" ELSE "lapse"

AfterFallback(r) == IF op[r] = "delete" THEN "remove" ELSE "lapse"

Read(r) ==
    /\ \/ /\ Goto(r, "read", AfterRead(r))
          /\ redis[target[r]] # "absent"
          /\ copy' = [copy EXCEPT ![r] = redis[target[r]]]
          /\ UNCHANGED fault
       \/ Goto(r, "read", "fallback") /\ redis[target[r]] = "absent" /\ UNCHANGED <<copy, fault>>
       \/ Goto(r, "read", "fallback") /\ UNCHANGED copy /\ Failed
    /\ UNCHANGED <<op, target, ids, redis, index, mongo, late, orderly>>

\* Mutant: the error of a session that is nowhere is swallowed.
FallbackDefaults(r) ==
    /\ Goto(r, "fallback", AfterFallback(r))
    /\ copy' = [copy EXCEPT ![r] = "active"]
    /\ UNCHANGED <<op, target, ids, redis, index, mongo, late, fault, orderly>>

\* A toggle goes on with a session that only MongoDB still knows.
Fallback(r) ==
    /\ \/ /\ Goto(r, "fallback", AfterFallback(r))
          /\ mongo[target[r]] # "absent"
          /\ copy' = [copy EXCEPT ![r] = mongo[target[r]]]
          /\ orderly' = (orderly /\ op[r] # "toggle")
          /\ UNCHANGED fault
       \/ /\ Goto(r, "fallback", "done")
          /\ mongo[target[r]] = "absent"
          /\ UNCHANGED <<copy, fault, orderly>>
       \/ Goto(r, "fallback", "done") /\ UNCHANGED <<copy, orderly>> /\ Failed
    /\ UNCHANGED <<op, target, ids, redis, index, mongo, late>>

\* An active session past its ExpiresAt is saved as expired; an error is ignored.
Lapse(r) ==
    /\ Goto(r, "lapse", IF op[r] = "toggle" THEN "set" ELSE "done")
    /\ \/ /\ copy[r] # "active" \/ target[r] \notin late
          /\ UNCHANGED <<copy, mongo, fault>>
       \/ /\ copy[r] = "active" /\ target[r] \in late
          /\ copy' = [copy EXCEPT ![r] = "expired"]
          /\ \/ mongo' = [mongo EXCEPT ![target[r]] = "expired"] /\ UNCHANGED fault
             \/ mongo' = mongo /\ Failed
    /\ UNCHANGED <<op, target, ids, redis, index, late, orderly>>

-----------------------------------------------------------------------------
(* GetSessionsByBPP, for the listing *)

\* A page of the documents; only the active ones matter later.
ReadPage(r) ==
    /\ \/ /\ Goto(r, "page", "match")
          /\ \E page \in SUBSET {s \in Requests : mongo[s] = "active"} : ids' = [ids EXCEPT ![r] = page]
          /\ UNCHANGED fault
       \/ Goto(r, "page", "done") /\ UNCHANGED ids /\ Failed
    /\ UNCHANGED <<op, target, copy, redis, index, mongo, late, orderly>>

\* The sessions past their ExpiresAt, but for the one the index names; an error
\* of GetSessionByBPP counts as no such session.
MatchPage(r) ==
    /\ Goto(r, "match", "mark")
    /\ \/ /\ ids' = [ids EXCEPT ![r] = {s \in @ \cap late : ~(Indexed /\ index = s)}]
          /\ UNCHANGED fault
       \/ ids' = [ids EXCEPT ![r] = @ \cap late] /\ Failed
    /\ UNCHANGED <<op, target, copy, redis, index, mongo, late, orderly>>

\* SaveSession, an upsert, for each of them in turn; errors are ignored.
MarkExpired(r) ==
    /\ \/ /\ Goto(r, "mark", "mark")
          /\ \E s \in ids[r] :
                /\ ids' = [ids EXCEPT ![r] = @ \ {s}]
                /\ \/ mongo' = [mongo EXCEPT ![s] = "expired"] /\ UNCHANGED fault
                   \/ mongo' = mongo /\ Failed
       \/ Goto(r, "mark", "done") /\ ids[r] = {} /\ UNCHANGED <<ids, mongo, fault>>
    /\ UNCHANGED <<op, target, copy, redis, index, late, orderly>>

-----------------------------------------------------------------------------
(* Removal from MongoDB *)

\* HardDeleteSessionsByBPP first lists the sessions of the BPP.
ListSessions(r) ==
    /\ \/ /\ Goto(r, "list", "remove")
          /\ ids' = [ids EXCEPT ![r] = {s \in Requests : mongo[s] # "absent"}]
          /\ UNCHANGED fault
       \/ Goto(r, "list", "done") /\ UNCHANGED ids /\ Failed
    /\ UNCHANGED <<op, target, copy, redis, index, mongo, late, orderly>>

Remove(r) ==
    /\ Goto(r, "remove", "done")
    /\ \/ /\ mongo' = [s \in Requests |->
                          IF s \in (IF op[r] = "clear" THEN ids[r] ELSE {target[r]})
                          THEN "absent" ELSE mongo[s]]
          /\ UNCHANGED fault
       \/ mongo' = mongo /\ Failed
    /\ UNCHANGED <<request, redis, index, late, orderly>>

-----------------------------------------------------------------------------
(* Time *)

PassExpiresAt(s) ==
    /\ op[s] = "create" /\ pc[s] = "done" /\ s \notin late
    /\ late' = late \cup {s}
    /\ UNCHANGED <<request, pc, redis, index, mongo, fault, orderly>>

\* A session's key is written with the TTL of the session at its creation or
\* later, the index key after it.
KeyExpires(s) ==
    /\ s \in late /\ redis[s] # "absent"
    /\ redis' = [redis EXCEPT ![s] = "absent"]
    /\ UNCHANGED <<request, pc, index, mongo, late, fault, orderly>>

IndexExpires ==
    /\ index # None /\ ~Indexed
    /\ index' = None
    /\ UNCHANGED <<request, pc, redis, mongo, late, fault, orderly>>

-----------------------------------------------------------------------------
Init ==
    /\ op = [r \in Requests |-> "none"]
    /\ pc = [r \in Requests |-> "idle"]
    /\ target = [r \in Requests |-> None]
    /\ copy = [r \in Requests |-> "absent"]
    /\ ids = [r \in Requests |-> {}]
    /\ redis = [r \in Requests |-> "absent"]
    /\ index = None
    /\ mongo = [r \in Requests |-> "absent"]
    /\ late = {}
    /\ fault = FALSE
    /\ orderly = TRUE

Next ==
    \/ \E r \in Requests :
          \/ \E o \in Ops \ {"none"}, s \in Requests \cup {None} : Arrive(r, o, s)
          \/ FindByBPP(r) \/ Unindex(r) \/ Drop(r) \/ ExpireSessions(r)
          \/ SetSession(r) \/ SetIndex(r) \/ SaveSession(r)
          \/ Read(r) \/ Fallback(r) \/ Lapse(r) \/ ListSessions(r) \/ Remove(r)
          \/ ReadPage(r) \/ MatchPage(r) \/ MarkExpired(r)
          \/ PassExpiresAt(r) \/ KeyExpires(r)
    \/ IndexExpires

SafetySpec == Init /\ [][Next]_vars

-----------------------------------------------------------------------------
\* Type invariant: requests, keys, index and documents.
TypeOK ==
    /\ op \in [Requests -> Ops]
    /\ pc \in [Requests -> PCs]
    /\ target \in [Requests -> Requests \cup {None}]
    /\ copy \in [Requests -> Statuses]
    /\ ids \in [Requests -> SUBSET Requests]
    /\ redis \in [Requests -> Statuses]
    /\ index \in Requests \cup {None}
    /\ mongo \in [Requests -> Statuses]
    /\ late \in SUBSET Requests
    /\ fault \in BOOLEAN
    /\ orderly \in BOOLEAN

\* The sessions that Manager.Get accepts.
Usable == {s \in Requests : redis[s] = "active" /\ s \notin late}

\* At most one session of the BPP is accepted by Manager.Get, as long as requests
\* came one at a time, no toggle brought back a session that a later create had
\* replaced, and no call failed (manager.go:32-34).  Without these conditions it
\* does not hold: two creations that overlap both stay active.
OneActiveSession == orderly /\ ~fault => Cardinality(Usable) <= 1

\* A session that is in neither store, and that no request has read, is gone for
\* good: only a toggle, a get or a listing that read it before it was deleted can
\* bring it back (manager.go:64-78, 104-117 and 346-364 against 119-130).
Holds(r, s) ==
    \/ /\ target[r] = s
       /\ op[r] \in {"toggle", "get"}
       /\ pc[r] \in {"lapse", "set", "index", "save"}
    \/ s \in ids[r] /\ pc[r] \in {"match", "mark"}

Gone(s) ==
    /\ op[s] = "create" /\ pc[s] = "done"
    /\ redis[s] = "absent" /\ mongo[s] = "absent"
    /\ \A r \in Requests : ~Holds(r, s)

DeletionIsFinal == [][\A s \in Requests : Gone(s) => Gone(s)']_vars
=============================================================================
