----------------------------- MODULE Discovery -----------------------------
(***************************************************************************)
(* How one session gets its catalog: POST /sessions/:id/discovery (send a  *)
(* search, poll Redis for the on_search callback, save it), PUT            *)
(* /sessions/:id/catalog (save an uploaded one), and what uses or removes  *)
(* it meanwhile (POST /sessions/:id/preorder, DELETE /sessions/:id).       *)
(*                                                                         *)
(* The status of the catalog lives in Redis and the catalog in MongoDB, so *)
(* every handler touches them in separate calls.  One action is one such   *)
(* call; any call may fail, the process may crash, keys expire.            *)
(***************************************************************************)
EXTENDS Naturals

CONSTANTS
    Discoveries,    \* requests to startDiscovery, each with a fresh transaction
    Uploads,        \* requests to uploadCatalog
    Starts,         \* requests to startPreorder
    Deletes,        \* requests to deleteSession
    Callbacks,      \* on_search callbacks that arrive
    None            \* no callback, no catalog, no discovery

Requests == Discoveries \cup Uploads \cup Starts \cup Deletes

ASSUME DiscoveryConstants ==
    /\ Discoveries \cap Uploads = {} /\ Discoveries \cap Starts = {}
    /\ Discoveries \cap Deletes = {} /\ Uploads \cap Starts = {}
    /\ Uploads \cap Deletes = {} /\ Starts \cap Deletes = {}
    /\ Callbacks \cap Uploads = {}
    /\ None \notin Callbacks \cup Uploads \cup Discoveries

VARIABLES
    pc,             \* [Requests -> where the handler is]
    verify,         \* [Discoveries -> VerificationEnabled of the session it read]
    link,           \* [Discoveries -> route of the search transaction in Redis]
    payload,        \* [Discoveries -> discovery:<txn> in Redis]
    taken,          \* [Discoveries -> onSearchPayload, what the poll returned]
    cb,             \* [Callbacks -> progress of the on_search handler]
    from,           \* [Callbacks -> the search it answers]
    forged,         \* [Callbacks -> it has an Authorization header that does not verify]
    catState,       \* session:<id>:catalog in Redis, "none" when absent
    catalog,        \* the catalog in MongoDB
    fault           \* a call has failed or the process has crashed

vars == <<pc, verify, link, payload, taken, cb, from, forged,
          catState, catalog, fault>>

local  == <<verify, link, payload, taken>>
cbVars == <<cb, from, forged>>
stores == <<catState, catalog>>

\* Every handler first reads the session with Manager.Get and works on that copy;
\* Sessions models what happens to the session itself, so here a request that
\* is refused is no step.  An upload or a start that has been answered is idle
\* again and stands for the client's next one.
Unsent       == {"idle", "link"}
DiscoveryPCs == Unsent \cup {"search", "pending", "poll", "save", "ready", "fail", "done"}
UploadPCs    == {"idle", "ready"}
StartPCs     == {"idle", "load", "nocatalog"}
DeletePCs    == {"idle", "catalog", "done"}

-----------------------------------------------------------------------------
(* Calls that may fail. *)

Goto(r, a, b) == pc[r] = a /\ pc' = [pc EXCEPT ![r] = b]

\* A call that returned an error has changed nothing.
Failed == fault' = TRUE

SetCatalogState(v) ==
    \/ catState' = v /\ UNCHANGED fault
    \/ catState' = catState /\ Failed

SaveCatalog(src) ==
    \/ catalog' = src /\ UNCHANGED fault
    \/ catalog' = catalog /\ Failed

-----------------------------------------------------------------------------
(* startDiscovery *)

\* Get has found the session, and no discovery is pending.  A status that cannot
\* be read counts as none.
StartDiscovery(d) ==
    /\ Goto(d, "idle", "link")
    /\ \/ catState # "pending" /\ UNCHANGED fault
       \/ catState = "pending" /\ Failed
    /\ UNCHANGED <<local, cbVars, stores>>

\* Mutant: the search goes out without its route.
LinkTxnLater(d) ==
    /\ Goto(d, "link", "search")
    /\ \E v \in BOOLEAN : verify' = [verify EXCEPT ![d] = v]
    /\ UNCHANGED <<link, payload, taken, cbVars, stores, fault>>

\* The route of the search transaction, with the flag of the session that Get
\* returned, is in place before the search is sent; an error is ignored.
LinkTxn(d) ==
    /\ Goto(d, "link", "search")
    /\ \E v \in BOOLEAN :
          /\ verify' = [verify EXCEPT ![d] = v]
          /\ \/ link' = [link EXCEPT ![d] = IF v THEN "on" ELSE "off"] /\ UNCHANGED fault
             \/ link' = link /\ Failed
    /\ UNCHANGED <<payload, taken, cbVars, stores>>

\* seller.Search returns an error or a NACK, or an ACK.
SearchReturns(d) ==
    /\ Goto(d, "search", "fail") \/ Goto(d, "search", "pending")
    /\ UNCHANGED <<local, cbVars, stores, fault>>

SetPending(d) ==
    /\ Goto(d, "pending", "poll")
    /\ SetCatalogState("pending")
    /\ UNCHANGED <<local, cbVars, catalog>>

\* Mutant: a timeout that returns without recording the failure.
PollForgets(d) ==
    /\ \/ /\ payload[d] # None
          /\ Goto(d, "poll", "save")
          /\ taken' = [taken EXCEPT ![d] = payload[d]]
       \/ Goto(d, "poll", "done") /\ UNCHANGED taken
    /\ UNCHANGED <<verify, link, payload, cbVars, stores, fault>>

\* One read of pollDiscoveryPayload that finds the payload, or its deadline.
\* A read that fails or finds nothing is repeated.
Poll(d) ==
    /\ \/ /\ payload[d] # None
          /\ Goto(d, "poll", "save")
          /\ taken' = [taken EXCEPT ![d] = payload[d]]
       \/ Goto(d, "poll", "fail") /\ UNCHANGED taken
    /\ UNCHANGED <<verify, link, payload, cbVars, stores, fault>>

Save(d) ==
    /\ Goto(d, "save", "ready")
    /\ SaveCatalog(taken[d])
    /\ UNCHANGED <<local, cbVars, catState>>

SetReady(d) ==
    /\ Goto(d, "ready", "done")
    /\ SetCatalogState("ready")
    /\ UNCHANGED <<local, cbVars, catalog>>

SetFailed(d) ==
    /\ Goto(d, "fail", "done")
    /\ SetCatalogState("failed")
    /\ UNCHANGED <<local, cbVars, catalog>>

-----------------------------------------------------------------------------
(* on_search *)

\* verifyInbound lets the callback through without a header, without a route and
\* for a session without verification; otherwise the signature decides.
Accepts(d, f) == ~(link[d] = "on" /\ f)

\* An on_search for search d arrives, once the search is on its way, and passes.
\* A route that cannot be read counts as missing; a NACK leaves no trace.
OnSearch(c, d, f) ==
    /\ cb[c] = "idle"
    /\ pc[d] \notin Unsent
    /\ \/ Accepts(d, f) /\ UNCHANGED fault
       \/ ~Accepts(d, f) /\ Failed
    /\ cb' = [cb EXCEPT ![c] = "accepted"]
    /\ from' = [from EXCEPT ![c] = d]
    /\ forged' = [forged EXCEPT ![c] = f]
    /\ UNCHANGED <<pc, local, stores>>

\* SetDiscoveryPayload; an error is ignored.
SetDiscoveryPayload(c) ==
    /\ cb[c] = "accepted"
    /\ cb' = [cb EXCEPT ![c] = "done"]
    /\ \/ payload' = [payload EXCEPT ![from[c]] = c] /\ UNCHANGED fault
       \/ payload' = payload /\ Failed
    /\ UNCHANGED <<pc, verify, link, taken, from, forged, stores>>

-----------------------------------------------------------------------------
(* uploadCatalog *)

UploadSave(u) ==
    /\ Goto(u, "idle", "ready")
    /\ SaveCatalog(u)
    /\ UNCHANGED <<local, cbVars, catState>>

UploadReady(u) ==
    /\ Goto(u, "ready", "idle")
    /\ SetCatalogState("ready")
    /\ UNCHANGED <<local, cbVars, catalog>>

-----------------------------------------------------------------------------
(* startPreorder, as far as it reads the catalog *)

\* Mutant: a start that also accepts a discovery in progress.
StartCheckEager(s) ==
    /\ catState \in {"pending", "ready"}
    /\ Goto(s, "idle", "load")
    /\ UNCHANGED <<local, cbVars, stores, fault>>

\* Refused unless ready.
StartCheck(s) ==
    /\ catState = "ready"
    /\ Goto(s, "idle", "load")
    /\ UNCHANGED <<local, cbVars, stores, fault>>

\* The run begins, or it has no catalog and is finished as failed.
StartLoad(s) ==
    /\ \/ catalog # None /\ Goto(s, "load", "idle") /\ UNCHANGED fault
       \/ catalog = None /\ Goto(s, "load", "nocatalog") /\ UNCHANGED fault
       \/ Goto(s, "load", "nocatalog") /\ Failed
    /\ UNCHANGED <<local, cbVars, stores>>

-----------------------------------------------------------------------------
(* deleteSession *)

\* RedisStore.DeleteSession removes the status; an error is ignored.
DeleteState(x) ==
    /\ Goto(x, "idle", "catalog")
    /\ SetCatalogState("none")
    /\ UNCHANGED <<local, cbVars, catalog>>

\* MongoStore.HardDeleteSession removes the catalog; an error is ignored.  It is
\* the first step for a session that is no longer in Redis.
DeleteCatalog(x) ==
    /\ Goto(x, "idle", "done") \/ Goto(x, "catalog", "done")
    /\ \/ catalog' = None /\ UNCHANGED fault
       \/ catalog' = catalog /\ Failed
    /\ UNCHANGED <<local, cbVars, catState>>

-----------------------------------------------------------------------------
(* The environment *)

\* Redis removes the status when its TTL has passed.
StateExpires ==
    /\ catState # "none" /\ catState' = "none"
    /\ UNCHANGED <<pc, local, cbVars, catalog, fault>>

\* The process ends and with it every handler that is under way.
Crash ==
    /\ pc' = [r \in Requests |->
                 CASE r \in Discoveries /\ pc[r] \notin Unsent -> "done"
                   [] r \in Deletes /\ pc[r] # "idle" -> "done"
                   [] pc[r] = "nocatalog" -> "nocatalog"
                   [] OTHER -> "idle"]
    /\ cb' = [c \in Callbacks |-> IF cb[c] = "accepted" THEN "done" ELSE cb[c]]
    /\ pc' # pc \/ cb' # cb
    /\ Failed
    /\ UNCHANGED <<local, from, forged, stores>>

-----------------------------------------------------------------------------
\* A session that has been created and has no catalog yet.
Init ==
    /\ pc = [r \in Requests |-> "idle"]
    /\ verify = [d \in Discoveries |-> FALSE]
    /\ link = [d \in Discoveries |-> "none"]
    /\ payload = [d \in Discoveries |-> None]
    /\ taken = [d \in Discoveries |-> None]
    /\ cb = [c \in Callbacks |-> "idle"]
    /\ from = [c \in Callbacks |-> None]
    /\ forged = [c \in Callbacks |-> FALSE]
    /\ catState = "none"
    /\ catalog = None
    /\ fault = FALSE

Discover(d) ==
    LinkTxn(d) \/ SearchReturns(d) \/ SetPending(d)
        \/ Poll(d) \/ Save(d) \/ SetReady(d) \/ SetFailed(d)

Next ==
    \/ \E d \in Discoveries : StartDiscovery(d) \/ Discover(d)
    \/ \E c \in Callbacks :
          \/ SetDiscoveryPayload(c)
          \/ \E d \in Discoveries, f \in BOOLEAN : OnSearch(c, d, f)
    \/ \E u \in Uploads : UploadSave(u) \/ UploadReady(u)
    \/ \E s \in Starts : StartCheck(s) \/ StartLoad(s)
    \/ \E x \in Deletes : DeleteState(x) \/ DeleteCatalog(x)
    \/ StateExpires
    \/ Crash

SafetySpec == Init /\ [][Next]_vars

\* Handlers that have begun go on: the HTTP client and the poll have deadlines.
\* The TTL of the status is relied on only after a fault.
Spec ==
    /\ SafetySpec
    /\ \A d \in Discoveries : WF_vars(Discover(d))
    /\ WF_vars(fault /\ StateExpires)

-----------------------------------------------------------------------------
\* Type invariant: handlers, routes, payloads, and the status and catalog of the
\* session.
TypeOK ==
    /\ pc \in [Requests -> DiscoveryPCs \cup UploadPCs \cup StartPCs \cup DeletePCs]
    /\ \A d \in Discoveries : pc[d] \in DiscoveryPCs
    /\ \A u \in Uploads : pc[u] \in UploadPCs
    /\ \A s \in Starts : pc[s] \in StartPCs
    /\ \A x \in Deletes : pc[x] \in DeletePCs
    /\ verify \in [Discoveries -> BOOLEAN]
    /\ link \in [Discoveries -> {"none", "on", "off"}]
    /\ payload \in [Discoveries -> Callbacks \cup {None}]
    /\ taken \in [Discoveries -> Callbacks \cup {None}]
    /\ cb \in [Callbacks -> {"idle", "accepted", "done"}]
    /\ from \in [Callbacks -> Discoveries \cup {None}]
    /\ forged \in [Callbacks -> BOOLEAN]
    /\ catState \in {"none", "pending", "failed", "ready"}
    /\ catalog \in Callbacks \cup Uploads \cup {None}
    /\ fault \in BOOLEAN

\* Nobody has begun to delete the session.
Undeleted == \A x \in Deletes : pc[x] = "idle"

\* A start that saw the status "ready" finds a catalog in MongoDB, whatever
\* other discoveries and uploads do between the two reads: it fails for want of
\* a catalog only if the session is being deleted or a call has failed
\* (routes.go:600-603 against 632-636).
StartFindsCatalog ==
    \A s \in Starts : pc[s] = "nocatalog" => fault \/ ~Undeleted

\* While the status is "pending", which refuses every other discovery, some
\* discovery that will still replace it is under way (routes.go:331-334, 374-393).
PendingHasPoller ==
    catState = "pending" /\ ~fault =>
        \E d \in Discoveries : pc[d] \in {"poll", "save", "ready", "fail"}

\* With verification on when the discovery began, a catalog whose signature does
\* not verify is never saved, however the callback races the search's own answer:
\* the route is written before the search is sent (routes.go:353, record.go:35-61).
\* A callback that carries no signature at all passes (record.go:25-27).
CatalogPassedVerification ==
    catalog \in Callbacks /\ ~fault => ~(forged[catalog] /\ verify[from[catalog]])

\* A pending discovery ends, and after a fault the TTL frees the session.
PendingEnds == catState = "pending" ~> catState # "pending"
=============================================================================
