--------------------------- MODULE DiscoveryProofs ---------------------------
(***************************************************************************)
(* Proofs about Discovery for any number of requests and callbacks.  Ready *)
(* says when MongoDB has a catalog, Routed and Verified that a forged      *)
(* callback is stopped by the route of its search, and Arrived that what   *)
(* is passed on came in a callback.                                        *)
(***************************************************************************)
EXTENDS Discovery, TLAPS

\* The program counters of the handlers, as TypeOK has them.
PCsTyped ==
    /\ pc \in [Requests -> DiscoveryPCs \cup UploadPCs \cup StartPCs \cup DeletePCs]
    /\ \A d \in Discoveries : pc[d] \in DiscoveryPCs
    /\ \A u \in Uploads : pc[u] \in UploadPCs
    /\ \A s \in Starts : pc[s] \in StartPCs
    /\ \A x \in Deletes : pc[x] \in DeletePCs

\* Nobody deletes the session and no call has failed.
Calm == ~fault /\ Undeleted

\* A catalog is announced, or relied on, after it was saved.
Ready ==
    /\ \A d \in Discoveries : pc[d] = "save" => taken[d] # None
    /\ Calm => /\ catState = "ready" => catalog # None
               /\ \A r \in Discoveries \cup Uploads : pc[r] = "ready" => catalog # None
               /\ \A s \in Starts : pc[s] = "load" => catalog # None

\* A search on its way has a route that asks for verification if its session does.
Routed ==
    ~fault => \A d \in Discoveries : pc[d] \notin Unsent /\ verify[d] => link[d] = "on"

\* A callback that was let through answers a search that is on its way, and its
\* signature was looked at.
Verified ==
    \A c \in Callbacks : cb[c] # "idle" =>
        /\ from[c] \in Discoveries /\ pc[from[c]] \notin Unsent
        /\ ~fault => ~(forged[c] /\ verify[from[c]])

\* Payloads and catalogs that come from the seller came in a callback.
Arrived ==
    /\ \A d \in Discoveries : payload[d] # None => cb[payload[d]] # "idle"
    /\ \A d \in Discoveries : taken[d] # None => cb[taken[d]] # "idle"
    /\ catalog \in Callbacks => cb[catalog] # "idle"

\* The inductive invariant.
IInv == /\ TypeOK
        /\ Ready
        /\ StartFindsCatalog
        /\ PendingHasPoller
        /\ Routed
        /\ Verified
        /\ Arrived

-----------------------------------------------------------------------------

\* The initial state satisfies the inductive invariant.
LEMMA InitInv == Init => IInv
<1>1. Init => TypeOK
  <2> SUFFICES ASSUME Init PROVE TypeOK
    OBVIOUS
  <2>1. PCsTyped
    BY DEF Init, PCsTyped, Requests, DiscoveryPCs, UploadPCs, StartPCs, DeletePCs, Unsent
  <2>2. /\ verify \in [Discoveries -> BOOLEAN]
        /\ forged \in [Callbacks -> BOOLEAN]
        /\ fault \in BOOLEAN
    BY Zenon DEF Init
  <2> QED BY <2>1, <2>2 DEF Init, TypeOK, PCsTyped
<1>2. Init => Ready /\ StartFindsCatalog /\ PendingHasPoller
  BY DEF Init, Requests, Ready, StartFindsCatalog, PendingHasPoller
<1>3. Init => Routed /\ Verified /\ Arrived
  BY DiscoveryConstants DEF Init, Requests, Unsent, Routed, Verified, Arrived
<1> QED BY <1>1, <1>2, <1>3 DEF IInv

\* Starting a discovery keeps the invariant.
LEMMA StartDiscoveryInv ==
    ASSUME NEW d \in Discoveries, IInv, StartDiscovery(d)
    PROVE  IInv'
<1> USE DiscoveryConstants DEF IInv, StartDiscovery, Goto, Failed, local, cbVars, stores
<1>1. TypeOK'
  <2>1. PCsTyped'
    BY DEF TypeOK, PCsTyped, Requests, DiscoveryPCs, UploadPCs, StartPCs, DeletePCs, Unsent
  <2>2. fault' \in BOOLEAN
    BY DEF TypeOK
  <2> QED BY <2>1, <2>2 DEF TypeOK, PCsTyped
<1>2. Ready'
  BY DEF TypeOK, Requests, Ready, Calm, Undeleted
<1>3. StartFindsCatalog'
  BY DEF TypeOK, Requests, StartFindsCatalog, Undeleted
<1>4. PendingHasPoller'
  BY DEF TypeOK, Requests, PendingHasPoller
<1>5. Routed'
  BY DEF TypeOK, Requests, Unsent, Routed
<1>6. Verified'
  BY DEF TypeOK, Requests, Unsent, Verified
<1>7. Arrived'
  BY DEF TypeOK, Arrived
<1> QED BY <1>1, <1>2, <1>3, <1>4, <1>5, <1>6, <1>7

\* Writing the route of a search keeps the invariant.
LEMMA LinkTxnInv ==
    ASSUME NEW d \in Discoveries, IInv, LinkTxn(d)
    PROVE  IInv'
<1> USE DiscoveryConstants DEF IInv, LinkTxn, Goto, Failed, local, cbVars, stores
<1>1. TypeOK'
  <2>1. PCsTyped'
    BY DEF TypeOK, PCsTyped, Requests, DiscoveryPCs, UploadPCs, StartPCs, DeletePCs, Unsent
  <2>2. fault' \in BOOLEAN
    BY DEF TypeOK
  <2> QED BY <2>1, <2>2 DEF TypeOK, PCsTyped
<1>2. Ready'
  BY DEF TypeOK, Requests, Ready, Calm, Undeleted
<1>3. StartFindsCatalog'
  BY DEF TypeOK, Requests, StartFindsCatalog, Undeleted
<1>4. PendingHasPoller'
  BY DEF TypeOK, Requests, PendingHasPoller
<1>5. Routed'
  BY DEF TypeOK, Requests, Unsent, Routed
<1>6. Verified'
  BY DEF TypeOK, Requests, Unsent, Verified
<1>7. Arrived'
  BY DEF TypeOK, Arrived
<1> QED BY <1>1, <1>2, <1>3, <1>4, <1>5, <1>6, <1>7

\* The answer to a search keeps the invariant.
LEMMA SearchReturnsInv ==
    ASSUME NEW d \in Discoveries, IInv, SearchReturns(d)
    PROVE  IInv'
<1> USE DiscoveryConstants DEF IInv, SearchReturns, Goto, Failed, local, cbVars, stores
<1>1. TypeOK'
  <2>1. PCsTyped'
    BY DEF TypeOK, PCsTyped, Requests, DiscoveryPCs, UploadPCs, StartPCs, DeletePCs, Unsent
  <2>2. fault' \in BOOLEAN
    BY DEF TypeOK
  <2> QED BY <2>1, <2>2 DEF TypeOK, PCsTyped
<1>2. Ready'
  BY DEF TypeOK, Requests, Ready, Calm, Undeleted
<1>3. StartFindsCatalog'
  BY DEF TypeOK, Requests, StartFindsCatalog, Undeleted
<1>4. PendingHasPoller'
  BY DEF TypeOK, Requests, PendingHasPoller
<1>5. Routed'
  BY DEF TypeOK, Requests, Unsent, Routed
<1>6. Verified'
  BY DEF TypeOK, Requests, Unsent, Verified
<1>7. Arrived'
  BY DEF TypeOK, Arrived
<1> QED BY <1>1, <1>2, <1>3, <1>4, <1>5, <1>6, <1>7

\* Announcing a pending catalog keeps the invariant.
LEMMA SetPendingInv ==
    ASSUME NEW d \in Discoveries, IInv, SetPending(d)
    PROVE  IInv'
<1> USE DiscoveryConstants
    DEF IInv, SetPending, SetCatalogState, Goto, Failed, local, cbVars, stores
<1>1. TypeOK'
  <2>1. PCsTyped'
    BY DEF TypeOK, PCsTyped, Requests, DiscoveryPCs, UploadPCs, StartPCs, DeletePCs, Unsent
  <2>2. fault' \in BOOLEAN
    BY DEF TypeOK
  <2> QED BY <2>1, <2>2 DEF TypeOK, PCsTyped
<1>2. Ready'
  BY DEF TypeOK, Requests, Ready, Calm, Undeleted
<1>3. StartFindsCatalog'
  BY DEF TypeOK, Requests, StartFindsCatalog, Undeleted
<1>4. PendingHasPoller'
  BY DEF TypeOK, Requests, PendingHasPoller
<1>5. Routed'
  BY DEF TypeOK, Requests, Unsent, Routed
<1>6. Verified'
  BY DEF TypeOK, Requests, Unsent, Verified
<1>7. Arrived'
  BY DEF TypeOK, Arrived
<1> QED BY <1>1, <1>2, <1>3, <1>4, <1>5, <1>6, <1>7

\* A poll that ends keeps the invariant.
LEMMA PollInv ==
    ASSUME NEW d \in Discoveries, IInv, Poll(d)
    PROVE  IInv'
<1> USE DiscoveryConstants DEF IInv, Poll, Goto, Failed, local, cbVars, stores
<1>1. TypeOK'
  <2>1. PCsTyped'
    BY DEF TypeOK, PCsTyped, Requests, DiscoveryPCs, UploadPCs, StartPCs, DeletePCs, Unsent
  <2>2. fault' \in BOOLEAN
    BY DEF TypeOK
  <2> QED BY <2>1, <2>2 DEF TypeOK, PCsTyped
<1>2. Ready'
  BY DEF TypeOK, Requests, Ready, Calm, Undeleted
<1>3. StartFindsCatalog'
  BY DEF TypeOK, Requests, StartFindsCatalog, Undeleted
<1>4. PendingHasPoller'
  BY DEF TypeOK, Requests, PendingHasPoller
<1>5. Routed'
  BY DEF TypeOK, Requests, Unsent, Routed
<1>6. Verified'
  BY DEF TypeOK, Requests, Unsent, Verified
<1>7. Arrived'
  BY DEF TypeOK, Arrived
<1> QED BY <1>1, <1>2, <1>3, <1>4, <1>5, <1>6, <1>7

\* Saving a discovered catalog keeps the invariant.
LEMMA SaveInv ==
    ASSUME NEW d \in Discoveries, IInv, Save(d)
    PROVE  IInv'
<1> USE DiscoveryConstants DEF IInv, Save, SaveCatalog, Goto, Failed, local, cbVars, stores
<1>1. TypeOK'
  <2>1. PCsTyped'
    BY DEF TypeOK, PCsTyped, Requests, DiscoveryPCs, UploadPCs, StartPCs, DeletePCs, Unsent
  <2>2. fault' \in BOOLEAN
    BY DEF TypeOK
  <2> QED BY <2>1, <2>2 DEF TypeOK, PCsTyped
<1>2. Ready'
  BY DEF TypeOK, Requests, Ready, Calm, Undeleted
<1>3. StartFindsCatalog'
  BY DEF TypeOK, Requests, StartFindsCatalog, Undeleted
<1>4. PendingHasPoller'
  BY DEF TypeOK, Requests, PendingHasPoller
<1>5. Routed'
  BY DEF TypeOK, Requests, Unsent, Routed
<1>6. Verified'
  BY DEF TypeOK, Requests, Unsent, Verified
<1>7. Arrived'
  BY DEF TypeOK, Arrived, Ready
<1> QED BY <1>1, <1>2, <1>3, <1>4, <1>5, <1>6, <1>7

\* Announcing a discovered catalog keeps the invariant.
LEMMA SetReadyInv ==
    ASSUME NEW d \in Discoveries, IInv, SetReady(d)
    PROVE  IInv'
<1> USE DiscoveryConstants DEF IInv, SetReady, SetCatalogState, Goto, Failed, local, cbVars, stores
<1>1. TypeOK'
  <2>1. PCsTyped'
    BY DEF TypeOK, PCsTyped, Requests, DiscoveryPCs, UploadPCs, StartPCs, DeletePCs, Unsent
  <2>2. fault' \in BOOLEAN
    BY DEF TypeOK
  <2> QED BY <2>1, <2>2 DEF TypeOK, PCsTyped
<1>2. Ready'
  BY DEF TypeOK, Requests, Ready, Calm, Undeleted
<1>3. StartFindsCatalog'
  BY DEF TypeOK, Requests, StartFindsCatalog, Undeleted
<1>4. PendingHasPoller'
  BY DEF TypeOK, Requests, PendingHasPoller
<1>5. Routed'
  BY DEF TypeOK, Requests, Unsent, Routed
<1>6. Verified'
  BY DEF TypeOK, Requests, Unsent, Verified
<1>7. Arrived'
  BY DEF TypeOK, Arrived
<1> QED BY <1>1, <1>2, <1>3, <1>4, <1>5, <1>6, <1>7

\* Announcing a failed discovery keeps the invariant.
LEMMA SetFailedInv ==
    ASSUME NEW d \in Discoveries, IInv, SetFailed(d)
    PROVE  IInv'
<1> USE DiscoveryConstants DEF IInv, SetFailed, SetCatalogState, Goto, Failed, local, cbVars, stores
<1>1. TypeOK'
  <2>1. PCsTyped'
    BY DEF TypeOK, PCsTyped, Requests, DiscoveryPCs, UploadPCs, StartPCs, DeletePCs, Unsent
  <2>2. fault' \in BOOLEAN
    BY DEF TypeOK
  <2> QED BY <2>1, <2>2 DEF TypeOK, PCsTyped
<1>2. Ready'
  BY DEF TypeOK, Requests, Ready, Calm, Undeleted
<1>3. StartFindsCatalog'
  BY DEF TypeOK, Requests, StartFindsCatalog, Undeleted
<1>4. PendingHasPoller'
  BY DEF TypeOK, Requests, PendingHasPoller
<1>5. Routed'
  BY DEF TypeOK, Requests, Unsent, Routed
<1>6. Verified'
  BY DEF TypeOK, Requests, Unsent, Verified
<1>7. Arrived'
  BY DEF TypeOK, Arrived
<1> QED BY <1>1, <1>2, <1>3, <1>4, <1>5, <1>6, <1>7

\* Storing the payload of a callback keeps the invariant.
LEMMA SetDiscoveryPayloadInv ==
    ASSUME NEW c \in Callbacks, IInv, SetDiscoveryPayload(c)
    PROVE  IInv'
<1> USE DiscoveryConstants DEF IInv, SetDiscoveryPayload, Goto, Failed, local, cbVars, stores
<1>1. TypeOK'
  <2>1. PCsTyped'
    BY DEF TypeOK, PCsTyped, Requests, DiscoveryPCs, UploadPCs, StartPCs, DeletePCs, Unsent
  <2>2. fault' \in BOOLEAN
    BY DEF TypeOK
  <2> QED BY <2>1, <2>2 DEF TypeOK, PCsTyped
<1>2. Ready'
  BY DEF TypeOK, Requests, Ready, Calm, Undeleted
<1>3. StartFindsCatalog'
  BY DEF TypeOK, Requests, StartFindsCatalog, Undeleted
<1>4. PendingHasPoller'
  BY DEF TypeOK, Requests, PendingHasPoller
<1>5. Routed'
  BY DEF TypeOK, Requests, Unsent, Routed
<1>6. Verified'
  BY DEF TypeOK, Requests, Unsent, Verified
<1>7. Arrived'
  BY DEF TypeOK, Arrived
<1> QED BY <1>1, <1>2, <1>3, <1>4, <1>5, <1>6, <1>7

\* Saving an uploaded catalog keeps the invariant.
LEMMA UploadSaveInv ==
    ASSUME NEW u \in Uploads, IInv, UploadSave(u)
    PROVE  IInv'
<1> USE DiscoveryConstants DEF IInv, UploadSave, SaveCatalog, Goto, Failed, local, cbVars, stores
<1>1. TypeOK'
  <2>1. PCsTyped'
    BY DEF TypeOK, PCsTyped, Requests, DiscoveryPCs, UploadPCs, StartPCs, DeletePCs, Unsent
  <2>2. fault' \in BOOLEAN
    BY DEF TypeOK
  <2> QED BY <2>1, <2>2 DEF TypeOK, PCsTyped
<1>2. Ready'
  BY DEF TypeOK, Requests, Ready, Calm, Undeleted
<1>3. StartFindsCatalog'
  BY DEF TypeOK, Requests, StartFindsCatalog, Undeleted
<1>4. PendingHasPoller'
  BY DEF TypeOK, Requests, PendingHasPoller
<1>5. Routed'
  BY DEF TypeOK, Requests, Unsent, Routed
<1>6. Verified'
  BY DEF TypeOK, Requests, Unsent, Verified
<1>7. Arrived'
  BY DEF TypeOK, Arrived
<1> QED BY <1>1, <1>2, <1>3, <1>4, <1>5, <1>6, <1>7

\* Announcing an uploaded catalog keeps the invariant.
LEMMA UploadReadyInv ==
    ASSUME NEW u \in Uploads, IInv, UploadReady(u)
    PROVE  IInv'
<1> USE DiscoveryConstants
    DEF IInv, UploadReady, SetCatalogState, Goto, Failed, local, cbVars, stores
<1>1. TypeOK'
  <2>1. PCsTyped'
    BY DEF TypeOK, PCsTyped, Requests, DiscoveryPCs, UploadPCs, StartPCs, DeletePCs, Unsent
  <2>2. fault' \in BOOLEAN
    BY DEF TypeOK
  <2> QED BY <2>1, <2>2 DEF TypeOK, PCsTyped
<1>2. Ready'
  BY DEF TypeOK, Requests, Ready, Calm, Undeleted
<1>3. StartFindsCatalog'
  BY DEF TypeOK, Requests, StartFindsCatalog, Undeleted
<1>4. PendingHasPoller'
  BY DEF TypeOK, Requests, PendingHasPoller
<1>5. Routed'
  BY DEF TypeOK, Requests, Unsent, Routed
<1>6. Verified'
  BY DEF TypeOK, Requests, Unsent, Verified
<1>7. Arrived'
  BY DEF TypeOK, Arrived
<1> QED BY <1>1, <1>2, <1>3, <1>4, <1>5, <1>6, <1>7

\* The check of a start keeps the invariant.
LEMMA StartCheckInv ==
    ASSUME NEW s \in Starts, IInv, StartCheck(s)
    PROVE  IInv'
<1> USE DiscoveryConstants DEF IInv, StartCheck, Goto, Failed, local, cbVars, stores
<1>1. TypeOK'
  <2>1. PCsTyped'
    BY DEF TypeOK, PCsTyped, Requests, DiscoveryPCs, UploadPCs, StartPCs, DeletePCs, Unsent
  <2>2. fault' \in BOOLEAN
    BY DEF TypeOK
  <2> QED BY <2>1, <2>2 DEF TypeOK, PCsTyped
<1>2. Ready'
  BY DEF TypeOK, Requests, Ready, Calm, Undeleted
<1>3. StartFindsCatalog'
  BY DEF TypeOK, Requests, StartFindsCatalog, Undeleted
<1>4. PendingHasPoller'
  BY DEF TypeOK, Requests, PendingHasPoller
<1>5. Routed'
  BY DEF TypeOK, Requests, Unsent, Routed
<1>6. Verified'
  BY DEF TypeOK, Requests, Unsent, Verified
<1>7. Arrived'
  BY DEF TypeOK, Arrived
<1> QED BY <1>1, <1>2, <1>3, <1>4, <1>5, <1>6, <1>7

\* Loading the catalog of a start keeps the invariant.
LEMMA StartLoadInv ==
    ASSUME NEW s \in Starts, IInv, StartLoad(s)
    PROVE  IInv'
<1> USE DiscoveryConstants DEF IInv, StartLoad, Goto, Failed, local, cbVars, stores
<1>1. TypeOK'
  <2>1. PCsTyped'
    BY DEF TypeOK, PCsTyped, Requests, DiscoveryPCs, UploadPCs, StartPCs, DeletePCs, Unsent
  <2>2. fault' \in BOOLEAN
    BY DEF TypeOK
  <2> QED BY <2>1, <2>2 DEF TypeOK, PCsTyped
<1>2. Ready'
  BY DEF TypeOK, Requests, Ready, Calm, Undeleted
<1>3. StartFindsCatalog'
  BY DEF TypeOK, Requests, StartFindsCatalog, Undeleted, Ready, Calm
<1>4. PendingHasPoller'
  BY DEF TypeOK, Requests, PendingHasPoller
<1>5. Routed'
  BY DEF TypeOK, Requests, Unsent, Routed
<1>6. Verified'
  BY DEF TypeOK, Requests, Unsent, Verified
<1>7. Arrived'
  BY DEF TypeOK, Arrived
<1> QED BY <1>1, <1>2, <1>3, <1>4, <1>5, <1>6, <1>7

\* Removing the status keeps the invariant.
LEMMA DeleteStateInv ==
    ASSUME NEW x \in Deletes, IInv, DeleteState(x)
    PROVE  IInv'
<1> USE DiscoveryConstants
    DEF IInv, DeleteState, SetCatalogState, Goto, Failed, local, cbVars, stores
<1>1. TypeOK'
  <2>1. PCsTyped'
    BY DEF TypeOK, PCsTyped, Requests, DiscoveryPCs, UploadPCs, StartPCs, DeletePCs, Unsent
  <2>2. fault' \in BOOLEAN
    BY DEF TypeOK
  <2> QED BY <2>1, <2>2 DEF TypeOK, PCsTyped
<1>2. Ready'
  BY DEF TypeOK, Requests, Ready, Calm, Undeleted
<1>3. StartFindsCatalog'
  BY DEF TypeOK, Requests, StartFindsCatalog, Undeleted
<1>4. PendingHasPoller'
  BY DEF TypeOK, Requests, PendingHasPoller
<1>5. Routed'
  BY DEF TypeOK, Requests, Unsent, Routed
<1>6. Verified'
  BY DEF TypeOK, Requests, Unsent, Verified
<1>7. Arrived'
  BY DEF TypeOK, Arrived
<1> QED BY <1>1, <1>2, <1>3, <1>4, <1>5, <1>6, <1>7

\* Removing the catalog keeps the invariant.
LEMMA DeleteCatalogInv ==
    ASSUME NEW x \in Deletes, IInv, DeleteCatalog(x)
    PROVE  IInv'
<1> USE DiscoveryConstants DEF IInv, DeleteCatalog, Goto, Failed, local, cbVars, stores
<1>1. TypeOK'
  <2>1. PCsTyped'
    BY DEF TypeOK, PCsTyped, Requests, DiscoveryPCs, UploadPCs, StartPCs, DeletePCs, Unsent
  <2>2. fault' \in BOOLEAN
    BY DEF TypeOK
  <2> QED BY <2>1, <2>2 DEF TypeOK, PCsTyped
<1>2. Ready'
  BY DEF TypeOK, Requests, Ready, Calm, Undeleted
<1>3. StartFindsCatalog'
  BY DEF TypeOK, Requests, StartFindsCatalog, Undeleted
<1>4. PendingHasPoller'
  BY DEF TypeOK, Requests, PendingHasPoller
<1>5. Routed'
  BY DEF TypeOK, Requests, Unsent, Routed
<1>6. Verified'
  BY DEF TypeOK, Requests, Unsent, Verified
<1>7. Arrived'
  BY DEF TypeOK, Arrived
<1> QED BY <1>1, <1>2, <1>3, <1>4, <1>5, <1>6, <1>7

\* An on_search that is let through keeps the invariant.
LEMMA OnSearchInv ==
    ASSUME NEW c \in Callbacks, NEW d \in Discoveries, NEW f \in BOOLEAN, IInv, OnSearch(c, d, f)
    PROVE  IInv'
<1> USE DiscoveryConstants DEF IInv, OnSearch, Accepts, Goto, Failed, local, cbVars, stores
<1>1. TypeOK'
  <2>1. PCsTyped'
    BY DEF TypeOK, PCsTyped, Requests, DiscoveryPCs, UploadPCs, StartPCs, DeletePCs, Unsent
  <2>2. fault' \in BOOLEAN
    BY DEF TypeOK
  <2> QED BY <2>1, <2>2 DEF TypeOK, PCsTyped
<1>2. Ready'
  BY DEF TypeOK, Requests, Ready, Calm, Undeleted
<1>3. StartFindsCatalog'
  BY DEF TypeOK, Requests, StartFindsCatalog, Undeleted
<1>4. PendingHasPoller'
  BY DEF TypeOK, Requests, PendingHasPoller
<1>5. Routed'
  BY DEF TypeOK, Requests, Unsent, Routed
<1>6. Verified'
  BY DEF TypeOK, Requests, Unsent, Verified, Routed
<1>7. Arrived'
  BY DEF TypeOK, Arrived
<1> QED BY <1>1, <1>2, <1>3, <1>4, <1>5, <1>6, <1>7

\* The end of the status key keeps the invariant.
LEMMA StateExpiresInv ==
    ASSUME IInv, StateExpires
    PROVE  IInv'
<1> USE DiscoveryConstants DEF IInv, StateExpires, Goto, Failed, local, cbVars, stores
<1>1. TypeOK'
  <2>1. PCsTyped'
    BY DEF TypeOK, PCsTyped, Requests, DiscoveryPCs, UploadPCs, StartPCs, DeletePCs, Unsent
  <2>2. fault' \in BOOLEAN
    BY DEF TypeOK
  <2> QED BY <2>1, <2>2 DEF TypeOK, PCsTyped
<1>2. Ready'
  BY DEF TypeOK, Requests, Ready, Calm, Undeleted
<1>3. StartFindsCatalog'
  BY DEF TypeOK, Requests, StartFindsCatalog, Undeleted
<1>4. PendingHasPoller'
  BY DEF TypeOK, Requests, PendingHasPoller
<1>5. Routed'
  BY DEF TypeOK, Requests, Unsent, Routed
<1>6. Verified'
  BY DEF TypeOK, Requests, Unsent, Verified
<1>7. Arrived'
  BY DEF TypeOK, Arrived
<1> QED BY <1>1, <1>2, <1>3, <1>4, <1>5, <1>6, <1>7

\* A crash keeps the invariant.
LEMMA CrashInv ==
    ASSUME IInv, Crash
    PROVE  IInv'
<1> USE DiscoveryConstants DEF IInv, Crash, Goto, Failed, local, cbVars, stores
<1>1. TypeOK'
  <2>1. PCsTyped'
    BY DEF TypeOK, PCsTyped, Requests, DiscoveryPCs, UploadPCs, StartPCs, DeletePCs, Unsent
  <2>2. fault' \in BOOLEAN
    BY DEF TypeOK
  <2> QED BY <2>1, <2>2 DEF TypeOK, PCsTyped
<1>2. Ready'
  BY DEF TypeOK, Requests, Ready, Calm, Undeleted
<1>3. StartFindsCatalog'
  BY DEF TypeOK, Requests, StartFindsCatalog, Undeleted
<1>4. PendingHasPoller'
  BY DEF TypeOK, Requests, PendingHasPoller
<1>5. Routed'
  BY DEF TypeOK, Requests, Unsent, Routed
<1>6. Verified'
  BY DEF TypeOK, Requests, Unsent, Verified
<1>7. Arrived'
  BY DEF TypeOK, Arrived
<1> QED BY <1>1, <1>2, <1>3, <1>4, <1>5, <1>6, <1>7

\* A step that changes nothing keeps the invariant.
LEMMA StutterInv == IInv /\ UNCHANGED vars => IInv'
  BY DEF IInv, vars, TypeOK, Ready, Calm, Undeleted, StartFindsCatalog, PendingHasPoller,
         Routed, Verified, Arrived

\* Every step keeps the invariant.
LEMMA NextInv == IInv /\ [Next]_vars => IInv'
  BY StartDiscoveryInv, LinkTxnInv, SearchReturnsInv, SetPendingInv, PollInv, SaveInv,
     SetReadyInv, SetFailedInv, SetDiscoveryPayloadInv, UploadSaveInv, UploadReadyInv,
     StartCheckInv, StartLoadInv, DeleteStateInv, DeleteCatalogInv, OnSearchInv,
     StateExpiresInv, CrashInv, StutterInv
     DEF Next, Discover

\* The inductive invariant holds in every reachable state.
LEMMA InvHolds == SafetySpec => []IInv
  BY InitInv, NextInv, PTL DEF SafetySpec

\* Handlers, routes, payloads and the two stores keep their types.
THEOREM TypeCorrect == SafetySpec => []TypeOK
<1>1. IInv => TypeOK
  BY DEF IInv
<1> QED BY InvHolds, <1>1, PTL

\* A start that was let through finds a catalog, whatever other handlers do between
\* its reads of Redis and MongoDB, unless the session is deleted or a call failed.
THEOREM StartsFindCatalog == SafetySpec => []StartFindsCatalog
<1>1. IInv => StartFindsCatalog
  BY DEF IInv
<1> QED BY InvHolds, <1>1, PTL

\* While no call has failed, a pending status has a discovery that will replace it.
THEOREM PendingIsPolled == SafetySpec => []PendingHasPoller
<1>1. IInv => PendingHasPoller
  BY DEF IInv
<1> QED BY InvHolds, <1>1, PTL

\* No catalog that fails verification is saved for a session that asked for it.
THEOREM CatalogIsVerified == SafetySpec => []CatalogPassedVerification
<1>1. IInv => CatalogPassedVerification
  BY DEF IInv, Arrived, Verified, CatalogPassedVerification
<1> QED BY InvHolds, <1>1, PTL
=============================================================================
