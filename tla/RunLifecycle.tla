---------------------------- MODULE RunLifecycle ----------------------------
(***************************************************************************)
(* The life of the pre-order runs of one session: the HTTP handlers        *)
(* startPreorder, stopRun and deleteSession                                *)
(* (internal/handlers/testing/routes.go), the session manager they call    *)
(* (internal/domain/session/manager.go) and the keys it keeps in Redis and *)
(* MongoDB (internal/ports/session).  Every handler runs concurrently with *)
(* the others; each Redis or MongoDB call is a step, and what a handler    *)
(* read before a call may be stale after it.  A start request and the run  *)
(* it creates have one name.                                               *)
(***************************************************************************)
EXTENDS Naturals, FiniteSets

CONSTANTS Starts,   \* start requests, each the run it may create
          Stops,    \* stop requests
          NumStages, \* stages of the pipeline: select, init and confirm
          MaxExpired, \* bound: runs whose Redis document may expire
          NoRun     \* PreorderState.ActiveRunID = ""

ASSUME LifecycleConstants == NumStages \in Nat \ {0} /\ MaxExpired \in Nat /\ NoRun \notin Starts

VARIABLES
    present,    \* the session key exists in Redis
    preorder,   \* session:<id>:preorder; a missing key reads as idle
    redisRun,   \* run:<id> of each run: its status, or "none"
    redisSys,   \* the runs whose Redis document has the throttle metrics
    mongoRun,   \* status in the runs collection, or "none"
    mongoSys,   \* the runs whose MongoDB document has the throttle metrics
    spc,        \* program counter of each start request and its goroutine
    stage,      \* the pipeline stage a run is in
    verdict,    \* the status FinishRun is called with
    seen,       \* the status SetRunSystemMetrics read
    copied,     \* the runs whose goroutine's copy of the document has them
    qpc,        \* program counter of each stop request
    qrun,       \* the run a stop request found active
    qcopied,    \* the stop requests whose copy has the throttle metrics
    dpc,        \* program counter of the delete request
    lost,       \* a crash or a failed Redis or MongoDB call has happened
    expired     \* history: the runs whose Redis document expired before their end

startVars == <<spc, stage, verdict, seen, copied>>
stopVars == <<qpc, qrun, qcopied>>
runDocs == <<redisRun, redisSys, mongoRun, mongoSys>>
vars == <<present, preorder, redisRun, redisSys, mongoRun, mongoSys, spc, stage,
          verdict, seen, copied, qpc, qrun, qcopied, dpc, lost, expired>>

IdleState == [status |-> "idle", run |-> NoRun]
PreorderStates == [status : {"idle", "running", "stopping"}, run : Starts \cup {NoRun}]
RunStatus == {"none", "running", "stopping", "completed", "failed"}

Init ==
    /\ present = TRUE
    /\ preorder = IdleState
    /\ redisRun = [r \in Starts |-> "none"]
    /\ redisSys = {}
    /\ mongoRun = [r \in Starts |-> "none"]
    /\ mongoSys = {}
    /\ spc = [r \in Starts |-> "new"]
    /\ stage = [r \in Starts |-> 0]
    /\ verdict = [r \in Starts |-> "none"]
    /\ seen = [r \in Starts |-> "none"]
    /\ copied = {}
    /\ qpc = [q \in Stops |-> "new"]
    /\ qrun = [q \in Stops |-> NoRun]
    /\ qcopied = {}
    /\ dpc = "new"
    /\ lost = FALSE
    /\ expired = {}

Goto(r, at) == spc' = [spc EXCEPT ![r] = at]

\* S with r in it exactly when r is in T: r's document copied from T to S.
Copy(r, S, T) == IF r \in T THEN S \cup {r} ELSE S \ {r}

-----------------------------------------------------------------------------
(* startPreorder, in the handler of request r.                             *)

\* Manager.Get, the catalog state and the request body.
CheckSession(r) ==
    /\ spc[r] = "new"
    /\ \/ present /\ Goto(r, "read")
       \/ Goto(r, "rejected")
    /\ UNCHANGED <<present, preorder, runDocs, stage, verdict, seen, copied, stopVars, dpc, lost,
                   expired>>

\* StartRun reads the preorder state; only "running" is refused, and a read that
\* fails counts as idle.
ReadPreorder(r) ==
    /\ spc[r] = "read"
    /\ \/ /\ Goto(r, IF preorder.status = "running" THEN "rejected" ELSE "create")
          /\ UNCHANGED lost
       \/ Goto(r, "create") /\ lost' = TRUE
    /\ UNCHANGED <<present, preorder, runDocs, stage, verdict, seen, copied, stopVars, dpc, expired>>

\* state.CreateRun: the document exists before anything refers to it.  An error
\* fails the request.
CreateRun(r) ==
    /\ spc[r] = "create"
    /\ \/ /\ redisRun' = [redisRun EXCEPT ![r] = "running"]
          /\ Goto(r, "claim")
       \/ Goto(r, "rejected") /\ UNCHANGED redisRun
    /\ UNCHANGED <<present, preorder, redisSys, mongoRun, mongoSys, stage, verdict, seen, copied,
                   stopVars, dpc, lost, expired>>

\* SetPreorderState(running, r); an error of Redis fails the request.
Claim(r) ==
    /\ spc[r] = "claim"
    /\ \/ /\ preorder' = [status |-> "running", run |-> r]
          /\ Goto(r, "prepare")
       \/ /\ Goto(r, "rejected")
          /\ UNCHANGED preorder
    /\ UNCHANGED <<present, runDocs, stage, verdict, seen, copied, stopVars, dpc, lost, expired>>

\* Mutant: an error return that forgets FinishRun.
PrepareLeaks(r) ==
    /\ spc[r] = "prepare"
    /\ \/ /\ stage' = [stage EXCEPT ![r] = 1]
          /\ Goto(r, "pipeline")
          /\ UNCHANGED verdict
       \/ /\ verdict' = [verdict EXCEPT ![r] = "failed"]
          /\ Goto(r, "done")
          /\ UNCHANGED stage
    /\ UNCHANGED <<present, preorder, runDocs, seen, copied, stopVars, dpc, lost, expired>>

\* GetCatalog and the select batch: the goroutine starts, or FinishRun(failed).
Prepare(r) ==
    /\ spc[r] = "prepare"
    /\ \/ /\ stage' = [stage EXCEPT ![r] = 1]
          /\ Goto(r, "pipeline")
          /\ UNCHANGED verdict
       \/ /\ verdict' = [verdict EXCEPT ![r] = "failed"]
          /\ Goto(r, "statusRead")
          /\ UNCHANGED stage
    /\ UNCHANGED <<present, preorder, runDocs, seen, copied, stopVars, dpc, lost, expired>>

\* runPreorder goes on to its next stage, or returns: after the last stage, or
\* early when a stage sent nothing.  Nothing here looks at the preorder state.
RunStage(r) ==
    /\ spc[r] = "pipeline"
    /\ \/ /\ stage[r] < NumStages
          /\ stage' = [stage EXCEPT ![r] = @ + 1]
          /\ UNCHANGED <<spc, verdict>>
       \/ /\ verdict' = [verdict EXCEPT ![r] = "completed"]
          /\ stage' = [stage EXCEPT ![r] = 0]
          /\ Goto(r, "sysRead")
    /\ UNCHANGED <<present, preorder, runDocs, seen, copied, stopVars, dpc, lost, expired>>

\* SetRunSystemMetrics gets the run, from MongoDB when Redis has lost it, and adds
\* the throttle metrics; without a document it is done ...
SysRead(r) ==
    /\ spc[r] = "sysRead"
    /\ seen' = [seen EXCEPT ![r] = IF redisRun[r] # "none" THEN redisRun[r] ELSE mongoRun[r]]
    /\ Goto(r, IF seen'[r] # "none" THEN "sysWrite" ELSE "statusRead")
    /\ UNCHANGED <<present, preorder, runDocs, stage, verdict, copied, stopVars, dpc, lost, expired>>

\* ... writes the whole document back to Redis with the status it had read;
\* after an error of this or of the read it is done ...
SysWrite(r) ==
    /\ spc[r] = "sysWrite"
    /\ \/ /\ redisRun' = [redisRun EXCEPT ![r] = seen[r]]
          /\ redisSys' = redisSys \cup {r}
          /\ Goto(r, "sysSave")
          /\ UNCHANGED lost
       \/ /\ Goto(r, "statusRead")
          /\ lost' = TRUE
          /\ UNCHANGED <<redisRun, redisSys>>
    /\ UNCHANGED <<present, preorder, mongoRun, mongoSys, stage, verdict, seen, copied, stopVars,
                   dpc, expired>>

\* ... and then to MongoDB, whose error is ignored.
SysSave(r) ==
    /\ spc[r] = "sysSave"
    /\ \/ /\ mongoRun' = [mongoRun EXCEPT ![r] = seen[r]]
          /\ mongoSys' = mongoSys \cup {r}
          /\ UNCHANGED lost
       \/ lost' = TRUE /\ UNCHANGED <<mongoRun, mongoSys>>
    /\ seen' = [seen EXCEPT ![r] = "none"]
    /\ Goto(r, "statusRead")
    /\ UNCHANGED <<present, preorder, redisRun, redisSys, stage, verdict, copied, stopVars,
                   dpc, expired>>

-----------------------------------------------------------------------------
(* FinishRun(r, verdict), in the handler or the goroutine of r.            *)

\* UpdateRunStatus reads the document; when it has expired, that error is ignored
\* and nothing is written ...
StatusRead(r) ==
    /\ spc[r] = "statusRead"
    /\ copied' = Copy(r, copied, redisSys)
    /\ Goto(r, IF redisRun[r] # "none" THEN "statusWrite" ELSE "idle")
    /\ UNCHANGED <<present, preorder, runDocs, stage, verdict, seen, stopVars, dpc, lost, expired>>

\* ... and writes it back with the final status; FinishRun ignores an error.
StatusWrite(r) ==
    /\ spc[r] = "statusWrite"
    /\ \/ /\ redisRun' = [redisRun EXCEPT ![r] = verdict[r]]
          /\ redisSys' = Copy(r, redisSys, copied)
          /\ UNCHANGED lost
       \/ lost' = TRUE /\ UNCHANGED <<redisRun, redisSys>>
    /\ copied' = copied \ {r}
    /\ Goto(r, "idle")
    /\ UNCHANGED <<present, preorder, mongoRun, mongoSys, stage, verdict, seen, stopVars,
                   dpc, expired>>

\* SetPreorderState(idle), whichever run is active by now; an error is ignored.
SetIdle(r) ==
    /\ spc[r] = "idle"
    /\ \/ preorder' = IdleState /\ UNCHANGED lost
       \/ lost' = TRUE /\ UNCHANGED preorder
    /\ Goto(r, "save")
    /\ UNCHANGED <<present, runDocs, stage, verdict, seen, copied, stopVars, dpc, expired>>

\* Mutant: the status saved is the one the document has.
SaveFinalAsRead(r) ==
    /\ spc[r] = "save"
    /\ mongoRun' = [mongoRun EXCEPT ![r] = redisRun[r]]
    /\ mongoSys' = Copy(r, mongoSys, redisSys)
    /\ Goto(r, "done")
    /\ UNCHANGED <<present, preorder, redisRun, redisSys, stage, verdict, seen, copied, stopVars,
                   dpc, lost, expired>>

\* Mutant: a fresh document is saved instead of the one in Redis.
SaveFinalFresh(r) ==
    /\ spc[r] = "save"
    /\ mongoRun' = [mongoRun EXCEPT ![r] = verdict[r]]
    /\ mongoSys' = mongoSys \ {r}
    /\ Goto(r, "done")
    /\ UNCHANGED <<present, preorder, redisRun, redisSys, stage, verdict, seen, copied, stopVars,
                   dpc, lost, expired>>

\* GetMetrics, GetRun and SaveRun with the final status; errors are ignored, and
\* a run whose document has expired is not saved.
SaveFinal(r) ==
    /\ spc[r] = "save"
    /\ \/ /\ redisRun[r] # "none"
          /\ mongoRun' = [mongoRun EXCEPT ![r] = verdict[r]]
          /\ mongoSys' = Copy(r, mongoSys, redisSys)
          /\ UNCHANGED lost
       \/ redisRun[r] = "none" /\ UNCHANGED <<mongoRun, mongoSys, lost>>
       \/ /\ lost' = TRUE
          /\ UNCHANGED <<mongoRun, mongoSys>>
    /\ Goto(r, "done")
    /\ UNCHANGED <<present, preorder, redisRun, redisSys, stage, verdict, seen, copied, stopVars,
                   dpc, expired>>

-----------------------------------------------------------------------------
(* stopRun, in the handler of request q.                                   *)

StopGoto(q, at) == qpc' = [qpc EXCEPT ![q] = at]

StopRead(q) ==
    /\ qpc[q] = "new"
    /\ \/ /\ preorder.status = "running" /\ preorder.run # NoRun
          /\ qrun' = [qrun EXCEPT ![q] = preorder.run]
          /\ StopGoto(q, "set")
       \/ StopGoto(q, "rejected") /\ UNCHANGED qrun
    /\ UNCHANGED <<present, preorder, runDocs, startVars, qcopied, dpc, lost, expired>>

\* Mutant: the state is written back as it was read.
StopSetRunning(q) ==
    /\ qpc[q] = "set"
    /\ preorder' = [status |-> "running", run |-> qrun[q]]
    /\ StopGoto(q, "statusRead")
    /\ UNCHANGED <<present, runDocs, startVars, qrun, qcopied, dpc, lost, expired>>

\* SetPreorderState(stopping, the run that was read); an error is ignored.
StopSet(q) ==
    /\ qpc[q] = "set"
    /\ \/ preorder' = [status |-> "stopping", run |-> qrun[q]] /\ UNCHANGED lost
       \/ lost' = TRUE /\ UNCHANGED preorder
    /\ StopGoto(q, "statusRead")
    /\ UNCHANGED <<present, runDocs, startVars, qrun, qcopied, dpc, expired>>

\* UpdateRunStatus(stopping): read, which ends the request when the document is
\* gone ...
StopStatusRead(q) ==
    /\ qpc[q] = "statusRead"
    /\ qcopied' = IF qrun[q] \in redisSys THEN qcopied \cup {q} ELSE qcopied
    /\ StopGoto(q, IF redisRun[qrun[q]] # "none" THEN "statusWrite" ELSE "done")
    /\ UNCHANGED <<present, preorder, runDocs, startVars, qrun, dpc, lost, expired>>

\* ... and write, whose error is ignored; the response is sent.
StopStatusWrite(q) ==
    /\ qpc[q] = "statusWrite"
    /\ \/ /\ redisRun' = [redisRun EXCEPT ![qrun[q]] = "stopping"]
          /\ redisSys' = IF q \in qcopied THEN redisSys \cup {qrun[q]} ELSE redisSys \ {qrun[q]}
          /\ UNCHANGED lost
       \/ lost' = TRUE /\ UNCHANGED <<redisRun, redisSys>>
    /\ qcopied' = qcopied \ {q}
    /\ StopGoto(q, "done")
    /\ UNCHANGED <<present, preorder, mongoRun, mongoSys, startVars, qrun, dpc, expired>>

-----------------------------------------------------------------------------
(* deleteSession, crashes and expiry.                                      *)

\* state.DeleteSession: the session, catalog and preorder keys.
DeleteRedis ==
    /\ dpc = "new"
    /\ present' = FALSE
    /\ preorder' = IdleState
    /\ dpc' = "mongo"
    /\ UNCHANGED <<runDocs, startVars, stopVars, lost, expired>>

\* persist.HardDeleteSession: the session's runs go too.
DeleteMongo ==
    /\ dpc = "mongo"
    /\ mongoRun' = [r \in Starts |-> "none"]
    /\ mongoSys' = {}
    /\ dpc' = "done"
    /\ UNCHANGED <<present, preorder, redisRun, redisSys, startVars, stopVars, lost, expired>>

\* The process dies and is started again: what was in progress is gone, the
\* keys stay.  There is no recovery code.
Crash ==
    /\ ~lost
    /\ lost' = TRUE
    /\ spc' = [r \in Starts |-> IF spc[r] \in {"new", "rejected", "done"} THEN spc[r] ELSE "lost"]
    /\ qpc' = [q \in Stops |-> IF qpc[q] \in {"new", "rejected", "done"} THEN qpc[q] ELSE "lost"]
    /\ dpc' = IF dpc = "mongo" THEN "done" ELSE dpc
    /\ stage' = [r \in Starts |-> 0]
    /\ seen' = [r \in Starts |-> "none"]
    /\ copied' = {}
    /\ qcopied' = {}
    /\ UNCHANGED <<present, preorder, runDocs, verdict, qrun, expired>>

\* The preorder key outlives its TTL (external: Redis).
ExpirePreorder ==
    /\ preorder # IdleState
    /\ preorder' = IdleState
    /\ UNCHANGED <<present, runDocs, startVars, stopVars, dpc, lost, expired>>

\* So does the document of run r, which is created before the preorder key is
\* written and is not touched while the pipeline runs (external: Redis).
ExpireRun(r) ==
    /\ redisRun[r] # "none"
    /\ Cardinality(expired \cup {r}) <= MaxExpired
    /\ redisRun' = [redisRun EXCEPT ![r] = "none"]
    /\ redisSys' = redisSys \ {r}
    /\ expired' = IF spc[r] = "done" THEN expired ELSE expired \cup {r}
    /\ UNCHANGED <<present, preorder, mongoRun, mongoSys, startVars, stopVars, dpc, lost>>

-----------------------------------------------------------------------------
FinishRun(r) == StatusRead(r) \/ StatusWrite(r) \/ SetIdle(r) \/ SaveFinal(r)

StartRun(r) == ReadPreorder(r) \/ CreateRun(r) \/ Claim(r)

StartPreorder(r) ==
    \/ CheckSession(r)
    \/ StartRun(r)
    \/ Prepare(r)
    \/ RunStage(r)
    \/ SysRead(r)
    \/ SysWrite(r)
    \/ SysSave(r)
    \/ FinishRun(r)

StopRun(q) == StopRead(q) \/ StopSet(q) \/ StopStatusRead(q) \/ StopStatusWrite(q)

Ended == {"done", "rejected", "lost"}

\* Every request is answered and every run is over.
Quiet ==
    /\ \A r \in Starts : spc[r] \in Ended
    /\ \A q \in Stops : qpc[q] \in Ended
    /\ UNCHANGED vars

Next ==
    \/ \E r \in Starts : StartPreorder(r)
    \/ \E q \in Stops : StopRun(q)
    \/ DeleteRedis
    \/ DeleteMongo
    \/ Crash
    \/ ExpirePreorder
    \/ \E r \in Starts : ExpireRun(r)
    \/ Quiet

SafetySpec == Init /\ [][Next]_vars

\* A request that was received and a goroutine that was started are scheduled,
\* and stages end (WaitForCount has a deadline, the HTTP client a timeout).
\* Crashes, deletions and expiry need never happen.
Spec ==
    /\ SafetySpec
    /\ \A r \in Starts : WF_vars(StartPreorder(r))

-----------------------------------------------------------------------------
(* Properties.                                                             *)

StartPCs == {"new", "read", "create", "claim", "prepare", "pipeline", "sysRead", "sysWrite",
             "sysSave", "statusRead", "statusWrite", "idle", "save", "done",
             "rejected", "lost"}
StopPCs == {"new", "set", "statusRead", "statusWrite", "done", "rejected", "lost"}

\* Type invariant: the keys, the documents and the program counters.
TypeOK ==
    /\ present \in BOOLEAN
    /\ preorder \in PreorderStates
    /\ redisRun \in [Starts -> RunStatus]
    /\ redisSys \in SUBSET Starts
    /\ mongoRun \in [Starts -> RunStatus]
    /\ mongoSys \in SUBSET Starts
    /\ spc \in [Starts -> StartPCs]
    /\ stage \in [Starts -> 0..NumStages]
    /\ verdict \in [Starts -> {"none", "completed", "failed"}]
    /\ seen \in [Starts -> RunStatus]
    /\ copied \in SUBSET Starts
    /\ qpc \in [Stops -> StopPCs]
    /\ qrun \in [Stops -> Starts \cup {NoRun}]
    /\ qcopied \in SUBSET Stops
    /\ dpc \in {"new", "mongo", "done"}
    /\ lost \in BOOLEAN
    /\ expired \in SUBSET Starts

\* r has claimed the session and has yet to give it up.
Owns(r) == spc[r] \in {"prepare", "pipeline", "sysRead", "sysWrite",
                       "sysSave", "statusRead", "statusWrite", "idle"}

\* The state says "running" only while the run it names is still there to give
\* it up: a start is never refused for a run that is over, unless a crash or a
\* failed write left the key behind.  The converse does not hold: FinishRun writes
\* "idle" while a later run is active (manager.go:185).
RunningHasOwner ==
    preorder.status = "running" => lost \/ (preorder.run \in Starts /\ Owns(preorder.run))

\* A status with which a run ends.
Final == {"completed", "failed"}

\* When FinishRun has ended, MongoDB has the status it was called with, whatever
\* SetRunSystemMetrics and StopRun wrote meanwhile; exceptions are a session that
\* was deleted and a run whose document expired in Redis before its end, which
\* FinishRun does not save.  No other final status is ever in MongoDB.
FinalStatusSaved ==
    \A r \in Starts :
        /\ (spc[r] = "done" /\ ~lost /\ r \notin expired)
            => mongoRun[r] = verdict[r] \/ (dpc = "done" /\ mongoRun[r] = "none")
        /\ mongoRun[r] \in Final => mongoRun[r] = verdict[r]

\* The throttle metrics of a completed run are saved with it.  This is said only of
\* runs that no stop request found: one that read the document before
\* SetRunSystemMetrics wrote it takes the metrics away again.
ThrottleMetricsSaved ==
    \A r \in Starts :
        (spc[r] = "done" /\ verdict[r] = "completed" /\ ~lost /\ mongoRun[r] # "none"
            /\ \A q \in Stops : qrun[q] # r)
          => r \in mongoSys

\* A session is not blocked for ever: "running" ends without the TTL's help, on
\* every error path after the claim.  After a crash only the TTL ends it.
SessionIsReleased ==
    (preorder.status = "running") ~> (preorder.status # "running" \/ lost)
=============================================================================
