------------------------- MODULE RunLifecycleProofs -------------------------
(***************************************************************************)
(* Proofs about RunLifecycle for any number of start and stop requests.    *)
(* Documented says which runs have a Redis document, Decided which final   *)
(* statuses are around, Kept that the throttle metrics survive the         *)
(* read-modify-write of a FinishRun no stop request disturbs.              *)
(***************************************************************************)
EXTENDS RunLifecycle, TLAPS

\* Program counters of a run from its claim to the end of FinishRun.
Finishing == {"statusRead", "statusWrite", "idle", "save"}

\* Every run that has been claimed has a document in Redis until it expires, and
\* a stop request that goes on has found a run.
Documented ==
    /\ \A r \in Starts \ expired : spc[r] \notin {"new", "read", "create", "rejected", "lost", "done"}
                                      => redisRun[r] # "none"
    /\ \A q \in Stops : qpc[q] \in {"set", "statusRead", "statusWrite", "done"}
                            => qrun[q] # NoRun
    /\ \A q \in Stops : qpc[q] = "new" => qrun[q] = NoRun
    /\ \A r \in Starts : spc[r] \in {"sysWrite", "sysSave"} => seen[r] # "none"

\* A run has its verdict exactly from the end of its pipeline, and every final
\* status kept of it is that verdict.
Decided ==
    \A r \in Starts :
        /\ spc[r] \in {"sysRead", "sysWrite", "sysSave", "done"} \cup Finishing
              => verdict[r] # "none"
        /\ spc[r] \in {"new", "read", "create", "claim", "prepare", "pipeline"}
              => verdict[r] = "none"
        /\ redisRun[r] \in Final => redisRun[r] = verdict[r]
        /\ seen[r] \in Final => seen[r] = verdict[r]

\* No stop request has found run r.
Undisturbed(r) == \A q \in Stops : qrun[q] # r

\* The throttle metrics of an undisturbed completed run are in its document and
\* in the copy UpdateRunStatus works on.
Kept ==
    \A r \in Starts : (verdict[r] = "completed" /\ Undisturbed(r) /\ ~lost) =>
        /\ spc[r] \in Finishing \cup {"sysSave"} => r \in redisSys \/ redisRun[r] = "none"
        /\ spc[r] = "statusWrite" => r \in copied

\* ThrottleMetricsSaved, with its condition named and from FinishRun's start.
Saved ==
    \A r \in Starts :
        (/\ verdict[r] = "completed" /\ Undisturbed(r)
         /\ spc[r] \in Finishing \cup {"done"} /\ ~lost /\ mongoRun[r] # "none") => r \in mongoSys

\* The inductive invariant.
IInv == /\ TypeOK
        /\ RunningHasOwner
        /\ Documented
        /\ Decided
        /\ FinalStatusSaved
        /\ Kept
        /\ Saved

-----------------------------------------------------------------------------
\* The initial state satisfies the inductive invariant.
LEMMA InitIInv == Init => IInv
<1> SUFFICES ASSUME Init PROVE IInv
  OBVIOUS
<1>1. TypeOK
  <2>1. present \in BOOLEAN /\ lost \in BOOLEAN
    BY DEF Init
  <2> QED BY <2>1, LifecycleConstants
          DEF Init, TypeOK, IdleState, PreorderStates, RunStatus, StartPCs, StopPCs
<1>2. RunningHasOwner
  BY DEF Init, RunningHasOwner, IdleState
<1>3. Documented /\ Decided /\ FinalStatusSaved /\ Kept /\ Saved
  BY DEF Init, Documented, Decided, FinalStatusSaved, Kept, Saved, Finishing, Final
<1> QED BY <1>1, <1>2, <1>3 DEF IInv

\* The step CheckSession of a start request keeps the invariant.
LEMMA CheckSessionStep == ASSUME IInv, NEW r \in Starts, CheckSession(r) PROVE IInv'
<1> USE LifecycleConstants DEF CheckSession, Goto, startVars, stopVars, runDocs
<1>1. TypeOK'
  BY DEF IInv, TypeOK, PreorderStates, RunStatus, StartPCs, StopPCs, IdleState, Copy, Documented
<1>2. RunningHasOwner'
  BY DEF IInv, TypeOK, RunningHasOwner, Owns, Documented,
              Decided, Finishing, IdleState, PreorderStates
<1>3. Documented' /\ Decided'
  BY DEF IInv, TypeOK, Documented, Decided, Finishing, PreorderStates, Final, RunStatus
<1>4. FinalStatusSaved' /\ Kept' /\ Saved'
  BY DEF IInv, TypeOK, FinalStatusSaved, Kept, Saved, Undisturbed, Finishing,
              Documented, Decided, Copy, Final, RunStatus
<1> QED BY <1>1, <1>2, <1>3, <1>4 DEF IInv

\* The step ReadPreorder of a start request keeps the invariant.
LEMMA ReadPreorderStep == ASSUME IInv, NEW r \in Starts, ReadPreorder(r) PROVE IInv'
<1> USE LifecycleConstants DEF ReadPreorder, Goto, startVars, stopVars, runDocs
<1>1. TypeOK'
  <2>1. lost' \in BOOLEAN
    BY DEF IInv, TypeOK
  <2> QED BY <2>1 DEF IInv, TypeOK, PreorderStates, RunStatus, StartPCs, StopPCs, IdleState, Copy, Documented
<1>2. RunningHasOwner'
  BY DEF IInv, TypeOK, RunningHasOwner, Owns, Documented,
              Decided, Finishing, IdleState, PreorderStates
<1>3. Documented' /\ Decided'
  BY DEF IInv, TypeOK, Documented, Decided, Finishing, PreorderStates, Final, RunStatus
<1>4. FinalStatusSaved' /\ Kept' /\ Saved'
  BY DEF IInv, TypeOK, FinalStatusSaved, Kept, Saved, Undisturbed, Finishing,
              Documented, Decided, Copy, Final, RunStatus
<1> QED BY <1>1, <1>2, <1>3, <1>4 DEF IInv

\* The step CreateRun of a start request keeps the invariant.
LEMMA CreateRunStep == ASSUME IInv, NEW r \in Starts, CreateRun(r) PROVE IInv'
<1> USE LifecycleConstants DEF CreateRun, Goto, startVars, stopVars, runDocs
<1>1. TypeOK'
  BY DEF IInv, TypeOK, PreorderStates, RunStatus, StartPCs, StopPCs, IdleState, Copy, Documented
<1>2. RunningHasOwner'
  BY DEF IInv, TypeOK, RunningHasOwner, Owns, Documented,
              Decided, Finishing, IdleState, PreorderStates
<1>3. Documented' /\ Decided'
  BY DEF IInv, TypeOK, Documented, Decided, Finishing, PreorderStates, Final, RunStatus
<1>4. FinalStatusSaved' /\ Kept' /\ Saved'
  BY DEF IInv, TypeOK, FinalStatusSaved, Kept, Saved, Undisturbed, Finishing,
              Documented, Decided, Copy, Final, RunStatus
<1> QED BY <1>1, <1>2, <1>3, <1>4 DEF IInv

\* The step Claim of a start request keeps the invariant.
LEMMA ClaimStep == ASSUME IInv, NEW r \in Starts, Claim(r) PROVE IInv'
<1> USE LifecycleConstants DEF Claim, Goto, startVars, stopVars, runDocs
<1>1. TypeOK'
  BY DEF IInv, TypeOK, PreorderStates, RunStatus, StartPCs, StopPCs, IdleState, Copy, Documented
<1>2. RunningHasOwner'
  BY DEF IInv, TypeOK, RunningHasOwner, Owns, Documented,
              Decided, Finishing, IdleState, PreorderStates
<1>3. Documented' /\ Decided'
  BY DEF IInv, TypeOK, Documented, Decided, Finishing, PreorderStates, Final, RunStatus
<1>4. FinalStatusSaved' /\ Kept' /\ Saved'
  BY DEF IInv, TypeOK, FinalStatusSaved, Kept, Saved, Undisturbed, Finishing,
              Documented, Decided, Copy, Final, RunStatus
<1> QED BY <1>1, <1>2, <1>3, <1>4 DEF IInv

\* The step Prepare of a start request keeps the invariant.
LEMMA PrepareStep == ASSUME IInv, NEW r \in Starts, Prepare(r) PROVE IInv'
<1> USE LifecycleConstants DEF Prepare, Goto, startVars, stopVars, runDocs
<1>1. TypeOK'
  BY DEF IInv, TypeOK, PreorderStates, RunStatus, StartPCs, StopPCs, IdleState, Copy, Documented
<1>2. RunningHasOwner'
  BY DEF IInv, TypeOK, RunningHasOwner, Owns, Documented,
              Decided, Finishing, IdleState, PreorderStates
<1>3. Documented' /\ Decided'
  BY DEF IInv, TypeOK, Documented, Decided, Finishing, PreorderStates, Final, RunStatus
<1>4. FinalStatusSaved' /\ Kept' /\ Saved'
  BY DEF IInv, TypeOK, FinalStatusSaved, Kept, Saved, Undisturbed, Finishing,
              Documented, Decided, Copy, Final, RunStatus
<1> QED BY <1>1, <1>2, <1>3, <1>4 DEF IInv

\* The step RunStage of a start request keeps the invariant.
LEMMA RunStageStep == ASSUME IInv, NEW r \in Starts, RunStage(r) PROVE IInv'
<1> USE LifecycleConstants DEF RunStage, Goto, startVars, stopVars, runDocs
<1>1. TypeOK'
  BY DEF IInv, TypeOK, PreorderStates, RunStatus, StartPCs, StopPCs, IdleState, Copy, Documented
<1>2. RunningHasOwner'
  BY DEF IInv, TypeOK, RunningHasOwner, Owns, Documented,
              Decided, Finishing, IdleState, PreorderStates
<1>3. Documented' /\ Decided'
  BY DEF IInv, TypeOK, Documented, Decided, Finishing, PreorderStates, Final, RunStatus
<1>4. FinalStatusSaved' /\ Kept' /\ Saved'
  BY DEF IInv, TypeOK, FinalStatusSaved, Kept, Saved, Undisturbed, Finishing,
              Documented, Decided, Copy, Final, RunStatus
<1> QED BY <1>1, <1>2, <1>3, <1>4 DEF IInv

\* The step SysRead of a start request keeps the invariant.
LEMMA SysReadStep == ASSUME IInv, NEW r \in Starts, SysRead(r) PROVE IInv'
<1> USE LifecycleConstants DEF SysRead, Goto, startVars, stopVars, runDocs
<1>1. TypeOK'
  BY DEF IInv, TypeOK, PreorderStates, RunStatus, StartPCs, StopPCs, IdleState, Copy, Documented
<1>2. RunningHasOwner'
  BY DEF IInv, TypeOK, RunningHasOwner, Owns, Documented,
              Decided, Finishing, IdleState, PreorderStates
<1>3. Documented' /\ Decided'
  BY DEF IInv, TypeOK, Documented, Decided, Finishing, PreorderStates, Final, RunStatus, FinalStatusSaved
<1>4. FinalStatusSaved' /\ Kept' /\ Saved'
  BY DEF IInv, TypeOK, FinalStatusSaved, Kept, Saved, Undisturbed, Finishing,
              Documented, Decided, Copy, Final, RunStatus
<1> QED BY <1>1, <1>2, <1>3, <1>4 DEF IInv

\* The step SysWrite of a start request keeps the invariant.
LEMMA SysWriteStep == ASSUME IInv, NEW r \in Starts, SysWrite(r) PROVE IInv'
<1> USE LifecycleConstants DEF SysWrite, Goto, startVars, stopVars, runDocs
<1>1. TypeOK'
  <2>1. lost' \in BOOLEAN
    BY DEF IInv, TypeOK
  <2> QED BY <2>1 DEF IInv, TypeOK, PreorderStates, RunStatus, StartPCs, StopPCs, IdleState, Copy, Documented
<1>2. RunningHasOwner'
  BY DEF IInv, TypeOK, RunningHasOwner, Owns, Documented,
              Decided, Finishing, IdleState, PreorderStates
<1>3. Documented' /\ Decided'
  BY DEF IInv, TypeOK, Documented, Decided, Finishing, PreorderStates, Final, RunStatus
<1>4. FinalStatusSaved' /\ Kept' /\ Saved'
  BY DEF IInv, TypeOK, FinalStatusSaved, Kept, Saved, Undisturbed, Finishing,
              Documented, Decided, Copy, Final, RunStatus
<1> QED BY <1>1, <1>2, <1>3, <1>4 DEF IInv

\* The step SysSave of a start request keeps the invariant.
LEMMA SysSaveStep == ASSUME IInv, NEW r \in Starts, SysSave(r) PROVE IInv'
<1> USE LifecycleConstants DEF SysSave, Goto, startVars, stopVars, runDocs
<1>1. TypeOK'
  <2>1. lost' \in BOOLEAN
    BY DEF IInv, TypeOK
  <2> QED BY <2>1 DEF IInv, TypeOK, PreorderStates, RunStatus, StartPCs, StopPCs, IdleState, Copy, Documented
<1>2. RunningHasOwner'
  BY DEF IInv, TypeOK, RunningHasOwner, Owns, Documented,
              Decided, Finishing, IdleState, PreorderStates
<1>3. Documented' /\ Decided'
  BY DEF IInv, TypeOK, Documented, Decided, Finishing, PreorderStates, Final, RunStatus
<1>4. FinalStatusSaved' /\ Kept' /\ Saved'
  BY DEF IInv, TypeOK, FinalStatusSaved, Kept, Saved, Undisturbed, Finishing,
              Documented, Decided, Copy, Final, RunStatus
<1> QED BY <1>1, <1>2, <1>3, <1>4 DEF IInv

\* The step StatusRead of a start request keeps the invariant.
LEMMA StatusReadStep == ASSUME IInv, NEW r \in Starts, StatusRead(r) PROVE IInv'
<1> USE LifecycleConstants DEF StatusRead, Goto, startVars, stopVars, runDocs
<1>1. TypeOK'
  BY DEF IInv, TypeOK, PreorderStates, RunStatus, StartPCs, StopPCs, IdleState, Copy, Documented
<1>2. RunningHasOwner'
  BY DEF IInv, TypeOK, RunningHasOwner, Owns, Documented,
              Decided, Finishing, IdleState, PreorderStates
<1>3. Documented' /\ Decided'
  BY DEF IInv, TypeOK, Documented, Decided, Finishing, PreorderStates, Final, RunStatus
<1>4. FinalStatusSaved' /\ Kept' /\ Saved'
  BY DEF IInv, TypeOK, FinalStatusSaved, Kept, Saved, Undisturbed, Finishing,
              Documented, Decided, Copy, Final, RunStatus
<1> QED BY <1>1, <1>2, <1>3, <1>4 DEF IInv

\* The step StatusWrite of a start request keeps the invariant.
LEMMA StatusWriteStep == ASSUME IInv, NEW r \in Starts, StatusWrite(r) PROVE IInv'
<1> USE LifecycleConstants DEF StatusWrite, Goto, startVars, stopVars, runDocs
<1>1. TypeOK'
  <2>1. lost' \in BOOLEAN
    BY DEF IInv, TypeOK
  <2> QED BY <2>1 DEF IInv, TypeOK, PreorderStates, RunStatus, StartPCs, StopPCs, IdleState, Copy, Documented
<1>2. RunningHasOwner'
  BY DEF IInv, TypeOK, RunningHasOwner, Owns, Documented,
              Decided, Finishing, IdleState, PreorderStates
<1>3. Documented' /\ Decided'
  BY DEF IInv, TypeOK, Documented, Decided, Finishing, PreorderStates, Final, RunStatus
<1>4. FinalStatusSaved' /\ Kept' /\ Saved'
  BY DEF IInv, TypeOK, FinalStatusSaved, Kept, Saved, Undisturbed, Finishing,
              Documented, Decided, Copy, Final, RunStatus
<1> QED BY <1>1, <1>2, <1>3, <1>4 DEF IInv

\* The step SetIdle of a start request keeps the invariant.
LEMMA SetIdleStep == ASSUME IInv, NEW r \in Starts, SetIdle(r) PROVE IInv'
<1> USE LifecycleConstants DEF SetIdle, Goto, startVars, stopVars, runDocs
<1>1. TypeOK'
  <2>1. lost' \in BOOLEAN
    BY DEF IInv, TypeOK
  <2> QED BY <2>1 DEF IInv, TypeOK, PreorderStates, RunStatus, StartPCs, StopPCs, IdleState, Copy, Documented
<1>2. RunningHasOwner'
  BY DEF IInv, TypeOK, RunningHasOwner, Owns, Documented,
              Decided, Finishing, IdleState, PreorderStates
<1>3. Documented' /\ Decided'
  BY DEF IInv, TypeOK, Documented, Decided, Finishing, PreorderStates, Final, RunStatus
<1>4. FinalStatusSaved' /\ Kept' /\ Saved'
  BY DEF IInv, TypeOK, FinalStatusSaved, Kept, Saved, Undisturbed, Finishing,
              Documented, Decided, Copy, Final, RunStatus
<1> QED BY <1>1, <1>2, <1>3, <1>4 DEF IInv

\* The step SaveFinal of a start request keeps the invariant.
LEMMA SaveFinalStep == ASSUME IInv, NEW r \in Starts, SaveFinal(r) PROVE IInv'
<1> USE LifecycleConstants DEF SaveFinal, Goto, startVars, stopVars, runDocs
<1>1. TypeOK'
  <2>1. lost' \in BOOLEAN
    BY DEF IInv, TypeOK
  <2> QED BY <2>1 DEF IInv, TypeOK, PreorderStates, RunStatus, StartPCs, StopPCs, IdleState, Copy, Documented
<1>2. RunningHasOwner'
  BY DEF IInv, TypeOK, RunningHasOwner, Owns, Documented,
              Decided, Finishing, IdleState, PreorderStates
<1>3. Documented' /\ Decided'
  BY DEF IInv, TypeOK, Documented, Decided, Finishing, PreorderStates, Final, RunStatus
<1>4. FinalStatusSaved' /\ Kept' /\ Saved'
  BY DEF IInv, TypeOK, FinalStatusSaved, Kept, Saved, Undisturbed, Finishing,
              Documented, Decided, Copy, Final, RunStatus
<1> QED BY <1>1, <1>2, <1>3, <1>4 DEF IInv

\* The step StopRead of a stop request keeps the invariant.
LEMMA StopReadStep == ASSUME IInv, NEW q \in Stops, StopRead(q) PROVE IInv'
<1> USE LifecycleConstants DEF StopRead, StopGoto, startVars, stopVars, runDocs
<1>1. TypeOK'
  BY DEF IInv, TypeOK, PreorderStates, RunStatus, StartPCs, StopPCs, IdleState, Copy, Documented
<1>2. RunningHasOwner'
  BY DEF IInv, TypeOK, RunningHasOwner, Owns, Documented,
              Decided, Finishing, IdleState, PreorderStates
<1>3. Documented' /\ Decided'
  BY DEF IInv, TypeOK, Documented, Decided, Finishing, PreorderStates, Final, RunStatus
<1>4. FinalStatusSaved' /\ Kept' /\ Saved'
  BY DEF IInv, TypeOK, FinalStatusSaved, Kept, Saved, Undisturbed, Finishing,
              Documented, Decided, Copy, Final, RunStatus
<1> QED BY <1>1, <1>2, <1>3, <1>4 DEF IInv

\* The step StopSet of a stop request keeps the invariant.
LEMMA StopSetStep == ASSUME IInv, NEW q \in Stops, StopSet(q) PROVE IInv'
<1> USE LifecycleConstants DEF StopSet, StopGoto, startVars, stopVars, runDocs
<1>1. TypeOK'
  <2>1. lost' \in BOOLEAN
    BY DEF IInv, TypeOK
  <2> QED BY <2>1 DEF IInv, TypeOK, PreorderStates, RunStatus, StartPCs, StopPCs, IdleState, Copy, Documented
<1>2. RunningHasOwner'
  BY DEF IInv, TypeOK, RunningHasOwner, Owns, Documented,
              Decided, Finishing, IdleState, PreorderStates
<1>3. Documented' /\ Decided'
  BY DEF IInv, TypeOK, Documented, Decided, Finishing, PreorderStates, Final, RunStatus
<1>4. FinalStatusSaved' /\ Kept' /\ Saved'
  BY DEF IInv, TypeOK, FinalStatusSaved, Kept, Saved, Undisturbed, Finishing,
              Documented, Decided, Copy, Final, RunStatus
<1> QED BY <1>1, <1>2, <1>3, <1>4 DEF IInv

\* The step StopStatusRead of a stop request keeps the invariant.
LEMMA StopStatusReadStep == ASSUME IInv, NEW q \in Stops, StopStatusRead(q) PROVE IInv'
<1> USE LifecycleConstants DEF StopStatusRead, StopGoto, startVars, stopVars, runDocs
<1>1. TypeOK'
  BY DEF IInv, TypeOK, PreorderStates, RunStatus, StartPCs, StopPCs, IdleState, Copy, Documented
<1>2. RunningHasOwner'
  BY DEF IInv, TypeOK, RunningHasOwner, Owns, Documented,
              Decided, Finishing, IdleState, PreorderStates
<1>3. Documented' /\ Decided'
  BY DEF IInv, TypeOK, Documented, Decided, Finishing, PreorderStates, Final, RunStatus
<1>4. FinalStatusSaved' /\ Kept' /\ Saved'
  BY DEF IInv, TypeOK, FinalStatusSaved, Kept, Saved, Undisturbed, Finishing,
              Documented, Decided, Copy, Final, RunStatus
<1> QED BY <1>1, <1>2, <1>3, <1>4 DEF IInv

\* The step StopStatusWrite of a stop request keeps the invariant.
LEMMA StopStatusWriteStep == ASSUME IInv, NEW q \in Stops, StopStatusWrite(q) PROVE IInv'
<1> USE LifecycleConstants DEF StopStatusWrite, StopGoto, startVars, stopVars, runDocs
<1>1. TypeOK'
  <2>1. lost' \in BOOLEAN
    BY DEF IInv, TypeOK
  <2> QED BY <2>1 DEF IInv, TypeOK, PreorderStates, RunStatus, StartPCs, StopPCs, IdleState, Copy, Documented
<1>2. RunningHasOwner'
  BY DEF IInv, TypeOK, RunningHasOwner, Owns, Documented,
              Decided, Finishing, IdleState, PreorderStates
<1>3. Documented' /\ Decided'
  BY DEF IInv, TypeOK, Documented, Decided, Finishing, PreorderStates, Final, RunStatus
<1>4. FinalStatusSaved' /\ Kept' /\ Saved'
  BY DEF IInv, TypeOK, FinalStatusSaved, Kept, Saved, Undisturbed, Finishing,
              Documented, Decided, Copy, Final, RunStatus
<1> QED BY <1>1, <1>2, <1>3, <1>4 DEF IInv

\* The step DeleteRedis keeps the invariant.
LEMMA DeleteRedisStep == ASSUME IInv, DeleteRedis PROVE IInv'
<1> USE LifecycleConstants DEF DeleteRedis, startVars, stopVars, runDocs
<1>1. TypeOK'
  BY DEF IInv, TypeOK, PreorderStates, RunStatus, StartPCs, StopPCs, IdleState, Copy, Documented
<1>2. RunningHasOwner'
  BY DEF IInv, TypeOK, RunningHasOwner, Owns, Documented,
              Decided, Finishing, IdleState, PreorderStates
<1>3. Documented' /\ Decided'
  BY DEF IInv, TypeOK, Documented, Decided, Finishing, PreorderStates, Final, RunStatus
<1>4. FinalStatusSaved' /\ Kept' /\ Saved'
  BY DEF IInv, TypeOK, FinalStatusSaved, Kept, Saved, Undisturbed, Finishing,
              Documented, Decided, Copy, Final, RunStatus
<1> QED BY <1>1, <1>2, <1>3, <1>4 DEF IInv

\* The step DeleteMongo keeps the invariant.
LEMMA DeleteMongoStep == ASSUME IInv, DeleteMongo PROVE IInv'
<1> USE LifecycleConstants DEF DeleteMongo, startVars, stopVars, runDocs
<1>1. TypeOK'
  BY DEF IInv, TypeOK, PreorderStates, RunStatus, StartPCs, StopPCs, IdleState, Copy, Documented
<1>2. RunningHasOwner'
  BY DEF IInv, TypeOK, RunningHasOwner, Owns, Documented,
              Decided, Finishing, IdleState, PreorderStates
<1>3. Documented' /\ Decided'
  BY DEF IInv, TypeOK, Documented, Decided, Finishing, PreorderStates, Final, RunStatus
<1>4. FinalStatusSaved' /\ Kept' /\ Saved'
  BY DEF IInv, TypeOK, FinalStatusSaved, Kept, Saved, Undisturbed, Finishing,
              Documented, Decided, Copy, Final, RunStatus
<1> QED BY <1>1, <1>2, <1>3, <1>4 DEF IInv

\* The step Crash keeps the invariant.
LEMMA CrashStep == ASSUME IInv, Crash PROVE IInv'
<1> USE LifecycleConstants DEF Crash, startVars, stopVars, runDocs
<1>1. TypeOK'
  BY DEF IInv, TypeOK, PreorderStates, RunStatus, StartPCs, StopPCs, IdleState, Copy, Documented
<1>2. RunningHasOwner'
  BY DEF IInv, TypeOK, RunningHasOwner, Owns, Documented,
              Decided, Finishing, IdleState, PreorderStates
<1>3. Documented' /\ Decided'
  BY DEF IInv, TypeOK, Documented, Decided, Finishing, PreorderStates, Final, RunStatus
<1>4. FinalStatusSaved' /\ Kept' /\ Saved'
  BY DEF IInv, TypeOK, FinalStatusSaved, Kept, Saved, Undisturbed, Finishing,
              Documented, Decided, Copy, Final, RunStatus
<1> QED BY <1>1, <1>2, <1>3, <1>4 DEF IInv

\* The step ExpirePreorder keeps the invariant.
LEMMA ExpirePreorderStep == ASSUME IInv, ExpirePreorder PROVE IInv'
<1> USE LifecycleConstants DEF ExpirePreorder, startVars, stopVars, runDocs
<1>1. TypeOK'
  BY DEF IInv, TypeOK, PreorderStates, RunStatus, StartPCs, StopPCs, IdleState, Copy, Documented
<1>2. RunningHasOwner'
  BY DEF IInv, TypeOK, RunningHasOwner, Owns, Documented,
              Decided, Finishing, IdleState, PreorderStates
<1>3. Documented' /\ Decided'
  BY DEF IInv, TypeOK, Documented, Decided, Finishing, PreorderStates, Final, RunStatus
<1>4. FinalStatusSaved' /\ Kept' /\ Saved'
  BY DEF IInv, TypeOK, FinalStatusSaved, Kept, Saved, Undisturbed, Finishing,
              Documented, Decided, Copy, Final, RunStatus
<1> QED BY <1>1, <1>2, <1>3, <1>4 DEF IInv

\* The expiry of a run document keeps the invariant.
LEMMA ExpireRunStep == ASSUME IInv, NEW r \in Starts, ExpireRun(r) PROVE IInv'
<1> USE LifecycleConstants DEF ExpireRun, startVars, stopVars, runDocs
<1>1. TypeOK'
  BY DEF IInv, TypeOK, PreorderStates, RunStatus, StartPCs, StopPCs, IdleState, Copy, Documented
<1>2. RunningHasOwner'
  BY DEF IInv, TypeOK, RunningHasOwner, Owns, Documented,
              Decided, Finishing, IdleState, PreorderStates
<1>3. Documented' /\ Decided'
  BY DEF IInv, TypeOK, Documented, Decided, Finishing, PreorderStates, Final, RunStatus
<1>4. FinalStatusSaved' /\ Kept' /\ Saved'
  BY DEF IInv, TypeOK, FinalStatusSaved, Kept, Saved, Undisturbed, Finishing,
              Documented, Decided, Copy, Final, RunStatus
<1> QED BY <1>1, <1>2, <1>3, <1>4 DEF IInv

-----------------------------------------------------------------------------
\* Every step keeps the inductive invariant.
LEMMA StepIInv == IInv /\ [Next]_vars => IInv'
<1> SUFFICES ASSUME IInv, [Next]_vars PROVE IInv'
  OBVIOUS
<1>1. CASE UNCHANGED vars
  BY <1>1 DEF vars, IInv, TypeOK, RunningHasOwner, Owns, Documented, Decided,
              FinalStatusSaved, Kept, Saved, Undisturbed
<1>2. ASSUME NEW r \in Starts, StartPreorder(r) PROVE IInv'
  BY <1>2, CheckSessionStep, ReadPreorderStep, CreateRunStep, ClaimStep, PrepareStep,
     RunStageStep, SysReadStep, SysWriteStep, SysSaveStep, StatusReadStep, StatusWriteStep,
     SetIdleStep, SaveFinalStep
  DEF StartPreorder, StartRun, FinishRun
<1>3. ASSUME NEW q \in Stops, StopRun(q) PROVE IInv'
  BY <1>3, StopReadStep, StopSetStep, StopStatusReadStep, StopStatusWriteStep DEF StopRun
<1> QED
  BY <1>1, <1>2, <1>3, DeleteRedisStep, DeleteMongoStep, CrashStep, ExpirePreorderStep, ExpireRunStep
  DEF Next, Quiet

\* The keys, documents and program counters always have their types.
THEOREM TypeCorrect == SafetySpec => []TypeOK
<1>1. IInv => TypeOK
  BY DEF IInv
<1> QED BY InitIInv, StepIInv, <1>1, PTL DEF SafetySpec

\* Without a crash or a failed write, a session that reads "running" has a run
\* that will give it up, however starts, stops, deletions and expiry interleave.
THEOREM RunningIsOwned == SafetySpec => []RunningHasOwner
<1>1. IInv => RunningHasOwner
  BY DEF IInv
<1> QED BY InitIInv, StepIInv, <1>1, PTL DEF SafetySpec

\* MongoDB ends with the status FinishRun was called with when the document of the
\* run lived as long as the run, and never has another final status.
THEOREM FinalStatusIsSaved == SafetySpec => []FinalStatusSaved
<1>1. IInv => FinalStatusSaved
  BY DEF IInv
<1> QED BY InitIInv, StepIInv, <1>1, PTL DEF SafetySpec

\* The throttle metrics of a completed run that nobody stopped reach MongoDB.
THEOREM ThrottleMetricsAreSaved == SafetySpec => []ThrottleMetricsSaved
<1>1. IInv => ThrottleMetricsSaved
  BY DEF IInv, Saved, Undisturbed, ThrottleMetricsSaved
<1> QED BY InitIInv, StepIInv, <1>1, PTL DEF SafetySpec
=============================================================================
