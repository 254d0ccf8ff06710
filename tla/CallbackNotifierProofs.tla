----------------------- MODULE CallbackNotifierProofs -----------------------
(***************************************************************************)
(* Proofs about CallbackNotifier for any runs, callbacks, stages and       *)
(* targets.  The invariants that TLC checks are not inductive by           *)
(* themselves; Owned says which key a cell in the map belongs to, Held     *)
(* that a Notify holds the cell of its key until the run's Reset, and      *)
(* Open that a cell is closed only by the Reset of its run.                *)
(***************************************************************************)
EXTENDS CallbackNotifier, FiniteSetTheorems, TLAPS

\* A cell in the map was made for the key it is found under.
Owned ==
    \A k \in Keys : entry[k] # NoCell =>
        \/ entry[k] = k
        \/ entry[k] \in Callbacks /\ ckey[entry[k]] = k /\ cpc[entry[k]] # "new"

\* A Notify that has its cell holds the one in the map, until the run's Reset.
Held ==
    \A n \in Callbacks : cpc[n] # "new" =>
        /\ ccell[n] \in Cells
        /\ rpc[ckey[n][1]] # "over" => entry[ckey[n]] = ccell[n]

\* A cell in the map is open, and so is one that is not made yet.
Open ==
    /\ \A k \in Keys : entry[k] # NoCell => entry[k] \notin closed
    /\ \A n \in Callbacks : cpc[n] = "new" => n \notin closed
    /\ \A k \in Keys : rpc[k[1]] # "over" => k \notin closed

\* A WaitForCount about to return has its count, or its deadline has passed.
ReturnJustified ==
    \A r \in Runs : rpc[r] = "return" => r \in timedOut \/ count[rcell[r]] >= target[r]

\* The inductive invariant.
IInv == /\ TypeOK
        /\ Owned
        /\ Held
        /\ Open
        /\ WaiterCellIsLive
        /\ NoLostWakeup
        /\ ReturnJustified

-----------------------------------------------------------------------------
\* A key is its run and its stage.
LEMMA KeyParts == \A k \in Keys : /\ k[1] \in Runs
                                  /\ k[2] \in 1..NumStages
                                  /\ k = <<k[1], k[2]>>
  BY DEF Keys

\* getOrCreate returns a cell, never "no entry".
LEMMA GetOrCreateType ==
  ASSUME TypeOK, NEW k \in Keys, NEW f \in Cells
  PROVE  getOrCreate(k, f) \in Cells /\ getOrCreate(k, f) # NoCell
  BY NotifierConstants DEF TypeOK, getOrCreate

\* The cell a WaitForCount uses is one of the cells.
LEMMA WaiterCellType ==
  ASSUME TypeOK, WaiterCellIsLive, NEW r \in Runs, Waiting(r)
  PROVE  rcell[r] \in Cells /\ stage[r] \in 1..NumStages /\ <<r, stage[r]>> \in Keys
  BY DEF TypeOK, WaiterCellIsLive, Keys

-----------------------------------------------------------------------------
\* A step of a Notify keeps the invariant.
LEMMA NotifyGetStep ==
  ASSUME IInv, NEW n \in Callbacks, NotifyGet(n) PROVE IInv'
<1> USE NotifierConstants
<1> DEFINE k == ckey[n]
           c == getOrCreate(k, n)
<1>1. k \in Keys /\ n \in Cells /\ k[1] \in Runs
  BY KeyParts DEF IInv, TypeOK, Cells
<1>2. c \in Cells /\ c # NoCell
  BY <1>1, GetOrCreateType DEF IInv
<1>3. (entry[k] = NoCell => c = n) /\ (entry[k] # NoCell => c = entry[k])
  BY DEF getOrCreate
<1> HIDE DEF c
<1>4. /\ cpc[n] = "new"
      /\ entry' = [entry EXCEPT ![k] = c]
      /\ ccell' = [ccell EXCEPT ![n] = c]
      /\ cpc' = [cpc EXCEPT ![n] = "add"]
      /\ UNCHANGED <<count, token, closed, ckey, rpc, stage, target, rcell, timedOut,
                     result, alive>>
  BY DEF NotifyGet, c, cellVars, runVars
<1> HIDE DEF k
<1>5. TypeOK'
  BY <1>1, <1>2, <1>4 DEF IInv, TypeOK
<1>6. Owned'
  BY <1>1, <1>3, <1>4 DEF IInv, TypeOK, Owned, k
<1>7. Held'
  BY <1>1, <1>2, <1>3, <1>4 DEF IInv, TypeOK, Held, k
<1>8. Open'
  BY <1>1, <1>3, <1>4 DEF IInv, TypeOK, Open
<1>9. WaiterCellIsLive'
  <2> SUFFICES ASSUME NEW r \in Runs, Waiting(r)'
               PROVE  (/\ stage[r] \in 1..NumStages
                       /\ entry[<<r, stage[r]>>] = rcell[r]
                       /\ rcell[r] # NoCell
                       /\ rcell[r] \notin closed)'
    BY DEF WaiterCellIsLive
  <2>1. Waiting(r) /\ <<r, stage[r]>> \in Keys
    BY <1>4, WaiterCellType DEF Waiting, IInv
  <2> QED BY <1>1, <1>3, <1>4, <2>1 DEF IInv, TypeOK, WaiterCellIsLive
<1>10. NoLostWakeup'
  BY <1>4 DEF IInv, TypeOK, NoLostWakeup
<1>11. ReturnJustified'
  BY <1>4 DEF IInv, ReturnJustified
<1> QED BY <1>5, <1>6, <1>7, <1>8, <1>9, <1>10, <1>11 DEF IInv

\* Counting a callback: the waiter it may satisfy finds this Notify at its send.
LEMMA NotifyAddStep ==
  ASSUME IInv, NEW n \in Callbacks, NotifyAdd(n) PROVE IInv'
<1> USE NotifierConstants
<1>1. ccell[n] \in Cells /\ cpc[n] = "add"
  BY DEF IInv, Held, NotifyAdd
<1>2. /\ count' = [count EXCEPT ![ccell[n]] = @ + 1]
      /\ cpc' = [cpc EXCEPT ![n] = "send"]
      /\ UNCHANGED <<entry, token, closed, ckey, ccell, rpc, stage, target, rcell,
                     timedOut, result, alive>>
  BY DEF NotifyAdd, runVars
<1>3. TypeOK'
  BY <1>1, <1>2 DEF IInv, TypeOK
<1>4. Owned'
  BY <1>1, <1>2 DEF IInv, TypeOK, Owned
<1>5. Held'
  BY <1>1, <1>2 DEF IInv, TypeOK, Held
<1>6. Open'
  BY <1>1, <1>2 DEF IInv, TypeOK, Open
<1>7. WaiterCellIsLive'
  BY <1>2 DEF IInv, WaiterCellIsLive, Waiting
<1>8. NoLostWakeup'
  BY <1>1, <1>2 DEF IInv, TypeOK, NoLostWakeup
<1>9. ReturnJustified'
  <2> SUFFICES ASSUME NEW r \in Runs, rpc[r] = "return", r \notin timedOut
               PROVE  count'[rcell[r]] >= target[r]
    BY <1>2 DEF ReturnJustified
  <2>1. rcell[r] \in Cells
    BY WaiterCellType DEF IInv, Waiting
  <2>2. count[rcell[r]] >= target[r] /\ target[r] \in Nat /\ count[rcell[r]] \in Nat
    BY <2>1 DEF IInv, TypeOK, ReturnJustified
  <2> QED BY <1>1, <1>2, <2>1, <2>2 DEF IInv, TypeOK
<1> QED BY <1>3, <1>4, <1>5, <1>6, <1>7, <1>8, <1>9 DEF IInv

\* The send leaves a token for the waiter, or the process is gone.
LEMMA NotifySendStep ==
  ASSUME IInv, NEW n \in Callbacks, NotifySend(n) PROVE IInv'
<1> USE NotifierConstants
<1>1. ccell[n] \in Cells /\ cpc[n] = "send"
  BY DEF IInv, Held, NotifySend
<1>2. UNCHANGED <<entry, count, closed, ckey, ccell, rpc, stage, target, rcell,
                  timedOut, result>>
  BY DEF NotifySend, runVars
<1>3. \/ /\ alive' = FALSE /\ token' = token
         /\ cpc' = [cpc EXCEPT ![n] = "panicked"]
      \/ /\ alive' = alive /\ token' = [token EXCEPT ![ccell[n]] = 1]
         /\ cpc' = [cpc EXCEPT ![n] = "done"]
  BY DEF NotifySend
<1>4. TypeOK'
  BY <1>1, <1>2, <1>3 DEF IInv, TypeOK
<1>5. Owned'
  BY <1>1, <1>2, <1>3 DEF IInv, TypeOK, Owned
<1>6. Held'
  BY <1>1, <1>2, <1>3 DEF IInv, TypeOK, Held
<1>7. Open'
  BY <1>1, <1>2, <1>3 DEF IInv, TypeOK, Open
<1>8. WaiterCellIsLive'
  BY <1>2 DEF IInv, WaiterCellIsLive, Waiting
<1>9. NoLostWakeup'
  <2>1. CASE alive' = FALSE
    BY <2>1 DEF NoLostWakeup
  <2>2. CASE /\ alive' = alive /\ token' = [token EXCEPT ![ccell[n]] = 1]
             /\ cpc' = [cpc EXCEPT ![n] = "done"]
    BY <1>1, <1>2, <2>2 DEF IInv, TypeOK, NoLostWakeup
  <2> QED BY <1>3, <2>1, <2>2
<1>10. ReturnJustified'
  BY <1>2 DEF IInv, ReturnJustified
<1> QED BY <1>4, <1>5, <1>6, <1>7, <1>8, <1>9, <1>10 DEF IInv

-----------------------------------------------------------------------------
\* Entering WaitForCount: the run takes the cell of its key, or makes it.
LEMMA WaitCallStep ==
  ASSUME IInv, NEW r \in Runs, NEW t \in 1..MaxTarget, WaitCall(r, t) PROVE IInv'
<1> USE NotifierConstants
<1> DEFINE k == <<r, stage[r]>>
           c == getOrCreate(k, k)
<1>1. k \in Keys /\ k \in Cells /\ k[1] = r /\ stage[r] \in 1..NumStages
  BY DEF IInv, TypeOK, WaitCall, Keys, Cells
<1>2. c \in Cells /\ c # NoCell
  BY <1>1, GetOrCreateType DEF IInv
<1>3. (entry[k] = NoCell => c = k) /\ (entry[k] # NoCell => c = entry[k])
  BY DEF getOrCreate
<1>4. /\ rpc[r] = "between"
      /\ entry' = [entry EXCEPT ![k] = c]
      /\ rcell' = [rcell EXCEPT ![r] = c]
      /\ target' = [target EXCEPT ![r] = t]
      /\ rpc' = [rpc EXCEPT ![r] = "check"]
      /\ UNCHANGED <<count, token, closed, cpc, ckey, ccell, stage, timedOut, result,
                     alive>>
  BY DEF WaitCall, cellVars, cbVars
<1>5. c \notin closed
  BY <1>1, <1>3, <1>4 DEF IInv, Open
<1>k. k = <<r, stage[r]>>
  OBVIOUS
<1> HIDE DEF c, k
<1>6. TypeOK'
  BY <1>1, <1>2, <1>4 DEF IInv, TypeOK
<1>7. Owned'
  BY <1>1, <1>3, <1>4 DEF IInv, TypeOK, Owned
<1>8. Held'
  <2> SUFFICES ASSUME NEW n \in Callbacks, cpc[n] # "new"
               PROVE  /\ ccell[n] \in Cells
                      /\ rpc'[ckey[n][1]] # "over" => entry'[ckey[n]] = ccell[n]
    BY <1>4 DEF Held
  <2>1. ckey[n] \in Keys /\ ckey[n][1] \in Runs
    BY KeyParts DEF IInv, TypeOK
  <2>2. ccell[n] \in Cells /\ (rpc[ckey[n][1]] # "over" => entry[ckey[n]] = ccell[n])
    BY DEF IInv, Held
  <2> QED BY <1>1, <1>3, <1>4, <2>1, <2>2 DEF IInv, TypeOK
<1>9. Open'
  BY <1>1, <1>4, <1>5, KeyParts DEF IInv, TypeOK, Open
<1>10. WaiterCellIsLive'
  <2> SUFFICES ASSUME NEW q \in Runs, Waiting(q)'
               PROVE  (/\ stage[q] \in 1..NumStages
                       /\ entry[<<q, stage[q]>>] = rcell[q]
                       /\ rcell[q] # NoCell
                       /\ rcell[q] \notin closed)'
    BY DEF WaiterCellIsLive
  <2>1. CASE q = r
    BY <1>1, <1>2, <1>4, <1>5, <1>k, <2>1 DEF IInv, TypeOK
  <2>2. CASE q # r
    <3>1. Waiting(q) /\ <<q, stage[q]>> \in Keys
      BY <1>4, <2>2, WaiterCellType DEF Waiting, IInv, TypeOK
    <3>2. <<q, stage[q]>> # k
      BY <1>k, <2>2
    <3> QED BY <1>1, <1>4, <2>2, <3>1, <3>2 DEF IInv, TypeOK, WaiterCellIsLive
  <2> QED BY <2>1, <2>2
<1>11. NoLostWakeup'
  BY <1>4 DEF IInv, TypeOK, NoLostWakeup
<1>12. ReturnJustified'
  BY <1>4 DEF IInv, TypeOK, ReturnJustified
<1> QED BY <1>6, <1>7, <1>8, <1>9, <1>10, <1>11, <1>12 DEF IInv

\* Steps of WaitForCount that touch neither the map nor the channels.
LEMMA WaitLocalStep ==
  ASSUME IInv, NEW r \in Runs,
         WaitCheck(r) \/ WaitDeadline(r) \/ WaitReturn(r) \/ RunEnds(r)
  PROVE  IInv'
<1> USE NotifierConstants
<1>1. UNCHANGED <<entry, count, token, closed, cpc, ckey, ccell, alive>>
  BY DEF WaitCheck, WaitDeadline, WaitReturn, RunEnds, cellVars, cbVars
<1>2. /\ rpc[r] # "over"
      /\ \E p \in {"between", "check", "select", "return", "reset"} :
            rpc' = [rpc EXCEPT ![r] = p]
  BY DEF WaitCheck, WaitDeadline, WaitReturn, RunEnds
<1>3. TypeOK'
  <2>1. CASE WaitReturn(r)
    <3>1. rcell[r] \in Cells /\ stage[r] \in 1..NumStages
      BY <2>1, WaiterCellType DEF IInv, WaitReturn, Waiting
    <3>2. count[rcell[r]] \in Nat /\ stage[r] + 1 \in 1..(NumStages + 1)
      BY <3>1 DEF IInv, TypeOK
    <3> QED BY <1>1, <2>1, <3>2 DEF IInv, TypeOK, WaitReturn
  <2>2. CASE WaitCheck(r)
    BY <1>1, <2>2 DEF IInv, TypeOK, WaitCheck
  <2>3. CASE WaitDeadline(r)
    BY <1>1, <2>3 DEF IInv, TypeOK, WaitDeadline
  <2>4. CASE RunEnds(r)
    BY <1>1, <2>4 DEF IInv, TypeOK, RunEnds
  <2> QED BY <2>1, <2>2, <2>3, <2>4
<1>4. Owned'
  BY <1>1 DEF IInv, Owned
<1>5. \A q \in Runs : rpc'[q] = "over" <=> rpc[q] = "over"
  BY <1>2 DEF IInv, TypeOK
<1>6. Held'
  BY <1>1, <1>5, KeyParts DEF IInv, TypeOK, Held
<1>7. Open'
  BY <1>1, <1>5, KeyParts DEF IInv, Open
<1>8. WaiterCellIsLive'
  <2>1. CASE WaitReturn(r)
    BY <1>1, <2>1 DEF IInv, TypeOK, WaiterCellIsLive, Waiting, WaitReturn
  <2>2. CASE WaitCheck(r)
    BY <1>1, <2>2 DEF IInv, TypeOK, WaiterCellIsLive, Waiting, WaitCheck
  <2>3. CASE WaitDeadline(r)
    BY <1>1, <2>3 DEF IInv, TypeOK, WaiterCellIsLive, Waiting, WaitDeadline
  <2>4. CASE RunEnds(r)
    BY <1>1, <2>4 DEF IInv, TypeOK, WaiterCellIsLive, Waiting, RunEnds
  <2> QED BY <2>1, <2>2, <2>3, <2>4
<1>9. NoLostWakeup' /\ ReturnJustified'
  <2>1. CASE WaitReturn(r)
    BY <1>1, <2>1 DEF IInv, TypeOK, NoLostWakeup, ReturnJustified, WaitReturn
  <2>2. CASE WaitCheck(r)
    <3>1. rcell[r] \in Cells
      BY <2>2, WaiterCellType DEF IInv, WaitCheck, Waiting
    <3>2. count[rcell[r]] \in Nat /\ target[r] \in Nat
      BY <3>1 DEF IInv, TypeOK
    <3>3. NoLostWakeup'
      BY <1>1, <2>2, <3>2 DEF IInv, TypeOK, NoLostWakeup, WaitCheck
    <3>4. ReturnJustified'
      BY <1>1, <2>2, <3>2 DEF IInv, TypeOK, ReturnJustified, WaitCheck
    <3> QED BY <3>3, <3>4
  <2>3. CASE WaitDeadline(r)
    BY <1>1, <2>3 DEF IInv, TypeOK, NoLostWakeup, ReturnJustified, WaitDeadline
  <2>4. CASE RunEnds(r)
    BY <1>1, <2>4 DEF IInv, TypeOK, NoLostWakeup, ReturnJustified, RunEnds
  <2> QED BY <2>1, <2>2, <2>3, <2>4
<1> QED BY <1>3, <1>4, <1>6, <1>7, <1>8, <1>9 DEF IInv

\* Taking the token: no other run waits on the same channel.
LEMMA WaitReceiveStep ==
  ASSUME IInv, NEW r \in Runs, WaitReceive(r) PROVE IInv'
<1> USE NotifierConstants
<1>1. /\ rpc[r] = "select"
      /\ token' = [token EXCEPT ![rcell[r]] = 0]
      /\ rpc' = [rpc EXCEPT ![r] = "check"]
      /\ UNCHANGED <<entry, count, closed, cpc, ckey, ccell, stage, target, rcell,
                     timedOut, result, alive>>
  BY DEF WaitReceive, cbVars
<1>2. Waiting(r) /\ rcell[r] \in Cells /\ <<r, stage[r]>> \in Keys
  BY <1>1, WaiterCellType DEF IInv, Waiting
<1>3. TypeOK'
  BY <1>1, <1>2 DEF IInv, TypeOK
<1>4. Owned'
  BY <1>1 DEF IInv, Owned
<1>5. \A q \in Runs : rpc'[q] = "over" <=> rpc[q] = "over"
  BY <1>1 DEF IInv, TypeOK
<1>6. Held'
  BY <1>1, <1>5, KeyParts DEF IInv, TypeOK, Held
<1>7. Open'
  BY <1>1, <1>5, KeyParts DEF IInv, Open
<1>8. WaiterCellIsLive'
  BY <1>1 DEF IInv, TypeOK, WaiterCellIsLive, Waiting
<1>9. NoLostWakeup'
  <2> SUFFICES ASSUME NEW q \in Runs, alive, rpc'[q] = "select",
                      count[rcell[q]] >= target[q]
               PROVE  \/ token'[rcell[q]] = 1
                      \/ \E n \in Callbacks : cpc[n] = "send" /\ ccell[n] = rcell[q]
    BY <1>1 DEF NoLostWakeup
  <2>1. q # r /\ rpc[q] = "select" /\ Waiting(q)
    BY <1>1 DEF IInv, TypeOK, Waiting
  <2>2. rcell[q] \in Cells /\ <<q, stage[q]>> \in Keys
    BY <2>1, WaiterCellType DEF IInv
  <2>3. rcell[q] # rcell[r]
    <3>1. /\ entry[<<q, stage[q]>>] = rcell[q] /\ rcell[q] # NoCell
          /\ entry[<<r, stage[r]>>] = rcell[r] /\ rcell[r] # NoCell
      BY <1>2, <2>1 DEF IInv, WaiterCellIsLive
    <3>2. <<q, stage[q]>> # <<r, stage[r]>>
      BY <2>1
    <3> QED BY <1>2, <2>2, <3>1, <3>2 DEF IInv, Owned
  <2> QED BY <1>1, <1>2, <2>1, <2>2, <2>3 DEF IInv, TypeOK, NoLostWakeup
<1>10. ReturnJustified'
  BY <1>1 DEF IInv, TypeOK, ReturnJustified
<1> QED BY <1>3, <1>4, <1>6, <1>7, <1>8, <1>9, <1>10 DEF IInv

\* Reset closes and forgets the cells of its own run, which no longer waits.
LEMMA ResetStep ==
  ASSUME IInv, NEW r \in Runs, Reset(r) PROVE IInv'
<1> USE NotifierConstants
<1>1. /\ rpc[r] = "reset"
      /\ closed' = closed \cup {entry[k] : k \in KeysOf(r)}
      /\ entry' = [k \in Keys |-> IF k \in KeysOf(r) THEN NoCell ELSE entry[k]]
      /\ rpc' = [rpc EXCEPT ![r] = "over"]
      /\ UNCHANGED <<count, token, cpc, ckey, ccell, stage, target, rcell, timedOut,
                     result, alive>>
  BY DEF Reset, cbVars
<1>2. \A k \in Keys : k \in KeysOf(r) <=> (k[1] = r /\ entry[k] # NoCell)
  BY DEF KeysOf
<1>3. KeysOf(r) \subseteq Keys
  BY DEF KeysOf
<1>4. TypeOK'
  <2>1. {entry[k] : k \in KeysOf(r)} \subseteq Cells
    BY <1>2, <1>3 DEF IInv, TypeOK
  <2> QED BY <1>1, <2>1 DEF IInv, TypeOK
<1>5. Owned'
  BY <1>1 DEF IInv, Owned
<1>6. Held'
  <2> SUFFICES ASSUME NEW n \in Callbacks, cpc[n] # "new"
               PROVE  /\ ccell[n] \in Cells
                      /\ rpc'[ckey[n][1]] # "over" => entry'[ckey[n]] = ccell[n]
    BY <1>1 DEF Held
  <2>1. ckey[n] \in Keys /\ ckey[n][1] \in Runs
    BY KeyParts DEF IInv, TypeOK
  <2>2. ccell[n] \in Cells /\ (rpc[ckey[n][1]] # "over" => entry[ckey[n]] = ccell[n])
    BY DEF IInv, Held
  <2> QED BY <1>1, <1>2, <2>1, <2>2 DEF IInv, TypeOK
<1>7. \A k \in Keys : (entry[k] # NoCell /\ k[1] # r) => entry[k] \notin closed'
  BY <1>1, <1>2, <1>3 DEF IInv, Open, Owned
<1>8. Open'
  <2>1. \A k \in Keys : entry'[k] # NoCell => entry'[k] \notin closed'
    BY <1>1, <1>2, <1>7
  <2>2. \A n \in Callbacks : cpc'[n] = "new" => n \notin closed'
    BY <1>1, <1>3, <1>2 DEF IInv, Open, Owned
  <2>3. \A k \in Keys : rpc'[k[1]] # "over" => k \notin closed'
    BY <1>1, <1>3, <1>2, KeyParts DEF IInv, TypeOK, Open, Owned
  <2> QED BY <2>1, <2>2, <2>3 DEF Open
<1>9. WaiterCellIsLive'
  <2> SUFFICES ASSUME NEW q \in Runs, Waiting(q)'
               PROVE  (/\ stage[q] \in 1..NumStages
                       /\ entry[<<q, stage[q]>>] = rcell[q]
                       /\ rcell[q] # NoCell
                       /\ rcell[q] \notin closed)'
    BY DEF WaiterCellIsLive
  <2>1. q # r /\ Waiting(q)
    BY <1>1 DEF IInv, TypeOK, Waiting
  <2>2. <<q, stage[q]>> \in Keys
    BY <2>1, WaiterCellType DEF IInv
  <2> QED BY <1>1, <1>2, <1>7, <2>1, <2>2 DEF IInv, WaiterCellIsLive
<1>10. NoLostWakeup' /\ ReturnJustified'
  BY <1>1 DEF IInv, TypeOK, NoLostWakeup, ReturnJustified
<1> QED BY <1>4, <1>5, <1>6, <1>8, <1>9, <1>10 DEF IInv

-----------------------------------------------------------------------------
\* The initial states satisfy the inductive invariant.
LEMMA InitIInv == Init => IInv
  BY NotifierConstants
  DEF Init, IInv, TypeOK, Owned, Held, Open, WaiterCellIsLive, Waiting,
      NoLostWakeup, ReturnJustified, Keys, Cells

\* Every step keeps it.
LEMMA StepIInv == IInv /\ [Next]_vars => IInv'
<1> SUFFICES ASSUME IInv, [Next]_vars PROVE IInv'
  OBVIOUS
<1>1. CASE UNCHANGED vars
  BY <1>1 DEF vars, IInv, TypeOK, Owned, Held, Open, WaiterCellIsLive, Waiting,
              NoLostWakeup, ReturnJustified
<1>2. CASE Next
  BY <1>1, <1>2, NotifyGetStep, NotifyAddStep, NotifySendStep, WaitCallStep,
     WaitLocalStep, WaitReceiveStep, ResetStep
  DEF Next, Notify, RunStep, Terminated
<1> QED BY <1>1, <1>2

\* The maps, cells and program counters always have their types.
THEOREM TypeCorrect == SafetySpec => []TypeOK
<1>1. IInv => TypeOK
  BY DEF IInv
<1> QED BY InitIInv, StepIInv, <1>1, PTL DEF SafetySpec

\* The coalescing channel never loses a wakeup: a WaitForCount that is blocked
\* with its target reached has a token or a sender on the way.
THEOREM WakeupNeverLost == SafetySpec => []NoLostWakeup
<1>1. IInv => NoLostWakeup
  BY DEF IInv
<1> QED BY InitIInv, StepIInv, <1>1, PTL DEF SafetySpec

\* No WaitForCount works on a cell that a Reset has closed or dropped.
THEOREM WaiterCellStaysLive == SafetySpec => []WaiterCellIsLive
<1>1. IInv => WaiterCellIsLive
  BY DEF IInv
<1> QED BY InitIInv, StepIInv, <1>1, PTL DEF SafetySpec

\* Every callback of the stage that is waited for is counted by that wait.
THEOREM CallbacksReachWaiter == SafetySpec => []CallbackReachesWaiter
<1>1. IInv => CallbackReachesWaiter
  <2> SUFFICES ASSUME IInv, NEW r \in Runs, NEW n \in Callbacks, Waiting(r),
                      ckey[n] = <<r, stage[r]>>, cpc[n] # "new"
               PROVE  ccell[n] = rcell[r]
    BY DEF CallbackReachesWaiter
  <2>1. ckey[n][1] = r /\ rpc[r] # "over"
    BY DEF Waiting
  <2> QED BY <2>1 DEF IInv, Held, WaiterCellIsLive
<1> QED BY InitIInv, StepIInv, <1>1, PTL DEF SafetySpec

\* The counter of a cell is the number of callbacks that were counted on it:
\* no increment is lost and none is made twice.
THEOREM CounterIsExact == SafetySpec => []CountExact
<1> USE NotifierConstants
<1>1. Init => CountExact
  <2> SUFFICES ASSUME Init, NEW c \in Cells PROVE count[c] = Cardinality(Counted(c))
    BY DEF CountExact
  <2>1. Counted(c) = {}
    BY DEF Init, Counted
  <2> QED BY <2>1, FS_EmptySet DEF Init
<1>2. IInv /\ CountExact /\ [Next]_vars => CountExact'
  <2> SUFFICES ASSUME IInv, CountExact, [Next]_vars, NEW c \in Cells
               PROVE  count'[c] = Cardinality(Counted(c)')
    BY DEF CountExact
  <2>1. count[c] = Cardinality(Counted(c))
    BY DEF CountExact
  <2>2. IsFiniteSet(Counted(c))
    BY FS_Subset DEF Counted
  <2>3. ASSUME NEW n \in Callbacks, NotifyAdd(n)
        PROVE  count'[c] = Cardinality(Counted(c)')
    <3>1. n \notin Counted(c) /\ ccell[n] \in Cells
      BY <2>3 DEF NotifyAdd, Counted, IInv, Held
    <3>2. CASE ccell[n] = c
      <4>1. Counted(c)' = Counted(c) \cup {n}
        BY <2>3, <3>2 DEF NotifyAdd, Counted, IInv, TypeOK
      <4>2. Cardinality(Counted(c)') = Cardinality(Counted(c)) + 1
        BY <2>2, <3>1, <4>1, FS_AddElement
      <4> QED BY <2>1, <2>3, <3>2, <4>2 DEF NotifyAdd, IInv, TypeOK
    <3>3. CASE ccell[n] # c
      <4>1. Counted(c)' = Counted(c)
        BY <2>3, <3>3 DEF NotifyAdd, Counted, IInv, TypeOK
      <4> QED BY <2>1, <2>3, <3>1, <3>3, <4>1 DEF NotifyAdd, IInv, TypeOK
    <3> QED BY <3>2, <3>3
  <2>4. ASSUME NEW n \in Callbacks, NotifyGet(n) \/ NotifySend(n)
        PROVE  count' = count /\ Counted(c)' = Counted(c)
    BY <2>4 DEF NotifyGet, NotifySend, Counted, cellVars, IInv, TypeOK
  <2>5. ASSUME NEW r \in Runs, RunStep(r)
        PROVE  count' = count /\ Counted(c)' = Counted(c)
    BY <2>5 DEF RunStep, WaitCall, WaitCheck, WaitReceive, WaitDeadline, WaitReturn,
                RunEnds, Reset, cellVars, cbVars, Counted
  <2>6. ASSUME UNCHANGED vars
        PROVE  count' = count /\ Counted(c)' = Counted(c)
    BY <2>6 DEF vars, Counted
  <2> QED BY <2>1, <2>3, <2>4, <2>5, <2>6 DEF Next, Notify, Terminated
<1> QED BY InitIInv, StepIInv, <1>1, <1>2, PTL DEF SafetySpec

\* WaitForCount returns less than its target only after its deadline.
THEOREM ShortCountNeedsDeadline == SafetySpec => ShortCountOnlyAfterDeadline
<1> DEFINE A == \A r \in Runs : (rpc[r] = "return" /\ rpc'[r] = "between")
                                   => r \in timedOut \/ result'[r] >= target[r]
<1>1. IInv /\ [Next]_vars => [A]_vars
  <2> SUFFICES ASSUME IInv, Next, NEW r \in Runs, rpc[r] = "return", rpc'[r] = "between"
               PROVE  r \in timedOut \/ result'[r] >= target[r]
    OBVIOUS
  <2>1. ASSUME NEW q \in Runs, RunStep(q) PROVE WaitReturn(r)
    BY <2>1 DEF IInv, TypeOK, RunStep, WaitCall, WaitCheck, WaitReceive, WaitDeadline,
                WaitReturn, RunEnds, Reset
  <2>2. ASSUME NEW n \in Callbacks, Notify(n) PROVE FALSE
    BY <2>2 DEF Notify, NotifyGet, NotifyAdd, NotifySend, runVars
  <2>3. ASSUME Terminated PROVE FALSE
    BY <2>3 DEF Terminated, vars
  <2>4. WaitReturn(r)
    BY <2>1, <2>2, <2>3 DEF Next
  <2> QED BY <2>4 DEF IInv, TypeOK, ReturnJustified, WaitReturn
<1> QED BY InitIInv, StepIInv, <1>1, PTL DEF SafetySpec, ShortCountOnlyAfterDeadline
=============================================================================
