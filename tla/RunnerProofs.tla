---------------------------- MODULE RunnerProofs ----------------------------
(***************************************************************************)
(* Theorems about Runner, for any number of callers, owners and jobs.      *)
(***************************************************************************)
EXTENDS RunnerInv, TLAPS

USE DEF Active, Final, InFlight

LEMMA TypeInit == Init => TypeOK
<1> SUFFICES ASSUME Init PROVE TypeOK
  OBVIOUS
<1> USE DEF Init
<1>1. FieldTypes
  <2>1. result \in Outcomes BY ResultsAssumption DEF Outcomes, ResultsAssumption
  <2>2. internal_callback_thread \in 0..MaxRuns
    BY RunsAssumption DEF RunsAssumption
  <2> QED BY <2>1, <2>2 DEF FieldTypes
<1>2. CallerTypes BY RunsAssumption DEF CallerTypes, PCs, Ops, RunsAssumption
<1>3. ThreadTypes BY DEF ThreadTypes, Outcomes
<1>4. GhostTypes
  <2>1. 0 \in 0..MaxRuns BY RunsAssumption DEF RunsAssumption
  <2> QED BY <2>1 DEF GhostTypes
<1> QED BY <1>1, <1>2, <1>3, <1>4 DEF TypeOK

LEMMA InitializeTypes ==
    ASSUME TypeOK, NEW u \in Callers, f_runner_initialize(u)
    PROVE  FieldTypes' /\ GhostTypes'
<1> USE DEF f_runner_initialize
<1>1. "NOICE" \in Outcomes BY ResultsAssumption DEF Outcomes, ResultsAssumption
<1>2. 0 \in 0..MaxRuns BY RunsAssumption DEF RunsAssumption
<1>3. FieldTypes' BY <1>1, <1>2 DEF TypeOK, FieldTypes, locks
<1>4. GhostTypes' BY <1>2 DEF TypeOK, GhostTypes
<1> QED BY <1>3, <1>4

LEMMA ReturnTypes ==
    ASSUME TypeOK, NEW u \in Callers, Return(u) PROVE CallerTypes'
<1> USE DEF TypeOK, CallerTypes, Return
<1>1. "out" \in PCs /\ "none" \in Ops BY DEF PCs, Ops
<1>2. 0 \in 0..MaxRuns BY RunsAssumption DEF RunsAssumption
<1>3. pc' \in [Callers -> PCs] /\ op' \in [Callers -> Ops] BY <1>1
<1>4. ticket' \in [Callers -> 0..MaxRuns] BY <1>2
<1>5. seen' \in [Callers -> 0..MaxRuns] /\ target' \in [Callers -> 0..MaxRuns] BY <1>2
<1> QED BY <1>3, <1>4, <1>5

LEMMA GotoTypes ==
    ASSUME TypeOK, NEW u \in Callers, NEW p \in PCs, Goto(u, p), UNCHANGED own
    PROVE  CallerTypes'
BY DEF TypeOK, CallerTypes, Goto, own

LEMMA JoinUnlockTypes ==
    ASSUME TypeOK, NEW u \in Callers, JoinUnlock(u) PROVE CallerTypes'
<1>1. "run_claim" \in PCs /\ "free_undefine" \in PCs BY DEF PCs
<1> QED BY <1>1, GotoTypes, ReturnTypes DEF JoinUnlock

LEMMA StopDoneTypes ==
    ASSUME TypeOK, NEW u \in Callers, StopDone(u) PROVE CallerTypes'
<1>1. "join_lock" \in PCs BY DEF PCs
<1> QED BY <1>1, GotoTypes, ReturnTypes DEF StopDone

(* Every step keeps the types, action by action.                           *)
LEMMA TypeStep == TypeOK /\ [Next]_vars => TypeOK'
<1> SUFFICES ASSUME TypeOK, [Next]_vars PROVE TypeOK'
  OBVIOUS
<1> USE RunsAssumption DEF RunsAssumption, TypeOK, FieldTypes, CallerTypes,
        ThreadTypes, GhostTypes, PCs, Ops, Outcomes, Runs, fields, locks, own,
        callers, threads, ghosts, shared, data, vars,
        Goto, Return, SetStatus, Enter, Advance, Joinable
<1>1. CASE UNCHANGED vars
  BY <1>1
<1>2. ASSUME NEW u \in Callers, f_runner_initialize(u) PROVE TypeOK'
  <2>1. FieldTypes' /\ GhostTypes' BY <1>2, InitializeTypes
  <2>2. CallerTypes' /\ ThreadTypes'
    BY <1>2 DEF f_runner_initialize
  <2> QED BY <2>1, <2>2
<1>3. ASSUME NEW u \in Callers, f_runner_run(u) PROVE TypeOK'
  <2>1. CASE CallRun(u) BY <2>1 DEF CallRun
  <2>2. CASE RunClaim(u) BY <2>2 DEF RunClaim
  <2>3. CASE RunRefuse(u) BY <2>3 DEF RunRefuse
  <2>4. CASE RunReset(u) BY <2>4 DEF RunReset
  <2>5. CASE RunCreate(u)
    <3>1. FieldTypes' /\ GhostTypes' BY <2>5 DEF RunCreate
    <3>2. CallerTypes' BY <2>5 DEF RunCreate
    <3>3. ThreadTypes' BY <2>5 DEF RunCreate
    <3> QED BY <3>1, <3>2, <3>3
  <2>6. CASE RunCreateFails(u) BY <2>6 DEF RunCreateFails
  <2>7. CASE RunUndo(u) BY <2>7 DEF RunUndo
  <2> QED BY <1>3, <2>1, <2>2, <2>3, <2>4, <2>5, <2>6, <2>7 DEF f_runner_run
<1>4. ASSUME NEW u \in Callers, f_runner_join(u) PROVE TypeOK'
  <2>1. CASE CallJoin(u) BY <2>1 DEF CallJoin
  <2>2. CASE JoinLock(u) BY <2>2 DEF JoinLock
  <2>3. CASE JoinCheck(u) BY <2>3 DEF JoinCheck
  <2>4. CASE JoinCall(u) BY <2>4 DEF JoinCall
  <2>5. CASE MisJoin(u) BY <2>5 DEF MisJoin
  <2>6. CASE JoinWait(u) BY <2>6 DEF JoinWait
  <2>7. CASE JoinReset(u) BY <2>7 DEF JoinReset
  <2>8. CASE JoinUnlock(u)
    <3>1. FieldTypes' /\ GhostTypes' BY <2>8 DEF JoinUnlock
    <3>2. CallerTypes' BY <2>8, JoinUnlockTypes
    <3>3. ThreadTypes' BY <2>8 DEF JoinUnlock
    <3> QED BY <3>1, <3>2, <3>3
  <2> QED BY <1>4, <2>1, <2>2, <2>3, <2>4, <2>5, <2>6, <2>7, <2>8 DEF f_runner_join
<1>5. ASSUME NEW u \in Callers, f_runner_tryjoin(u) PROVE TypeOK'
  <2>1. CASE CallTryjoin(u) BY <2>1 DEF CallTryjoin
  <2>2. CASE TryCheck(u) BY <2>2 DEF TryCheck
  <2>3. CASE TryWakeup(u) BY <2>3 DEF TryWakeup
  <2>4. CASE TryTimeout(u) BY <2>4 DEF TryTimeout
  <2> QED BY <1>5, <2>1, <2>2, <2>3, <2>4 DEF f_runner_tryjoin
<1>6. ASSUME NEW u \in Callers, f_runner_stop(u) PROVE TypeOK'
  <2>1. CASE CallStop(u) BY <2>1 DEF CallStop
  <2>2. CASE StopSet(u) BY <2>2 DEF StopSet
  <2>3. CASE StopDone(u)
    <3>1. FieldTypes' /\ GhostTypes' BY <2>3 DEF StopDone
    <3>2. CallerTypes' BY <2>3, StopDoneTypes
    <3>3. ThreadTypes' BY <2>3 DEF StopDone
    <3> QED BY <3>1, <3>2, <3>3
  <2> QED BY <1>6, <2>1, <2>2, <2>3 DEF f_runner_stop
<1>7. ASSUME NEW u \in Callers, f_runner_get_result(u) PROVE TypeOK'
  <2>1. CASE CallGet(u) BY <2>1 DEF CallGet
  <2>2. CASE GetRead(u) BY <2>2 DEF GetRead
  <2> QED BY <1>7, <2>1, <2>2 DEF f_runner_get_result
<1>8. ASSUME NEW u \in Callers, f_runner_free(u) PROVE TypeOK'
  <2>1. ASSUME NEW f \in BOOLEAN, CallFree(u, f) PROVE TypeOK'
    BY <2>1 DEF CallFree
  <2>2. CASE FreeStop(u) BY <2>2 DEF FreeStop
  <2>3. CASE FreeUndefine(u) BY <2>3 DEF FreeUndefine
  <2> QED BY <1>8, <2>1, <2>2, <2>3 DEF f_runner_free
<1>9. ASSUME NEW r \in Runs, p_runner_run_callback(r) PROVE TypeOK'
  <2>1. CASE WorkerStart(r) BY <2>1 DEF WorkerStart
  <2>2. CASE WorkerBegin(r) BY <2>2 DEF WorkerBegin
  <2>3. CASE CallbackInterrupted(r) BY <2>3 DEF CallbackInterrupted
  <2>4. CASE CallbackReturns(r) BY <2>4 DEF CallbackReturns
  <2>5. CASE WorkerPublish(r) BY <2>5 DEF WorkerPublish
  <2>6. CASE WorkerFinalise(r) BY <2>6 DEF WorkerFinalise
  <2>7. CASE WorkerBroadcast(r) BY <2>7 DEF WorkerBroadcast
  <2> QED BY <1>9, <2>1, <2>2, <2>3, <2>4, <2>5, <2>6, <2>7 DEF p_runner_run_callback
<1> QED
  BY <1>1, <1>2, <1>3, <1>4, <1>5, <1>6, <1>7, <1>8, <1>9 DEF Next, Caller

(* Every reachable state is well typed: the fields of the runner, where     *)
(* each caller and each thread stands, and what the properties remember.    *)
THEOREM TypeCorrect == Spec => []TypeOK
BY TypeInit, TypeStep, PTL DEF Spec

-----------------------------------------------------------------------------
(* The inductive invariant.  First, the facts that the longer steps need.  *)

LEMMA NoCallMeansOut ==
    ASSUME Core, NEW u \in Callers, op[u] = "none" PROVE pc[u] = "out"
BY DEF Core, CallerInv, CallsMatch, StepOfCall

(* The job about to be launched is new, nobody else is launching, and no   *)
(* thread is alive.                                                        *)
LEMMA ClaimIsFresh ==
    ASSUME TypeOK, Core, NEW u \in Callers, RunClaim(u)
    PROVE  /\ op[u] = "run" /\ ticket[u] \in Runs /\ ticket[u] # launched
           /\ wpc[ticket[u]] = "none"
           /\ \A v \in Callers : ~Claiming(v)
           /\ \A r \in Runs : wpc[r] \in {"none", "failed", "joined"}
<1>1. /\ op[u] = "run" /\ ticket[u] \in Runs /\ ticket[u] # launched
      /\ wpc[ticket[u]] = "none"
  BY RunsAssumption
     DEF RunClaim, Core, CallerInv, CallsMatch, StepOfCall, TicketsAreFresh, ThreadInv,
         StatusMatches, Claiming, InJoin, Runs, TypeOK, GhostTypes, CallerTypes,
         RunsAssumption
<1>2. \A v \in Callers : ~Claiming(v)
  BY DEF RunClaim, Core, CallerInv, ClaimsHold
<1>3. \A r \in Runs : wpc[r] \in {"none", "failed", "joined"}
  BY DEF RunClaim, Core, ThreadInv, StatusMatches, OneThread, Runs, TypeOK, GhostTypes
<1> QED BY <1>1, <1>2, <1>3

(* Between taking the runner and creating the thread a caller is alone.    *)
LEMMA ClaimerIsAlone ==
    ASSUME TypeOK, Core, NEW u \in Callers, Claiming(u)
    PROVE  /\ op[u] = "run" /\ ticket[u] = launched /\ launched \in Runs
           /\ status = "launching"
           /\ \A v \in Callers : v # u => ~Claiming(v)
<1>1. /\ op[u] = "run" /\ ticket[u] = launched /\ launched \in Runs
      /\ status = "launching"
  BY DEF Core, CallerInv, CallsMatch, StepOfCall, Claiming, InJoin, ClaimsHold,
         TicketsAreFresh, Runs, TypeOK, GhostTypes, CallerTypes
<1>2. \A v \in Callers : v # u => ~Claiming(v)
  BY <1>1 DEF Core, CallerInv, ClaimsHold, TicketsAreFresh, CallsMatch, StepOfCall,
              Claiming, InJoin
<1> QED BY <1>1, <1>2

(* A handle that can be joined is the one of the job launched last.        *)
LEMMA JoinedIsLaunched ==
    ASSUME Core, NEW u \in Callers, JoinCall(u)
    PROVE  /\ launched \in Runs /\ internal_callback_thread = launched
           /\ wpc[launched] \in InFlight \cup {"exited"}
BY DEF JoinCall, Core, ThreadInv, OneThread, Joinable

(* A job that ends is the one launched last, and its result is published.  *)
LEMMA FinisherIsLaunched ==
    ASSUME TypeOK, Core, NEW r \in Runs, wpc[r] = "finalise"
    PROVE  /\ r = launched /\ status = "running"
           /\ resultOf = r /\ result = outcome[r] /\ outcome[r] # "none"
<1>1. r = launched BY DEF Core, ThreadInv, OneThread
<1>2. status = "running"
  BY <1>1 DEF Core, ThreadInv, StatusMatches, TypeOK, FieldTypes
<1> QED BY <1>1, <1>2 DEF Core, DataInv, Published, Begun

(* When the runner is destroyed it is idle and nobody is using it.         *)
LEMMA FreeIsLast ==
    ASSUME Core, NEW u \in Callers, FreeUndefine(u)
    PROVE  /\ op[u] = "free" /\ status = "idle"
           /\ \A v \in Callers : v # u => op[v] = "none" /\ pc[v] = "out"
BY DEF FreeUndefine, Core, CallerInv, CallsMatch, StepOfCall, FreeIsAlone, Claiming, InJoin

USE DEF TypeOK, FieldTypes, CallerTypes, ThreadTypes, GhostTypes, Runs, Outcomes,
        fields, locks, own, callers, threads, ghosts, shared, data,
        SetStatus, Goto, Return, Advance, Enter, Joinable, Dead, Interrupted,
        Claiming, InJoin, Begun, StepOfCall
USE OwnersAssumption, RunsAssumption DEF OwnersAssumption, RunsAssumption

LEMMA RunClaimKeeps ==
    ASSUME TypeOK, Core, NEW u \in Callers, RunClaim(u), ~misjoined'
    PROVE  Core'
<1> USE DEF Core, CallerInv, ThreadInv, DataInv, CallsMatch, FreeIsAlone,
        TicketsAreFresh, ClaimsHold, StatusMatches, OneThread, JoinLockHeld,
        JoinerFollows, CollectedByJoiner, Published, StopsKept, ReadersFresh,
        WaitersWoken
<1>1. /\ op[u] = "run" /\ ticket[u] \in Runs /\ ticket[u] # launched
      /\ wpc[ticket[u]] = "none"
  BY ClaimIsFresh
<1>2. \A v \in Callers : ~Claiming(v)
  BY ClaimIsFresh
<1>3. \A r \in Runs : wpc[r] \in {"none", "failed", "joined"}
  BY ClaimIsFresh
<1>7. CallerInv' BY <1>1, <1>2, <1>3, SMTT(30) DEF RunClaim
<1>8. ThreadInv' BY <1>1, <1>2, <1>3, SMTT(30) DEF RunClaim
<1>9. DataInv' BY <1>1, <1>2, <1>3, SMTT(30) DEF RunClaim
<1> QED BY <1>7, <1>8, <1>9 DEF Core

LEMMA RunCreateKeeps ==
    ASSUME TypeOK, Core, NEW u \in Callers, RunCreate(u), ~misjoined'
    PROVE  Core'
<1> USE DEF Core, CallerInv, ThreadInv, DataInv, CallsMatch, FreeIsAlone,
        TicketsAreFresh, ClaimsHold, StatusMatches, OneThread, JoinLockHeld,
        JoinerFollows, CollectedByJoiner, Published, StopsKept, ReadersFresh,
        WaitersWoken
<1>1. /\ op[u] = "run" /\ ticket[u] = launched /\ launched \in Runs
      /\ status = "launching"
  BY ClaimerIsAlone DEF RunCreate
<1>2. \A v \in Callers : v # u => ~Claiming(v)
  BY ClaimerIsAlone DEF RunCreate
<1>7. CallerInv' BY <1>1, <1>2, SMTT(30) DEF RunCreate
<1>8. ThreadInv' BY <1>1, <1>2, SMTT(30) DEF RunCreate
<1>9. DataInv' BY <1>1, <1>2, SMTT(30) DEF RunCreate
<1> QED BY <1>7, <1>8, <1>9 DEF Core

LEMMA RunCreateFailsKeeps ==
    ASSUME TypeOK, Core, NEW u \in Callers, RunCreateFails(u), ~misjoined'
    PROVE  Core'
<1> USE DEF Core, CallerInv, ThreadInv, DataInv, CallsMatch, FreeIsAlone,
        TicketsAreFresh, ClaimsHold, StatusMatches, OneThread, JoinLockHeld,
        JoinerFollows, CollectedByJoiner, Published, StopsKept, ReadersFresh,
        WaitersWoken
<1>1. /\ op[u] = "run" /\ ticket[u] = launched /\ launched \in Runs
      /\ status = "launching"
  BY ClaimerIsAlone DEF RunCreateFails
<1>2. \A v \in Callers : v # u => ~Claiming(v)
  BY ClaimerIsAlone DEF RunCreateFails
<1>7. CallerInv' BY <1>1, <1>2, SMTT(30) DEF RunCreateFails
<1>8. ThreadInv' BY <1>1, <1>2, SMTT(30) DEF RunCreateFails
<1>9. DataInv' BY <1>1, <1>2, SMTT(30) DEF RunCreateFails
<1> QED BY <1>7, <1>8, <1>9 DEF Core

LEMMA RunUndoKeeps ==
    ASSUME TypeOK, Core, NEW u \in Callers, RunUndo(u), ~misjoined'
    PROVE  Core'
<1> USE DEF Core, CallerInv, ThreadInv, DataInv, CallsMatch, FreeIsAlone,
        TicketsAreFresh, ClaimsHold, StatusMatches, OneThread, JoinLockHeld,
        JoinerFollows, CollectedByJoiner, Published, StopsKept, ReadersFresh,
        WaitersWoken
<1>1. /\ op[u] = "run" /\ ticket[u] = launched /\ launched \in Runs
      /\ status = "launching"
  BY ClaimerIsAlone DEF RunUndo
<1>2. \A v \in Callers : v # u => ~Claiming(v)
  BY ClaimerIsAlone DEF RunUndo
<1>7. CallerInv' BY <1>1, <1>2, SMTT(30) DEF RunUndo
<1>8. ThreadInv' BY <1>1, <1>2, SMTT(30) DEF RunUndo
<1>9. DataInv' BY <1>1, <1>2, SMTT(30) DEF RunUndo
<1> QED BY <1>7, <1>8, <1>9 DEF Core

LEMMA JoinUnlockKeeps ==
    ASSUME TypeOK, Core, NEW u \in Callers, JoinUnlock(u), ~misjoined'
    PROVE  Core'
<1> USE DEF Core, CallerInv, ThreadInv, DataInv, CallsMatch, FreeIsAlone,
        TicketsAreFresh, ClaimsHold, StatusMatches, OneThread, JoinLockHeld,
        JoinerFollows, CollectedByJoiner, Published, StopsKept, ReadersFresh,
        WaitersWoken
<1>0. /\ pc[u] = "join_unlock" /\ join_lock' = Nobody
      /\ UNCHANGED <<fields, interrupt_lock, threads, ghosts>>
  BY DEF JoinUnlock
<1>1. CASE op[u] = "run"
  <2>0. Goto(u, "run_claim") /\ UNCHANGED own BY <1>1 DEF JoinUnlock
  <2>7. CallerInv' BY <1>0, <1>1, <2>0, SMTT(30)
  <2>8. ThreadInv' BY <1>0, <1>1, <2>0, SMTT(30)
  <2>9. DataInv' BY <1>0, <1>1, <2>0, SMTT(30)
  <2> QED BY <2>7, <2>8, <2>9 DEF Core
<1>2. CASE op[u] = "free"
  <2>0. Goto(u, "free_undefine") /\ UNCHANGED own BY <1>2 DEF JoinUnlock
  <2>7. CallerInv' BY <1>0, <1>2, <2>0, SMTT(30)
  <2>8. ThreadInv' BY <1>0, <1>2, <2>0, SMTT(30)
  <2>9. DataInv' BY <1>0, <1>2, <2>0, SMTT(30)
  <2> QED BY <2>7, <2>8, <2>9 DEF Core
<1>3. CASE op[u] \in {"join", "tryjoin"}
  <2>0. Return(u) BY <1>3 DEF JoinUnlock
  <2>7. CallerInv' BY <1>0, <1>3, <2>0, SMTT(30)
  <2>8. ThreadInv' BY <1>0, <1>3, <2>0, SMTT(30)
  <2>9. DataInv' BY <1>0, <1>3, <2>0, SMTT(30)
  <2> QED BY <2>7, <2>8, <2>9 DEF Core
<1> QED BY <1>1, <1>2, <1>3 DEF JoinUnlock

LEMMA StopDoneKeeps ==
    ASSUME TypeOK, Core, NEW u \in Callers, StopDone(u), ~misjoined'
    PROVE  Core'
<1> USE DEF Core, CallerInv, ThreadInv, DataInv, CallsMatch, FreeIsAlone,
        TicketsAreFresh, ClaimsHold, StatusMatches, OneThread, JoinLockHeld,
        JoinerFollows, CollectedByJoiner, Published, StopsKept, ReadersFresh,
        WaitersWoken
<1>0. pc[u] = "stop_done" /\ UNCHANGED <<fields, join_lock, threads, ghosts>>
  BY DEF StopDone
<1>1. CASE op[u] = "free"
  <2>0. Goto(u, "join_lock") /\ UNCHANGED own BY <1>1 DEF StopDone
  <2>7. CallerInv' BY <1>0, <1>1, <2>0, SMTT(30)
  <2>8. ThreadInv' BY <1>0, <1>1, <2>0, SMTT(30)
  <2>9. DataInv' BY <1>0, <1>1, <2>0, SMTT(30)
  <2> QED BY <2>7, <2>8, <2>9 DEF Core
<1>2. CASE op[u] = "stop"
  <2>0. Return(u) BY <1>2 DEF StopDone
  <2>7. CallerInv' BY <1>0, <1>2, <2>0, SMTT(30)
  <2>8. ThreadInv' BY <1>0, <1>2, <2>0, SMTT(30)
  <2>9. DataInv' BY <1>0, <1>2, <2>0, SMTT(30)
  <2> QED BY <2>7, <2>8, <2>9 DEF Core
<1> QED BY <1>1, <1>2 DEF StopDone

LEMMA JoinCheckKeeps ==
    ASSUME TypeOK, Core, NEW u \in Callers, JoinCheck(u), ~misjoined'
    PROVE  Core'
<1> USE DEF Core, CallerInv, ThreadInv, DataInv, CallsMatch, FreeIsAlone,
        TicketsAreFresh, ClaimsHold, StatusMatches, OneThread, JoinLockHeld,
        JoinerFollows, CollectedByJoiner, Published, StopsKept, ReadersFresh,
        WaitersWoken
<1>0. /\ pc[u] = "join_check"
      /\ UNCHANGED <<fields, locks, ticket, target, threads, ghosts>>
  BY DEF JoinCheck
<1>1. CASE status \in {"launching", "running", "completed", "interrupted"}
  <2>0. Goto(u, "join_call") /\ seen' = [seen EXCEPT ![u] = launched] BY <1>1 DEF JoinCheck
  <2>7. CallerInv' BY <1>0, <1>1, <2>0, SMTT(30)
  <2>8. ThreadInv' BY <1>0, <1>1, <2>0, SMTT(30)
  <2>9. DataInv' BY <1>0, <1>1, <2>0, SMTT(30)
  <2> QED BY <2>7, <2>8, <2>9 DEF Core
<1>2. CASE status \notin {"launching", "running", "completed", "interrupted"}
  <2>0. Goto(u, "join_unlock") /\ UNCHANGED seen BY <1>2 DEF JoinCheck
  <2>7. CallerInv' BY <1>0, <1>2, <2>0, SMTT(30)
  <2>8. ThreadInv' BY <1>0, <1>2, <2>0, SMTT(30)
  <2>9. DataInv' BY <1>0, <1>2, <2>0, SMTT(30)
  <2> QED BY <2>7, <2>8, <2>9 DEF Core
<1> QED BY <1>1, <1>2 DEF JoinCheck

LEMMA FreeStopKeeps ==
    ASSUME TypeOK, Core, NEW u \in Callers, FreeStop(u), ~misjoined'
    PROVE  Core'
<1> USE DEF Core, CallerInv, ThreadInv, DataInv, CallsMatch, FreeIsAlone,
        TicketsAreFresh, ClaimsHold, StatusMatches, OneThread, JoinLockHeld,
        JoinerFollows, CollectedByJoiner, Published, StopsKept, ReadersFresh,
        WaitersWoken
<1>0. /\ pc[u] = "free_stop" /\ status # "launching"
      /\ UNCHANGED <<fields, locks, ticket, target, threads, ghosts>>
  BY DEF FreeStop
<1>1. CASE status = "running"
  <2>0. Goto(u, "stop_set") /\ seen' = [seen EXCEPT ![u] = launched] BY <1>1 DEF FreeStop
  <2>7. CallerInv' BY <1>0, <1>1, <2>0, SMTT(30)
  <2>8. ThreadInv' BY <1>0, <1>1, <2>0, SMTT(30)
  <2>9. DataInv' BY <1>0, <1>1, <2>0, SMTT(30)
  <2> QED BY <2>7, <2>8, <2>9 DEF Core
<1>2. CASE status # "running"
  <2>0. Goto(u, "join_lock") /\ UNCHANGED seen BY <1>2 DEF FreeStop
  <2>7. CallerInv' BY <1>0, <1>2, <2>0, SMTT(30)
  <2>8. ThreadInv' BY <1>0, <1>2, <2>0, SMTT(30)
  <2>9. DataInv' BY <1>0, <1>2, <2>0, SMTT(30)
  <2> QED BY <2>7, <2>8, <2>9 DEF Core
<1> QED BY <1>1, <1>2 DEF FreeStop

LEMMA JoinCallKeeps ==
    ASSUME TypeOK, Core, NEW u \in Callers, JoinCall(u), ~misjoined'
    PROVE  Core'
<1> USE DEF Core, CallerInv, ThreadInv, DataInv, CallsMatch, FreeIsAlone,
        TicketsAreFresh, ClaimsHold, StatusMatches, OneThread, JoinLockHeld,
        JoinerFollows, CollectedByJoiner, Published, StopsKept, ReadersFresh,
        WaitersWoken
<1>1. /\ launched \in Runs /\ internal_callback_thread = launched
      /\ wpc[launched] \in {"start", "begin", "callback", "publish", "finalise",
                            "broadcast", "exited"}
  BY JoinedIsLaunched
<1>2. /\ target' = [target EXCEPT ![u] = launched] /\ Goto(u, "join_wait")
      /\ pc[u] = "join_call"
      /\ UNCHANGED <<fields, locks, ticket, seen, threads, ghosts>>
  BY <1>1 DEF JoinCall
<1>7. CallerInv' BY <1>1, <1>2, SMTT(30)
<1>8. ThreadInv' BY <1>1, <1>2, SMTT(30)
<1>9. DataInv' BY <1>1, <1>2, SMTT(30)
<1> QED BY <1>7, <1>8, <1>9 DEF Core

LEMMA WorkerFinaliseKeeps ==
    ASSUME TypeOK, Core, NEW r \in Runs, WorkerFinalise(r), ~misjoined'
    PROVE  Core'
<1> USE DEF Core, CallerInv, ThreadInv, DataInv, CallsMatch, FreeIsAlone,
        TicketsAreFresh, ClaimsHold, StatusMatches, OneThread, JoinLockHeld,
        JoinerFollows, CollectedByJoiner, Published, StopsKept, ReadersFresh,
        WaitersWoken
<1>0. wpc[r] = "finalise" BY DEF WorkerFinalise
<1>1. /\ r = launched /\ status = "running"
      /\ resultOf = r /\ result = outcome[r] /\ outcome[r] # "none"
  BY <1>0, FinisherIsLaunched
<1>2. /\ status' \in {"completed", "interrupted"}
      /\ status' = "interrupted" <=> outcome[r] = "SHIT_THREAD_INTERRUPTED"
  BY DEF WorkerFinalise
<1>3. /\ wpc' = [wpc EXCEPT ![r] = "broadcast"]
      /\ UNCHANGED <<result, interrupt_required, internal_callback_thread, locks, ghosts,
                     callers, outcome>>
  BY DEF WorkerFinalise
<1>7. CallerInv' BY <1>0, <1>1, <1>2, <1>3, SMTT(30)
<1>8. ThreadInv' BY <1>0, <1>1, <1>2, <1>3, SMTT(30)
<1>9. DataInv' BY <1>0, <1>1, <1>2, <1>3, SMTT(30)
<1> QED BY <1>7, <1>8, <1>9 DEF Core

LEMMA FreeUndefineKeeps ==
    ASSUME TypeOK, Core, NEW u \in Callers, FreeUndefine(u), ~misjoined'
    PROVE  Core'
<1> USE DEF Core, CallerInv, ThreadInv, DataInv, CallsMatch, FreeIsAlone,
        TicketsAreFresh, ClaimsHold, StatusMatches, OneThread, JoinLockHeld,
        JoinerFollows, CollectedByJoiner, Published, StopsKept, ReadersFresh,
        WaitersWoken
<1>1. /\ op[u] = "free" /\ status = "idle"
      /\ \A v \in Callers : v # u => op[v] = "none" /\ pc[v] = "out"
  BY FreeIsLast
<1>7. CallerInv' BY <1>1, SMTT(30) DEF FreeUndefine
<1>8. ThreadInv' BY <1>1, SMTT(30) DEF FreeUndefine
<1>9. DataInv' BY <1>1, SMTT(30) DEF FreeUndefine
<1> QED BY <1>7, <1>8, <1>9 DEF Core

LEMMA CallRunKeeps ==
    ASSUME TypeOK, Core, NEW u \in Callers, CallRun(u), ~misjoined'
    PROVE  Core'
<1> USE DEF Core, CallerInv, ThreadInv, DataInv, CallsMatch, FreeIsAlone,
        TicketsAreFresh, ClaimsHold, StatusMatches, OneThread, JoinLockHeld,
        JoinerFollows, CollectedByJoiner, Published, StopsKept, ReadersFresh,
        WaitersWoken
<1>1. pc[u] = "out" BY NoCallMeansOut DEF CallRun
<1>7. CallerInv' BY <1>1, SMTT(30) DEF CallRun
<1>8. ThreadInv' BY <1>1, SMTT(30) DEF CallRun
<1>9. DataInv' BY <1>1, SMTT(30) DEF CallRun
<1> QED BY <1>7, <1>8, <1>9 DEF Core

LEMMA CallJoinKeeps ==
    ASSUME TypeOK, Core, NEW u \in Callers, CallJoin(u), ~misjoined'
    PROVE  Core'
<1> USE DEF Core, CallerInv, ThreadInv, DataInv, CallsMatch, FreeIsAlone,
        TicketsAreFresh, ClaimsHold, StatusMatches, OneThread, JoinLockHeld,
        JoinerFollows, CollectedByJoiner, Published, StopsKept, ReadersFresh,
        WaitersWoken
<1>1. pc[u] = "out" BY NoCallMeansOut DEF CallJoin
<1>7. CallerInv' BY <1>1, SMTT(30) DEF CallJoin
<1>8. ThreadInv' BY <1>1, SMTT(30) DEF CallJoin
<1>9. DataInv' BY <1>1, SMTT(30) DEF CallJoin
<1> QED BY <1>7, <1>8, <1>9 DEF Core

LEMMA CallTryjoinKeeps ==
    ASSUME TypeOK, Core, NEW u \in Callers, CallTryjoin(u), ~misjoined'
    PROVE  Core'
<1> USE DEF Core, CallerInv, ThreadInv, DataInv, CallsMatch, FreeIsAlone,
        TicketsAreFresh, ClaimsHold, StatusMatches, OneThread, JoinLockHeld,
        JoinerFollows, CollectedByJoiner, Published, StopsKept, ReadersFresh,
        WaitersWoken
<1>1. pc[u] = "out" BY NoCallMeansOut DEF CallTryjoin
<1>7. CallerInv' BY <1>1, SMTT(30) DEF CallTryjoin
<1>8. ThreadInv' BY <1>1, SMTT(30) DEF CallTryjoin
<1>9. DataInv' BY <1>1, SMTT(30) DEF CallTryjoin
<1> QED BY <1>7, <1>8, <1>9 DEF Core

LEMMA CallStopKeeps ==
    ASSUME TypeOK, Core, NEW u \in Callers, CallStop(u), ~misjoined'
    PROVE  Core'
<1> USE DEF Core, CallerInv, ThreadInv, DataInv, CallsMatch, FreeIsAlone,
        TicketsAreFresh, ClaimsHold, StatusMatches, OneThread, JoinLockHeld,
        JoinerFollows, CollectedByJoiner, Published, StopsKept, ReadersFresh,
        WaitersWoken
<1>1. pc[u] = "out" BY NoCallMeansOut DEF CallStop
<1>7. CallerInv' BY <1>1, SMTT(30) DEF CallStop
<1>8. ThreadInv' BY <1>1, SMTT(30) DEF CallStop
<1>9. DataInv' BY <1>1, SMTT(30) DEF CallStop
<1> QED BY <1>7, <1>8, <1>9 DEF Core

LEMMA CallGetKeeps ==
    ASSUME TypeOK, Core, NEW u \in Callers, CallGet(u), ~misjoined'
    PROVE  Core'
<1> USE DEF Core, CallerInv, ThreadInv, DataInv, CallsMatch, FreeIsAlone,
        TicketsAreFresh, ClaimsHold, StatusMatches, OneThread, JoinLockHeld,
        JoinerFollows, CollectedByJoiner, Published, StopsKept, ReadersFresh,
        WaitersWoken
<1>1. pc[u] = "out" BY NoCallMeansOut DEF CallGet
<1>7. CallerInv' BY <1>1, SMTT(30) DEF CallGet
<1>8. ThreadInv' BY <1>1, SMTT(30) DEF CallGet
<1>9. DataInv' BY <1>1, SMTT(30) DEF CallGet
<1> QED BY <1>7, <1>8, <1>9 DEF Core

LEMMA CallFreeKeeps ==
    ASSUME TypeOK, Core, NEW u \in Callers, NEW force \in BOOLEAN, CallFree(u, force), ~misjoined'
    PROVE  Core'
<1> USE DEF Core, CallerInv, ThreadInv, DataInv, CallsMatch, FreeIsAlone,
        TicketsAreFresh, ClaimsHold, StatusMatches, OneThread, JoinLockHeld,
        JoinerFollows, CollectedByJoiner, Published, StopsKept, ReadersFresh,
        WaitersWoken
<1>1. pc[u] = "out" BY NoCallMeansOut DEF CallFree
<1>7. CallerInv' BY <1>1, SMTT(30) DEF CallFree
<1>8. ThreadInv' BY <1>1, SMTT(30) DEF CallFree
<1>9. DataInv' BY <1>1, SMTT(30) DEF CallFree
<1> QED BY <1>7, <1>8, <1>9 DEF Core

LEMMA CallbackReturnsKeeps ==
    ASSUME TypeOK, Core, NEW r \in Runs, CallbackReturns(r), ~misjoined'
    PROVE  Core'
<1> USE DEF Core, CallerInv, ThreadInv, DataInv, CallsMatch, FreeIsAlone,
        TicketsAreFresh, ClaimsHold, StatusMatches, OneThread, JoinLockHeld,
        JoinerFollows, CollectedByJoiner, Published, StopsKept, ReadersFresh,
        WaitersWoken
<1>1. \A res \in JobResults : res # "none"
  BY ResultsAssumption DEF ResultsAssumption
<1>7. CallerInv' BY <1>1, SMTT(30) DEF CallbackReturns
<1>8. ThreadInv' BY <1>1, SMTT(30) DEF CallbackReturns
<1>9. DataInv' BY <1>1, SMTT(30) DEF CallbackReturns
<1> QED BY <1>7, <1>8, <1>9 DEF Core

(* Every step that keeps pthread_join well used keeps the account.         *)
LEMMA CoreStep == TypeOK /\ Core /\ [Next]_vars /\ ~misjoined' => Core'
<1> SUFFICES ASSUME TypeOK, Core, [Next]_vars, ~misjoined' PROVE Core'
  OBVIOUS
<1> USE DEF Core, CallerInv, ThreadInv, DataInv, CallsMatch, FreeIsAlone,
        TicketsAreFresh, ClaimsHold, StatusMatches, OneThread, JoinLockHeld,
        JoinerFollows, CollectedByJoiner, Published, StopsKept, ReadersFresh,
        WaitersWoken
<1>1. CASE UNCHANGED vars
  BY <1>1 DEF vars
<1>2. ASSUME NEW u \in Callers, f_runner_initialize(u) PROVE Core'
  BY <1>2, SMTT(30) DEF f_runner_initialize
<1>3. ASSUME NEW u \in Callers, f_runner_run(u) PROVE Core'
  <2>1. CASE CallRun(u) BY <2>1, CallRunKeeps, SMTT(30)
  <2>2. CASE RunClaim(u) BY <2>2, RunClaimKeeps, SMTT(30)
  <2>3. CASE RunRefuse(u) BY <2>3, SMTT(30) DEF RunRefuse
  <2>4. CASE RunReset(u) BY <2>4, SMTT(30) DEF RunReset
  <2>5. CASE RunCreate(u) BY <2>5, RunCreateKeeps, SMTT(30)
  <2>6. CASE RunCreateFails(u) BY <2>6, RunCreateFailsKeeps, SMTT(30)
  <2>7. CASE RunUndo(u) BY <2>7, RunUndoKeeps, SMTT(30)
  <2> QED BY <1>3, <2>1, <2>2, <2>3, <2>4, <2>5, <2>6, <2>7 DEF f_runner_run
<1>4. ASSUME NEW u \in Callers, f_runner_join(u) PROVE Core'
  <2>1. CASE CallJoin(u) BY <2>1, CallJoinKeeps, SMTT(30)
  <2>2. CASE JoinLock(u) BY <2>2, SMTT(30) DEF JoinLock
  <2>3. CASE JoinCheck(u) BY <2>3, JoinCheckKeeps, SMTT(30)
  <2>4. CASE JoinCall(u) BY <2>4, JoinCallKeeps, SMTT(30)
  <2>5. CASE MisJoin(u) BY <2>5, SMTT(30) DEF MisJoin
  <2>6. CASE JoinWait(u) BY <2>6, SMTT(30) DEF JoinWait
  <2>7. CASE JoinReset(u) BY <2>7, SMTT(30) DEF JoinReset
  <2>8. CASE JoinUnlock(u) BY <2>8, JoinUnlockKeeps, SMTT(30)
  <2> QED BY <1>4, <2>1, <2>2, <2>3, <2>4, <2>5, <2>6, <2>7, <2>8 DEF f_runner_join
<1>5. ASSUME NEW u \in Callers, f_runner_tryjoin(u) PROVE Core'
  <2>1. CASE CallTryjoin(u) BY <2>1, CallTryjoinKeeps, SMTT(30)
  <2>2. CASE TryCheck(u) BY <2>2, SMTT(30) DEF TryCheck
  <2>3. CASE TryWakeup(u) BY <2>3, SMTT(30) DEF TryWakeup
  <2>4. CASE TryTimeout(u) BY <2>4, SMTT(30) DEF TryTimeout
  <2> QED BY <1>5, <2>1, <2>2, <2>3, <2>4 DEF f_runner_tryjoin
<1>6. ASSUME NEW u \in Callers, f_runner_stop(u) PROVE Core'
  <2>1. CASE CallStop(u) BY <2>1, CallStopKeeps, SMTT(30)
  <2>2. CASE StopSet(u) BY <2>2, SMTT(30) DEF StopSet
  <2>3. CASE StopDone(u) BY <2>3, StopDoneKeeps, SMTT(30)
  <2> QED BY <1>6, <2>1, <2>2, <2>3 DEF f_runner_stop
<1>7. ASSUME NEW u \in Callers, f_runner_get_result(u) PROVE Core'
  <2>1. CASE CallGet(u) BY <2>1, CallGetKeeps, SMTT(30)
  <2>2. CASE GetRead(u) BY <2>2, SMTT(30) DEF GetRead
  <2> QED BY <1>7, <2>1, <2>2 DEF f_runner_get_result
<1>8. ASSUME NEW u \in Callers, f_runner_free(u) PROVE Core'
  <2>1. ASSUME NEW force \in BOOLEAN, CallFree(u, force) PROVE Core'
    BY <2>1, CallFreeKeeps, SMTT(30)
  <2>2. CASE FreeStop(u) BY <2>2, FreeStopKeeps, SMTT(30)
  <2>3. CASE FreeUndefine(u) BY <2>3, FreeUndefineKeeps, SMTT(30)
  <2> QED BY <1>8, <2>1, <2>2, <2>3 DEF f_runner_free
<1>9. ASSUME NEW r \in Runs, p_runner_run_callback(r) PROVE Core'
  <2>1. CASE WorkerStart(r) BY <2>1, SMTT(30) DEF WorkerStart
  <2>2. CASE WorkerBegin(r) BY <2>2, SMTT(30) DEF WorkerBegin
  <2>3. CASE CallbackInterrupted(r) BY <2>3, SMTT(30) DEF CallbackInterrupted
  <2>4. CASE CallbackReturns(r) BY <2>4, CallbackReturnsKeeps, SMTT(30)
  <2>5. CASE WorkerPublish(r) BY <2>5, SMTT(30) DEF WorkerPublish
  <2>6. CASE WorkerFinalise(r) BY <2>6, WorkerFinaliseKeeps, SMTT(30)
  <2>7. CASE WorkerBroadcast(r) BY <2>7, SMTT(30) DEF WorkerBroadcast
  <2> QED BY <1>9, <2>1, <2>2, <2>3, <2>4, <2>5, <2>6, <2>7 DEF p_runner_run_callback
<1> QED
  BY <1>1, <1>2, <1>3, <1>4, <1>5, <1>6, <1>7, <1>8, <1>9 DEF Next, Caller

(* Misuse of pthread_join is never undone.                                 *)
LEMMA MisjoinedStays == misjoined /\ [Next]_vars => misjoined'
<1> SUFFICES ASSUME misjoined, [Next]_vars PROVE misjoined'
  OBVIOUS
<1>1. CASE UNCHANGED vars BY <1>1 DEF vars
<1>2. ASSUME NEW u \in Callers, Caller(u) PROVE misjoined'
  <2>1. CASE f_runner_initialize(u) BY <2>1 DEF f_runner_initialize
  <2>2. CASE f_runner_run(u)
    BY <2>2 DEF f_runner_run, CallRun, RunClaim, RunRefuse, RunReset, RunCreate, RunCreateFails, RunUndo
  <2>3. CASE f_runner_join(u)
    BY <2>3 DEF f_runner_join, CallJoin, JoinLock, JoinCheck, JoinCall, MisJoin, JoinWait, JoinReset, JoinUnlock
  <2>4. CASE f_runner_tryjoin(u)
    BY <2>4 DEF f_runner_tryjoin, CallTryjoin, TryCheck, TryWakeup, TryTimeout
  <2>5. CASE f_runner_stop(u)
    BY <2>5 DEF f_runner_stop, CallStop, StopSet, StopDone
  <2>6. CASE f_runner_get_result(u)
    BY <2>6 DEF f_runner_get_result, CallGet, GetRead
  <2>7. CASE f_runner_free(u)
    BY <2>7 DEF f_runner_free, CallFree, FreeStop, FreeUndefine
  <2> QED BY <1>2, <2>1, <2>2, <2>3, <2>4, <2>5, <2>6, <2>7 DEF Caller
<1>3. ASSUME NEW r \in Runs, p_runner_run_callback(r) PROVE misjoined'
  BY <1>3 DEF p_runner_run_callback, WorkerStart, WorkerBegin, CallbackInterrupted,
              CallbackReturns, WorkerPublish, WorkerFinalise, WorkerBroadcast
<1> QED BY <1>1, <1>2, <1>3 DEF Next

LEMMA CoreInit == Init => Core
<1> SUFFICES ASSUME Init PROVE Core
  OBVIOUS
<1> USE DEF Init
<1>1. CallerInv
  BY DEF CallerInv, CallsMatch, FreeIsAlone, TicketsAreFresh, ClaimsHold
<1>2. ThreadInv
  BY DEF ThreadInv, StatusMatches, OneThread, JoinLockHeld, JoinerFollows,
         CollectedByJoiner
<1>3. DataInv
  BY DEF DataInv, Published, StopsKept, ReadersFresh, WaitersWoken
<1> QED BY <1>1, <1>2, <1>3 DEF Core

(* The account of callers and threads holds in every reachable state in     *)
(* which pthread_join has only been given joinable threads.                 *)
THEOREM Inductive == Spec => []IInv
<1>1. Init => IInv
  BY TypeInit, CoreInit DEF IInv
<1>2. IInv /\ [Next]_vars => IInv'
  BY TypeStep, CoreStep, MisjoinedStays DEF IInv
<1> QED BY <1>1, <1>2, PTL DEF Spec

-----------------------------------------------------------------------------
(* The properties of Runner, each from the invariant.                      *)

(* At most one thread at any time, the one of the job launched last.       *)
THEOREM OneJob == Spec => []OneJobAtATime
<1>1. IInv => OneJobAtATime
  BY DEF IInv, Core, ThreadInv, OneThread, StatusMatches, OneJobAtATime
<1> QED BY <1>1, Inductive, PTL

(* Whoever sees a final status finds the result of that same job.          *)
THEOREM FinalIsPublished == Spec => []FinalMeansPublished
<1>1. IInv => FinalMeansPublished
  <2> SUFFICES ASSUME IInv, ~misjoined, status \in Final
               PROVE  /\ launched \in Runs /\ resultOf = launched
                      /\ result = outcome[launched]
                      /\ status = "interrupted" <=> result = Interrupted
    BY DEF FinalMeansPublished
  <2>1. launched \in Runs
    BY DEF IInv, Core, ThreadInv, StatusMatches
  <2> QED BY <2>1 DEF IInv, Core, DataInv, Published
<1> QED BY <1>1, Inductive, PTL

(* A granted stop is still pending while its job's callback runs.          *)
THEOREM StopIsKept == Spec => []GrantedStopIsKept
<1>1. IInv => GrantedStopIsKept
  BY DEF IInv, Core, DataInv, StopsKept, GrantedStopIsKept
<1> QED BY <1>1, Inductive, PTL

(* A join that resets the status has waited for the job it saw.            *)
THEOREM JoinWaits == Spec => []JoinWaitsForJob
<1>1. IInv => JoinWaitsForJob
  BY DEF IInv, Core, ThreadInv, JoinerFollows, JoinWaitsForJob
<1> QED BY <1>1, Inductive, PTL

(* Every job that gets a thread runs its callback.                         *)
THEOREM JobsRun == Spec => []JobsAreNotSkipped
<1>1. IInv => JobsAreNotSkipped
  BY DEF IInv, Core, DataInv, Published, JobsAreNotSkipped
<1> QED BY <1>1, Inductive, PTL

(* A waiter in tryjoin is never left without a broadcast to come, unless    *)
(* the creation of the thread failed.                                       *)
THEOREM WakeupsArrive == Spec => []NoLostWakeup
<1>1. IInv => NoLostWakeup
  BY DEF IInv, Core, DataInv, WaitersWoken, NoLostWakeup
<1> QED BY <1>1, Inductive, PTL

(* get_result returns the result of the job whose completion it saw, or of  *)
(* a later one when that job has been joined in between.                    *)
THEOREM ResultIsFresh == Spec => []FreshResult
<1>1. IInv => FreshResult
  BY DEF IInv, Core, DataInv, ReadersFresh, FreshResult
<1> QED BY <1>1, Inductive, PTL

-----------------------------------------------------------------------------
(* Refinement: the runner implements JobLifecycle.                         *)

LStep == [Lifecycle!Next]_Lifecycle!vars

(* What the lifecycle sees of a step that misjoins nothing.                *)
Quiet == /\ UNCHANGED <<status, launched>>
         /\ status \in Final => UNCHANGED result
         /\ \A r \in Runs : wpc'[r] = "none" <=> wpc[r] = "none"

LEMMA QuietStutters ==
    ASSUME ~misjoined, ~misjoined', Quiet PROVE LStep
<1>1. {r \in Runs : wpc'[r] # "none"} = {r \in Runs : wpc[r] # "none"}
  BY DEF Quiet
<1> QED BY <1>1 DEF Quiet, LStep, Lifecycle!vars

LEMMA LifecycleStep ==
    ASSUME TypeOK, Core, [Next]_vars, ~misjoined, ~misjoined' PROVE LStep
<1>1. CASE UNCHANGED vars
  BY <1>1, QuietStutters DEF vars, Quiet
<1>2. ASSUME NEW u \in Callers, f_runner_initialize(u) PROVE LStep
  <2>1. {r \in Runs : wpc'[r] # "none"} = {r \in Runs : wpc[r] # "none"}
    BY <1>2 DEF f_runner_initialize
  <2>2. Lifecycle!Create BY <1>2, <2>1 DEF f_runner_initialize, Lifecycle!Create
  <2> QED BY <2>2 DEF LStep, Lifecycle!Next
<1>3. ASSUME NEW u \in Callers, f_runner_run(u) PROVE LStep
  <2>1. CASE CallRun(u) BY <2>1, QuietStutters DEF CallRun, Quiet
  <2>2. CASE RunClaim(u)
    <3>1. ticket[u] \in Runs /\ wpc[ticket[u]] = "none"
      BY <2>2, ClaimIsFresh
    <3>2. {r \in Runs : wpc'[r] # "none"} = {r \in Runs : wpc[r] # "none"} \cup {ticket[u]}
      BY <2>2, <3>1 DEF RunClaim
    <3>3. PICK j \in Runs : j = ticket[u] BY <3>1
    <3>4. Lifecycle!Launch(j)
      BY <2>2, <3>1, <3>2, <3>3 DEF RunClaim, Lifecycle!Launch
    <3>5. Lifecycle!Next BY <3>4 DEF Lifecycle!Next
    <3> QED BY <3>5 DEF LStep
  <2>3. CASE RunRefuse(u) BY <2>3, QuietStutters DEF RunRefuse, Quiet
  <2>4. CASE RunReset(u) BY <2>4, QuietStutters DEF RunReset, Quiet
  <2>5. CASE RunCreate(u)
    <3>1. ticket[u] = launched /\ wpc[launched] = "claimed"
      BY <2>5 DEF RunCreate, Core, CallerInv, ClaimsHold
    <3> QED BY <2>5, <3>1, QuietStutters DEF RunCreate, Quiet
  <2>6. CASE RunCreateFails(u)
    <3>1. ticket[u] = launched /\ wpc[launched] = "claimed"
      BY <2>6 DEF RunCreateFails, Core, CallerInv, ClaimsHold
    <3> QED BY <2>6, <3>1, QuietStutters DEF RunCreateFails, Quiet
  <2>7. CASE RunUndo(u)
    <3>1. status = "launching" BY <2>7, ClaimerIsAlone DEF RunUndo
    <3>2. {q \in Runs : wpc'[q] # "none"} = {q \in Runs : wpc[q] # "none"}
      BY <2>7 DEF RunUndo
    <3>3. Lifecycle!GiveUp BY <2>7, <3>1, <3>2 DEF RunUndo, Lifecycle!GiveUp
    <3> QED BY <3>3 DEF LStep, Lifecycle!Next
  <2> QED BY <1>3, <2>1, <2>2, <2>3, <2>4, <2>5, <2>6, <2>7 DEF f_runner_run
<1>4. ASSUME NEW u \in Callers, f_runner_join(u) PROVE LStep
  <2>1. CASE CallJoin(u) BY <2>1, QuietStutters DEF CallJoin, Quiet
  <2>2. CASE JoinLock(u) BY <2>2, QuietStutters DEF JoinLock, Quiet
  <2>3. CASE JoinCheck(u) BY <2>3, QuietStutters DEF JoinCheck, Quiet
  <2>4. CASE JoinCall(u) BY <2>4, QuietStutters DEF JoinCall, Quiet
  <2>5. CASE MisJoin(u) BY <2>5 DEF MisJoin
  <2>6. CASE JoinWait(u)
    <3>1. \A r \in Runs : wpc'[r] = "none" <=> wpc[r] = "none"
      BY <2>6 DEF JoinWait
    <3> QED BY <2>6, <3>1, QuietStutters DEF JoinWait, Quiet
  <2>7. CASE JoinReset(u)
    <3>1. status \in Final BY <2>7 DEF JoinReset, Core, ThreadInv, JoinerFollows
    <3>2. {q \in Runs : wpc'[q] # "none"} = {q \in Runs : wpc[q] # "none"}
      BY <2>7 DEF JoinReset
    <3>3. Lifecycle!Collect BY <2>7, <3>1, <3>2 DEF JoinReset, Lifecycle!Collect
    <3> QED BY <3>3 DEF LStep, Lifecycle!Next
  <2>8. CASE JoinUnlock(u) BY <2>8, QuietStutters DEF JoinUnlock, Quiet
  <2> QED BY <1>4, <2>1, <2>2, <2>3, <2>4, <2>5, <2>6, <2>7, <2>8 DEF f_runner_join
<1>5. ASSUME NEW u \in Callers, f_runner_tryjoin(u) PROVE LStep
  <2>1. CASE CallTryjoin(u) BY <2>1, QuietStutters DEF CallTryjoin, Quiet
  <2>2. CASE TryCheck(u) BY <2>2, QuietStutters DEF TryCheck, Quiet
  <2>3. CASE TryWakeup(u) BY <2>3, QuietStutters DEF TryWakeup, Quiet
  <2>4. CASE TryTimeout(u) BY <2>4, QuietStutters DEF TryTimeout, Quiet
  <2> QED BY <1>5, <2>1, <2>2, <2>3, <2>4 DEF f_runner_tryjoin
<1>6. ASSUME NEW u \in Callers, f_runner_stop(u) PROVE LStep
  <2>1. CASE CallStop(u) BY <2>1, QuietStutters DEF CallStop, Quiet
  <2>2. CASE StopSet(u) BY <2>2, QuietStutters DEF StopSet, Quiet
  <2>3. CASE StopDone(u) BY <2>3, QuietStutters DEF StopDone, Quiet
  <2> QED BY <1>6, <2>1, <2>2, <2>3 DEF f_runner_stop
<1>7. ASSUME NEW u \in Callers, f_runner_get_result(u) PROVE LStep
  <2>1. CASE CallGet(u) BY <2>1, QuietStutters DEF CallGet, Quiet
  <2>2. CASE GetRead(u) BY <2>2, QuietStutters DEF GetRead, Quiet
  <2> QED BY <1>7, <2>1, <2>2 DEF f_runner_get_result
<1>8. ASSUME NEW u \in Callers, f_runner_free(u) PROVE LStep
  <2>1. ASSUME NEW force \in BOOLEAN, CallFree(u, force) PROVE LStep
    BY <2>1, QuietStutters DEF CallFree, Quiet
  <2>2. CASE FreeStop(u) BY <2>2, QuietStutters DEF FreeStop, Quiet
  <2>3. CASE FreeUndefine(u)
    <3>1. status = "idle" BY <2>3, FreeIsLast
    <3>2. {q \in Runs : wpc'[q] # "none"} = {q \in Runs : wpc[q] # "none"}
      BY <2>3 DEF FreeUndefine
    <3>3. Lifecycle!Destroy BY <2>3, <3>1, <3>2 DEF FreeUndefine, Lifecycle!Destroy
    <3> QED BY <3>3 DEF LStep, Lifecycle!Next
  <2> QED BY <1>8, <2>1, <2>2, <2>3 DEF f_runner_free
<1>9. ASSUME NEW r \in Runs, p_runner_run_callback(r) PROVE LStep
  <2>1. CASE WorkerStart(r) BY <2>1, QuietStutters DEF WorkerStart, Quiet
  <2>2. CASE WorkerBegin(r)
    <3>1. status = "launching" BY <2>2 DEF WorkerBegin, Core, ThreadInv, OneThread, StatusMatches
    <3>2. {q \in Runs : wpc'[q] # "none"} = {q \in Runs : wpc[q] # "none"}
      BY <2>2 DEF WorkerBegin
    <3>3. Lifecycle!Start BY <2>2, <3>1, <3>2 DEF WorkerBegin, Lifecycle!Start
    <3> QED BY <3>3 DEF LStep, Lifecycle!Next
  <2>3. CASE CallbackInterrupted(r) BY <2>3, QuietStutters DEF CallbackInterrupted, Quiet
  <2>4. CASE CallbackReturns(r) BY <2>4, QuietStutters DEF CallbackReturns, Quiet
  <2>5. CASE WorkerPublish(r)
    <3>1. status \notin Final
      BY <2>5 DEF WorkerPublish, Core, ThreadInv, OneThread, StatusMatches
    <3> QED BY <2>5, <3>1, QuietStutters DEF WorkerPublish, Quiet
  <2>6. CASE WorkerFinalise(r)
    <3>1. wpc[r] = "finalise" BY <2>6 DEF WorkerFinalise
    <3>2. r = launched /\ status = "running" /\ result = outcome[r] /\ outcome[r] # "none"
      BY <3>1, FinisherIsLaunched
    <3>3. {q \in Runs : wpc'[q] # "none"} = {q \in Runs : wpc[q] # "none"}
      BY <2>6 DEF WorkerFinalise
    <3>4. Lifecycle!Finish(outcome[r])
      BY <2>6, <3>2, <3>3 DEF WorkerFinalise, Lifecycle!Finish
    <3>5. outcome[r] \in Outcomes BY <3>2
    <3> QED BY <3>4, <3>5 DEF LStep, Lifecycle!Next
  <2>7. CASE WorkerBroadcast(r) BY <2>7, QuietStutters DEF WorkerBroadcast, Quiet
  <2> QED BY <1>9, <2>1, <2>2, <2>3, <2>4, <2>5, <2>6, <2>7 DEF p_runner_run_callback
<1> QED
  BY <1>1, <1>2, <1>3, <1>4, <1>5, <1>6, <1>7, <1>8, <1>9 DEF Next, Caller

(* The runner implements the one-slot lifecycle: every step is a step of it  *)
(* or invisible to it, until a caller has a thread joined that cannot be.    *)
THEOREM Refinement == Spec => KeepsLifecycle
<1>1. Init => Lifecycle!Init
  <2> SUFFICES ASSUME Init PROVE Lifecycle!Init
    OBVIOUS
  <2>1. {r \in Runs : wpc[r] # "none"} = {} BY DEF Init
  <2> QED BY <2>1 DEF Init, Lifecycle!Init
<1>2. IInv /\ [Next]_vars => [Lifecycle!Next]_Lifecycle!vars
  <2> SUFFICES ASSUME IInv, [Next]_vars PROVE LStep
    BY DEF LStep
  <2>1. CASE misjoined'
    BY <2>1 DEF LStep, Lifecycle!Next, Lifecycle!Chaos
  <2>2. CASE ~misjoined'
    BY <2>2, LifecycleStep, MisjoinedStays DEF IInv
  <2> QED BY <2>1, <2>2
<1> QED BY <1>1, <1>2, Inductive, PTL DEF Spec, KeepsLifecycle, Lifecycle!Spec

-----------------------------------------------------------------------------
(* With a single owner pthread_join is never misused.                   *)

(* The joiner of a single owner finds a thread to join: nobody can be       *)
(* between taking the runner and creating its thread.                       *)
LEMMA SoleJoinCheck ==
    ASSUME SoleOwner, SoleInv, NEW u \in Callers, JoinCheck(u),
           status \in Active \cup Final
    PROVE  Joinable(launched)
<1> USE DEF SoleInv, Core
<1>1. pc[u] = "join_check" /\ u \in Owners /\ join_lock = u
  BY DEF JoinCheck, CallerInv, CallsMatch, ThreadInv, JoinLockHeld
<1>2. launched \in Runs
  BY DEF ThreadInv, StatusMatches
<1>3. ASSUME status = "launching", wpc[launched] \in {"claimed", "failed"}
      PROVE FALSE
  <2>1. PICK v \in Callers : Claiming(v)
    BY <1>2, <1>3 DEF SoleJoiner
  <2>2. v \in Owners
    BY <2>1 DEF CallerInv, CallsMatch
  <2> QED BY <1>1, <2>1, <2>2 DEF SoleOwner
<1>4. ASSUME status \in Final, wpc[launched] = "joined" PROVE FALSE
  BY <1>1, <1>2, <1>4 DEF ThreadInv, CollectedByJoiner
<1> QED BY <1>2, <1>3, <1>4 DEF ThreadInv, StatusMatches

LEMMA SoleMisjoinsNot ==
    ASSUME SoleInv, [Next]_vars PROVE ~misjoined'
<1> USE DEF SoleInv
<1>1. ASSUME NEW u \in Callers, MisJoin(u) PROVE FALSE
  BY <1>1 DEF MisJoin, SoleJoiner, Core, ThreadInv, OneThread
<1>2. CASE UNCHANGED vars BY <1>2 DEF vars
<1>3. ASSUME NEW u \in Callers, Caller(u) PROVE ~misjoined'
  <2>1. CASE f_runner_initialize(u) BY <2>1 DEF f_runner_initialize
  <2>2. CASE f_runner_run(u)
    BY <1>1, <2>2 DEF f_runner_run, CallRun, RunClaim, RunRefuse, RunReset, RunCreate, RunCreateFails, RunUndo
  <2>3. CASE f_runner_join(u)
    BY <1>1, <2>3 DEF f_runner_join, CallJoin, JoinLock, JoinCheck, JoinCall, JoinWait, JoinReset, JoinUnlock
  <2>4. CASE f_runner_tryjoin(u)
    BY <1>1, <2>4 DEF f_runner_tryjoin, CallTryjoin, TryCheck, TryWakeup, TryTimeout
  <2>5. CASE f_runner_stop(u)
    BY <1>1, <2>5 DEF f_runner_stop, CallStop, StopSet, StopDone
  <2>6. CASE f_runner_get_result(u)
    BY <1>1, <2>6 DEF f_runner_get_result, CallGet, GetRead
  <2>7. CASE f_runner_free(u)
    BY <1>1, <2>7 DEF f_runner_free, CallFree, FreeStop, FreeUndefine
  <2> QED BY <1>3, <2>1, <2>2, <2>3, <2>4, <2>5, <2>6, <2>7 DEF Caller
<1>4. ASSUME NEW r \in Runs, p_runner_run_callback(r) PROVE ~misjoined'
  BY <1>4 DEF p_runner_run_callback, WorkerStart, WorkerBegin, CallbackInterrupted,
              CallbackReturns, WorkerPublish, WorkerFinalise, WorkerBroadcast
<1> QED BY <1>2, <1>3, <1>4 DEF Next

(* Starting a call disturbs neither the claimer nor the joiner.             *)
LEMMA SoleEnter ==
    ASSUME SoleInv, NEW u \in Callers, NEW o, NEW p, Enter(u, o, p), p # "join_call",
           UNCHANGED <<status, launched, wpc>>
    PROVE  SoleJoiner'
<1> USE DEF SoleInv
<1>1. pc[u] = "out" BY NoCallMeansOut
<1>2. pc' = [pc EXCEPT ![u] = p] OBVIOUS
<1>3. \A v \in Callers : Claiming(v) => Claiming(v)' BY <1>1, <1>2
<1>4. \A v \in Callers : pc'[v] = "join_call" => pc[v] = "join_call" BY <1>2
<1> QED BY <1>3, <1>4 DEF SoleJoiner

LEMMA SoleJoinerStep ==
    ASSUME SoleOwner, SoleInv, [Next]_vars PROVE SoleJoiner'
<1> USE DEF SoleInv, SoleJoiner
<1>1. CASE UNCHANGED vars BY <1>1 DEF vars
<1>2. ASSUME NEW u \in Callers, f_runner_initialize(u) PROVE SoleJoiner'
  BY <1>2 DEF f_runner_initialize
<1>3. ASSUME NEW u \in Callers, f_runner_run(u) PROVE SoleJoiner'
  <2>1. CASE CallRun(u) BY <2>1, SoleEnter DEF CallRun
  <2>2. CASE RunClaim(u)
    <3>1. Claiming(u)' BY <2>2 DEF RunClaim
    <3>2. \A v \in Callers : pc[v] # "join_call"
      BY <2>2, ClaimIsFresh DEF RunClaim, Core, ThreadInv, StatusMatches
    <3> QED BY <2>2, <3>1, <3>2 DEF RunClaim
  <2>3. CASE RunRefuse(u)
    BY <2>3, SMTT(20) DEF RunRefuse, Core, CallerInv, ClaimsHold, ThreadInv, OneThread, StatusMatches, JoinLockHeld, JoinerFollows
  <2>4. CASE RunReset(u)
    BY <2>4, SMTT(20) DEF RunReset, Core, CallerInv, ClaimsHold, ThreadInv, OneThread, StatusMatches, JoinLockHeld, JoinerFollows
  <2>5. CASE RunCreate(u)
    BY <2>5, SMTT(20) DEF RunCreate, Core, CallerInv, ClaimsHold, ThreadInv, OneThread, StatusMatches, JoinLockHeld, JoinerFollows
  <2>6. CASE RunCreateFails(u)
    BY <2>6, SMTT(20) DEF RunCreateFails, Core, CallerInv, ClaimsHold, ThreadInv, OneThread, StatusMatches, JoinLockHeld, JoinerFollows
  <2>7. CASE RunUndo(u)
    BY <2>7, SMTT(20) DEF RunUndo, Core, CallerInv, ClaimsHold, ThreadInv, OneThread, StatusMatches, JoinLockHeld, JoinerFollows
  <2> QED BY <1>3, <2>1, <2>2, <2>3, <2>4, <2>5, <2>6, <2>7 DEF f_runner_run
<1>4. ASSUME NEW u \in Callers, f_runner_join(u) PROVE SoleJoiner'
  <2>1. CASE CallJoin(u) BY <2>1, SoleEnter DEF CallJoin
  <2>2. CASE JoinLock(u)
    BY <2>2, SMTT(20) DEF JoinLock, Core, CallerInv, ClaimsHold, ThreadInv, OneThread, StatusMatches, JoinLockHeld, JoinerFollows
  <2>3. CASE JoinCheck(u)
    <3>1. \A v \in Callers : Claiming(v) => Claiming(v)' BY <2>3 DEF JoinCheck
    <3>2. \A v \in Callers : pc'[v] = "join_call" => pc[v] = "join_call" \/ Joinable(launched)
      BY <2>3, SoleJoinCheck DEF JoinCheck
    <3>3. UNCHANGED <<status, launched, wpc>> BY <2>3 DEF JoinCheck
    <3> QED BY <3>1, <3>2, <3>3
  <2>4. CASE JoinCall(u)
    BY <2>4, SMTT(20) DEF JoinCall, Core, CallerInv, ClaimsHold, ThreadInv, OneThread, StatusMatches, JoinLockHeld, JoinerFollows
  <2>5. CASE MisJoin(u)
    BY <2>5, SMTT(20) DEF MisJoin, Core, CallerInv, ClaimsHold, ThreadInv, OneThread, StatusMatches, JoinLockHeld, JoinerFollows
  <2>6. CASE JoinWait(u)
    BY <2>6, SMTT(20) DEF JoinWait, Core, CallerInv, ClaimsHold, ThreadInv, OneThread, StatusMatches, JoinLockHeld, JoinerFollows
  <2>7. CASE JoinReset(u)
    BY <2>7, SMTT(20) DEF JoinReset, Core, CallerInv, ClaimsHold, ThreadInv, OneThread, StatusMatches, JoinLockHeld, JoinerFollows
  <2>8. CASE JoinUnlock(u)
    BY <2>8, SMTT(20) DEF JoinUnlock, Core, CallerInv, ClaimsHold, ThreadInv, OneThread, StatusMatches, JoinLockHeld, JoinerFollows
  <2> QED BY <1>4, <2>1, <2>2, <2>3, <2>4, <2>5, <2>6, <2>7, <2>8 DEF f_runner_join
<1>5. ASSUME NEW u \in Callers, f_runner_tryjoin(u) PROVE SoleJoiner'
  <2>1. CASE CallTryjoin(u) BY <2>1, SoleEnter DEF CallTryjoin
  <2>2. CASE TryCheck(u)
    BY <2>2, SMTT(20) DEF TryCheck, Core, CallerInv, ClaimsHold, ThreadInv, OneThread, StatusMatches, JoinLockHeld, JoinerFollows
  <2>3. CASE TryWakeup(u)
    BY <2>3, SMTT(20) DEF TryWakeup, Core, CallerInv, ClaimsHold, ThreadInv, OneThread, StatusMatches, JoinLockHeld, JoinerFollows
  <2>4. CASE TryTimeout(u)
    BY <2>4, SMTT(20) DEF TryTimeout, Core, CallerInv, ClaimsHold, ThreadInv, OneThread, StatusMatches, JoinLockHeld, JoinerFollows
  <2> QED BY <1>5, <2>1, <2>2, <2>3, <2>4 DEF f_runner_tryjoin
<1>6. ASSUME NEW u \in Callers, f_runner_stop(u) PROVE SoleJoiner'
  <2>1. CASE CallStop(u) BY <2>1, SoleEnter DEF CallStop
  <2>2. CASE StopSet(u)
    BY <2>2, SMTT(20) DEF StopSet, Core, CallerInv, ClaimsHold, ThreadInv, OneThread, StatusMatches, JoinLockHeld, JoinerFollows
  <2>3. CASE StopDone(u)
    BY <2>3, SMTT(20) DEF StopDone, Core, CallerInv, ClaimsHold, ThreadInv, OneThread, StatusMatches, JoinLockHeld, JoinerFollows
  <2> QED BY <1>6, <2>1, <2>2, <2>3 DEF f_runner_stop
<1>7. ASSUME NEW u \in Callers, f_runner_get_result(u) PROVE SoleJoiner'
  <2>1. CASE CallGet(u) BY <2>1, SoleEnter DEF CallGet
  <2>2. CASE GetRead(u)
    BY <2>2, SMTT(20) DEF GetRead, Core, CallerInv, ClaimsHold, ThreadInv, OneThread, StatusMatches, JoinLockHeld, JoinerFollows
  <2> QED BY <1>7, <2>1, <2>2 DEF f_runner_get_result
<1>8. ASSUME NEW u \in Callers, f_runner_free(u) PROVE SoleJoiner'
  <2>1. ASSUME NEW force \in BOOLEAN, CallFree(u, force) PROVE SoleJoiner'
    BY <2>1, SoleEnter DEF CallFree
  <2>2. CASE FreeStop(u)
    BY <2>2, SMTT(20) DEF FreeStop, Core, CallerInv, ClaimsHold, ThreadInv, OneThread, StatusMatches, JoinLockHeld, JoinerFollows
  <2>3. CASE FreeUndefine(u)
    BY <2>3, SMTT(20) DEF FreeUndefine, Core, CallerInv, ClaimsHold, ThreadInv, OneThread, StatusMatches, JoinLockHeld, JoinerFollows
  <2> QED BY <1>8, <2>1, <2>2, <2>3 DEF f_runner_free
<1>9. ASSUME NEW r \in Runs, p_runner_run_callback(r) PROVE SoleJoiner'
  <2>1. CASE WorkerStart(r)
    BY <2>1, SMTT(20) DEF WorkerStart, Core, CallerInv, ClaimsHold, ThreadInv, OneThread, StatusMatches, JoinLockHeld, JoinerFollows
  <2>2. CASE WorkerBegin(r)
    BY <2>2, SMTT(20) DEF WorkerBegin, Core, CallerInv, ClaimsHold, ThreadInv, OneThread, StatusMatches, JoinLockHeld, JoinerFollows
  <2>3. CASE CallbackInterrupted(r)
    BY <2>3, SMTT(20) DEF CallbackInterrupted, Core, CallerInv, CallsMatch
  <2>4. CASE CallbackReturns(r)
    BY <2>4, SMTT(20) DEF CallbackReturns, Core, CallerInv, CallsMatch
  <2>5. CASE WorkerPublish(r)
    BY <2>5, SMTT(20) DEF WorkerPublish, Core, CallerInv, ClaimsHold, ThreadInv, OneThread, StatusMatches, JoinLockHeld, JoinerFollows
  <2>6. CASE WorkerFinalise(r)
    BY <2>6, SMTT(20) DEF WorkerFinalise, Core, CallerInv, ClaimsHold, ThreadInv, OneThread, StatusMatches, JoinLockHeld, JoinerFollows
  <2>7. CASE WorkerBroadcast(r)
    BY <2>7, SMTT(20) DEF WorkerBroadcast, Core, CallerInv, ClaimsHold, ThreadInv, OneThread, StatusMatches, JoinLockHeld, JoinerFollows
  <2> QED BY <1>9, <2>1, <2>2, <2>3, <2>4, <2>5, <2>6, <2>7 DEF p_runner_run_callback
<1> QED
  BY <1>1, <1>2, <1>3, <1>4, <1>5, <1>6, <1>7, <1>8, <1>9 DEF Next, Caller

(* What one owner keeps, from the first state on.                           *)
LEMMA SoleInit == Init => SoleInv
<1>1. Init => SoleJoiner /\ ~misjoined BY DEF Init, SoleJoiner
<1> QED BY <1>1, TypeInit, CoreInit DEF SoleInv

LEMMA SoleStep ==
    ASSUME SoleOwner PROVE SoleInv /\ [Next]_vars => SoleInv'
BY TypeStep, CoreStep, SoleMisjoinsNot, SoleJoinerStep DEF SoleInv

(* When one thread owns the runner, and the others only stop it and read its *)
(* result, no pthread_join is ever given a handle that cannot be joined.     *)
THEOREM SoleOwnerIsSafe ==
    ASSUME SoleOwner PROVE Spec => []NeverMisjoins
<1>1. SoleInv => NeverMisjoins
  BY DEF SoleInv, NeverMisjoins
<1> QED BY <1>1, SoleInit, SoleStep, PTL DEF Spec

-----------------------------------------------------------------------------
(* With a single owner f_runner_tryjoin is bounded after all.              *)

(* The status a tryjoin passed on stays, when nobody goes past try_check    *)
(* and nothing is launched.                                                 *)
LEMMA PassingStays ==
    ASSUME TryjoinPasses, status' = status \/ status' \notin Active,
           \A u \in Callers : Passing(u)' => Passing(u)
    PROVE  TryjoinPasses'
BY DEF TryjoinPasses

(* A call that starts is not yet past anything.                             *)
LEMMA PassingEntered ==
    ASSUME SoleInv, TryjoinPasses, NEW u \in Callers, NEW o, NEW p, Enter(u, o, p),
           o = "tryjoin" => p = "try_check", status' = status
    PROVE  TryjoinPasses'
<1>1. \A v \in Callers : Passing(v)' => Passing(v) BY DEF SoleInv, Passing
<1> QED BY <1>1, PassingStays

LEMMA TryjoinPassesStep ==
    ASSUME SoleOwner, SoleInv, TryjoinPasses, [Next]_vars PROVE TryjoinPasses'
<1> USE DEF SoleInv
<1>1. CASE UNCHANGED vars BY <1>1 DEF vars, TryjoinPasses, Passing
<1>2. ASSUME NEW u \in Callers, f_runner_initialize(u) PROVE TryjoinPasses'
  BY <1>2, PassingStays DEF f_runner_initialize, Passing
<1>3. ASSUME NEW u \in Callers, f_runner_run(u) PROVE TryjoinPasses'
  <2>1. CASE CallRun(u) BY <2>1, PassingEntered DEF CallRun
  <2>2. CASE RunClaim(u)
    <3>1. op[u] = "run" /\ u \in Owners
      BY <2>2, ClaimIsFresh DEF Core, CallerInv, CallsMatch
    <3>2. ASSUME NEW v \in Callers, Passing(v)' PROVE FALSE
      <4>1. Passing(v) BY <2>2, <3>2 DEF RunClaim, Passing
      <4>2. v \in Owners BY <4>1 DEF Passing, Core, CallerInv, CallsMatch
      <4>3. op[v] = "tryjoin" BY <4>1 DEF Passing
      <4> QED BY <3>1, <4>2, <4>3 DEF SoleOwner
    <3> QED BY <3>2 DEF TryjoinPasses
  <2>3. CASE RunRefuse(u)
    BY <2>3, PassingStays DEF RunRefuse, Passing, Core, CallerInv, CallsMatch
  <2>4. CASE RunReset(u)
    BY <2>4, PassingStays DEF RunReset, Passing, Core, CallerInv, CallsMatch
  <2>5. CASE RunCreate(u)
    BY <2>5, PassingStays DEF RunCreate, Passing, Core, CallerInv, CallsMatch
  <2>6. CASE RunCreateFails(u)
    BY <2>6, PassingStays DEF RunCreateFails, Passing, Core, CallerInv, CallsMatch
  <2>7. CASE RunUndo(u)
    BY <2>7, PassingStays DEF RunUndo, Passing, Core, CallerInv, CallsMatch
  <2> QED BY <1>3, <2>1, <2>2, <2>3, <2>4, <2>5, <2>6, <2>7 DEF f_runner_run
<1>4. ASSUME NEW u \in Callers, f_runner_join(u) PROVE TryjoinPasses'
  <2>1. CASE CallJoin(u) BY <2>1, PassingEntered DEF CallJoin
  <2>2. CASE JoinLock(u)
    BY <2>2, PassingStays DEF JoinLock, Passing, Core, CallerInv, CallsMatch
  <2>3. CASE JoinCheck(u)
    BY <2>3, PassingStays DEF JoinCheck, Passing, Core, CallerInv, CallsMatch
  <2>4. CASE JoinCall(u)
    BY <2>4, PassingStays DEF JoinCall, Passing, Core, CallerInv, CallsMatch
  <2>5. CASE MisJoin(u)
    BY <2>5, PassingStays DEF MisJoin, Passing, Core, CallerInv, CallsMatch
  <2>6. CASE JoinWait(u)
    BY <2>6, PassingStays DEF JoinWait, Passing, Core, CallerInv, CallsMatch
  <2>7. CASE JoinReset(u)
    BY <2>7, PassingStays DEF JoinReset, Passing, Core, CallerInv, CallsMatch
  <2>8. CASE JoinUnlock(u)
    BY <2>8, PassingStays DEF JoinUnlock, Passing, Core, CallerInv, CallsMatch
  <2> QED BY <1>4, <2>1, <2>2, <2>3, <2>4, <2>5, <2>6, <2>7, <2>8 DEF f_runner_join
<1>5. ASSUME NEW u \in Callers, f_runner_tryjoin(u) PROVE TryjoinPasses'
  <2>1. CASE CallTryjoin(u) BY <2>1, PassingEntered DEF CallTryjoin
  <2>2. CASE TryCheck(u)
    <3>1. status \in Active => \A v \in Callers : Passing(v)' => Passing(v)
      BY <2>2 DEF TryCheck, Passing
    <3>2. status' = status BY <2>2 DEF TryCheck
    <3> QED BY <3>1, <3>2, PassingStays DEF TryjoinPasses
  <2>3. CASE TryWakeup(u)
    BY <2>3, PassingStays DEF TryWakeup, Passing, Core, CallerInv, CallsMatch
  <2>4. CASE TryTimeout(u)
    BY <2>4, PassingStays DEF TryTimeout, Passing, Core, CallerInv, CallsMatch
  <2> QED BY <1>5, <2>1, <2>2, <2>3, <2>4 DEF f_runner_tryjoin
<1>6. ASSUME NEW u \in Callers, f_runner_stop(u) PROVE TryjoinPasses'
  <2>1. CASE CallStop(u) BY <2>1, PassingEntered DEF CallStop
  <2>2. CASE StopSet(u)
    BY <2>2, PassingStays DEF StopSet, Passing, Core, CallerInv, CallsMatch
  <2>3. CASE StopDone(u)
    BY <2>3, PassingStays DEF StopDone, Passing, Core, CallerInv, CallsMatch
  <2> QED BY <1>6, <2>1, <2>2, <2>3 DEF f_runner_stop
<1>7. ASSUME NEW u \in Callers, f_runner_get_result(u) PROVE TryjoinPasses'
  <2>1. CASE CallGet(u) BY <2>1, PassingEntered DEF CallGet
  <2>2. CASE GetRead(u)
    BY <2>2, PassingStays DEF GetRead, Passing, Core, CallerInv, CallsMatch
  <2> QED BY <1>7, <2>1, <2>2 DEF f_runner_get_result
<1>8. ASSUME NEW u \in Callers, f_runner_free(u) PROVE TryjoinPasses'
  <2>1. ASSUME NEW force \in BOOLEAN, CallFree(u, force) PROVE TryjoinPasses'
    BY <2>1, PassingEntered DEF CallFree
  <2>2. CASE FreeStop(u)
    BY <2>2, PassingStays DEF FreeStop, Passing, Core, CallerInv, CallsMatch
  <2>3. CASE FreeUndefine(u)
    BY <2>3, PassingStays DEF FreeUndefine, Passing, Core, CallerInv, CallsMatch
  <2> QED BY <1>8, <2>1, <2>2, <2>3 DEF f_runner_free
<1>9. ASSUME NEW r \in Runs, p_runner_run_callback(r) PROVE TryjoinPasses'
  <2>1. CASE WorkerStart(r)
    BY <2>1, PassingStays DEF WorkerStart, Passing, Core, CallerInv, CallsMatch
  <2>2. CASE WorkerBegin(r)
    <3>1. status = "launching"
      BY <2>2 DEF WorkerBegin, Core, ThreadInv, OneThread, StatusMatches
    <3>2. \A v \in Callers : ~Passing(v) BY <3>1 DEF TryjoinPasses
    <3> QED BY <2>2, <3>2 DEF WorkerBegin, TryjoinPasses, Passing
  <2>3. CASE CallbackInterrupted(r)
    BY <2>3, PassingStays DEF CallbackInterrupted, Passing, Core, CallerInv, CallsMatch
  <2>4. CASE CallbackReturns(r)
    BY <2>4, PassingStays DEF CallbackReturns, Passing, Core, CallerInv, CallsMatch
  <2>5. CASE WorkerPublish(r)
    BY <2>5, PassingStays DEF WorkerPublish, Passing, Core, CallerInv, CallsMatch
  <2>6. CASE WorkerFinalise(r)
    BY <2>6, PassingStays DEF WorkerFinalise, Passing, Core, CallerInv, CallsMatch
  <2>7. CASE WorkerBroadcast(r)
    BY <2>7, PassingStays DEF WorkerBroadcast, Passing, Core, CallerInv, CallsMatch
  <2> QED BY <1>9, <2>1, <2>2, <2>3, <2>4, <2>5, <2>6, <2>7 DEF p_runner_run_callback
<1> QED
  BY <1>1, <1>2, <1>3, <1>4, <1>5, <1>6, <1>7, <1>8, <1>9 DEF Next, Caller

(* The thread a tryjoin waits for without a deadline is over: its status    *)
(* was final when the tryjoin passed, and no job was launched since.        *)
LEMMA PassingIsBounded ==
    ASSUME SoleInv, TryjoinPasses PROVE TryjoinIsBounded
<1> SUFFICES ASSUME NEW u \in Callers, op[u] = "tryjoin", pc[u] = "join_wait"
             PROVE  wpc[target[u]] \in {"broadcast", "exited"}
  BY DEF TryjoinIsBounded
<1>1. target[u] = launched /\ Joinable(launched)
  BY DEF SoleInv, Core, ThreadInv, JoinerFollows
<1>2. status \notin Active BY DEF TryjoinPasses, Passing
<1>3. status \in Final \/ status \in {"idle", "undefined"} BY <1>2 DEF SoleInv
<1> QED BY <1>1, <1>3 DEF SoleInv, Core, ThreadInv, StatusMatches

(* With one owner f_runner_tryjoin keeps its promise of a bounded time: when *)
(* it blocks in pthread_join, the callback has returned and only the end of  *)
(* the thread is awaited.  Two owners lose that: the other one may join and  *)
(* launch anew between the end of the wait and the join.                     *)
THEOREM SoleTryjoinIsBounded ==
    ASSUME SoleOwner PROVE Spec => []TryjoinIsBounded
<1>1. Init => SoleInv /\ TryjoinPasses
  BY SoleInit DEF Init, TryjoinPasses, Passing
<1>2. SoleInv /\ TryjoinPasses /\ [Next]_vars => (SoleInv /\ TryjoinPasses)'
  BY SoleStep, TryjoinPassesStep
<1>3. SoleInv /\ TryjoinPasses => TryjoinIsBounded
  BY PassingIsBounded
<1> QED BY <1>1, <1>2, <1>3, PTL DEF Spec

=============================================================================
