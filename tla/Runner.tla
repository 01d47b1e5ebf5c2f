------------------------------- MODULE Runner -------------------------------
(***************************************************************************)
(* s_runner (src/src/runner.c): one background job, its status, and the    *)
(* operations any number of threads may call on it at the same time.       *)
(*                                                                         *)
(* A critical section of status_lock or result_lock is a single step: each *)
(* protects one assignment or one test-and-set.  join_lock and             *)
(* interrupt_lock are variables, because join_lock stays held across       *)
(* pthread_join and because the polling macros only try interrupt_lock and *)
(* give up when it is taken.  Everything between two critical sections is  *)
(* a point where the other threads may run.                                *)
(***************************************************************************)
EXTENDS Naturals, FiniteSets

CONSTANTS
    Callers,     \* threads that call the API
    Owners,      \* callers that also initialise, run, join and free the runner
    Nobody,      \* the holder of a free lock
    JobResults,  \* what the callback returns when it was not interrupted
    MaxRuns      \* bound: calls of f_runner_run, hence jobs, in a behaviour

ASSUME OwnersAssumption == Owners \subseteq Callers /\ Nobody \notin Callers
ASSUME RunsAssumption == MaxRuns \in Nat
ASSUME ResultsAssumption ==
    /\ "NOICE" \in JobResults
    /\ JobResults \cap {"none", "SHIT_THREAD_INTERRUPTED"} = {}

VARIABLES
    status, result, interrupt_required,   \* the fields of s_runner
    internal_callback_thread,             \* 0 is the zeroed pthread_t
    interrupt_lock, join_lock,            \* who holds them
    pc, op,       \* per caller: the next step, and the API call it is in
    ticket,       \* per caller: the job its f_runner_run is to launch
    seen,         \* per caller: the job it was told about by the status it read
    target,       \* per caller: the handle it gave to pthread_join
    wpc,          \* per job: where its thread is in p_runner_run_callback
    outcome,      \* per job: the local result of p_runner_run_callback
    calls,        \* calls of f_runner_run so far
    launched,     \* the job whose f_runner_run last took the idle runner
    resultOf,     \* the job that last wrote result
    stops,        \* jobs some f_runner_stop has asked to stop, with NOICE
    misjoined     \* pthread_join was given a handle that is not joinable

fields  == <<status, result, interrupt_required, internal_callback_thread>>
locks   == <<interrupt_lock, join_lock>>
own     == <<ticket, seen, target>>
callers == <<pc, op, own>>
threads == <<wpc, outcome>>
ghosts  == <<calls, launched, resultOf, stops, misjoined>>
vars    == <<fields, locks, callers, threads, ghosts>>
shared  == <<fields, locks, threads, ghosts>>
data    == <<shared, own>>

Runs   == 1..MaxRuns
Active == {"launching", "running"}
Final  == {"completed", "interrupted"}
Interrupted == "SHIT_THREAD_INTERRUPTED"
Outcomes == JobResults \cup {Interrupted}

\* A thread exists from its creation to the pthread_join that collects it.
InFlight  == {"start", "begin", "callback", "publish", "finalise", "broadcast"}
Joinable(r) == r \in Runs /\ wpc[r] \in InFlight \cup {"exited"}
Dead(r) == wpc[r] \in {"failed", "joined"}

-----------------------------------------------------------------------------
Init ==
    /\ status = "undefined" /\ result = "NOICE" /\ interrupt_required = FALSE
    /\ internal_callback_thread = 0
    /\ interrupt_lock = Nobody /\ join_lock = Nobody
    /\ pc = [u \in Callers |-> "out"] /\ op = [u \in Callers |-> "none"]
    /\ ticket = [u \in Callers |-> 0]
    /\ seen = [u \in Callers |-> 0] /\ target = [u \in Callers |-> 0]
    /\ wpc = [r \in Runs |-> "none"] /\ outcome = [r \in Runs |-> "none"]
    /\ calls = 0 /\ launched = 0 /\ resultOf = 0
    /\ stops = {} /\ misjoined = FALSE

\* A caller starts the call o, on a runner that exists and is not being freed.
Enter(u, o, p) ==
    /\ op[u] = "none" /\ status # "undefined"
    /\ \A v \in Callers : op[v] # "free"
    /\ op' = [op EXCEPT ![u] = o] /\ pc' = [pc EXCEPT ![u] = p]

Goto(u, p) == pc' = [pc EXCEPT ![u] = p] /\ UNCHANGED op

\* The call ends, and with it its locals.
Return(u) ==
    /\ pc' = [pc EXCEPT ![u] = "out"] /\ op' = [op EXCEPT ![u] = "none"]
    /\ ticket' = [ticket EXCEPT ![u] = 0]
    /\ seen' = [seen EXCEPT ![u] = 0] /\ target' = [target EXCEPT ![u] = 0]

\* d_runner_safely_access_resource(status_lock, status, s)
SetStatus(s) ==
    status' = s /\ UNCHANGED <<result, interrupt_required,
                               internal_callback_thread, locks, ghosts>>

\* A failed f_runner_initialize leaves a runner nobody may use: it is the
\* stuttering step.
f_runner_initialize(u) ==
    /\ u \in Owners /\ status = "undefined" /\ \A v \in Callers : op[v] = "none"
    /\ status' = "idle" /\ result' = "NOICE" /\ interrupt_required' = FALSE
    /\ internal_callback_thread' = 0 /\ resultOf' = 0
    /\ UNCHANGED <<locks, callers, threads, calls, launched, stops, misjoined>>

-----------------------------------------------------------------------------
(* f_runner_run: join the previous job, take the idle runner, create.      *)

CallRun(u) ==
    /\ u \in Owners /\ calls < MaxRuns
    /\ Enter(u, "run", IF status \in Final THEN "join_lock" ELSE "run_claim")
    /\ calls' = calls + 1 /\ ticket' = [ticket EXCEPT ![u] = calls + 1]
    /\ UNCHANGED <<fields, locks, seen, target, threads,
                   launched, resultOf, stops, misjoined>>

RunClaimUnchecked(u) ==  \* mutant: takes the runner whatever its status
    /\ pc[u] = "run_claim"
    /\ status' = "launching" /\ launched' = ticket[u]
    /\ wpc' = [wpc EXCEPT ![ticket[u]] = "claimed"]
    /\ Goto(u, "run_reset")
    /\ UNCHANGED <<result, interrupt_required, internal_callback_thread, locks,
                   own, outcome, calls, resultOf, stops, misjoined>>

RunClaim(u) ==
    /\ pc[u] = "run_claim" /\ status = "idle"
    /\ status' = "launching" /\ launched' = ticket[u]
    /\ wpc' = [wpc EXCEPT ![ticket[u]] = "claimed"]
    /\ Goto(u, "run_reset")
    /\ UNCHANGED <<result, interrupt_required, internal_callback_thread, locks,
                   own, outcome, calls, resultOf, stops, misjoined>>

RunRefuse(u) ==  \* SHIT_ALREADY_INITIALIZED
    /\ pc[u] = "run_claim" /\ status # "idle"
    /\ Return(u) /\ UNCHANGED shared

RunReset(u) ==
    /\ pc[u] = "run_reset" /\ interrupt_lock = Nobody
    /\ interrupt_required' = FALSE
    /\ Goto(u, "run_create")
    /\ UNCHANGED <<status, result, internal_callback_thread, locks,
                   own, threads, ghosts>>

RunCreate(u) ==
    /\ pc[u] = "run_create"
    /\ internal_callback_thread' = ticket[u]
    /\ wpc' = [wpc EXCEPT ![ticket[u]] = "start"]
    /\ Return(u)
    /\ UNCHANGED <<status, result, interrupt_required, locks, outcome, ghosts>>

RunCreateFailsSilently(u) ==  \* mutant: the status is not put back to idle
    /\ pc[u] = "run_create"
    /\ wpc' = [wpc EXCEPT ![ticket[u]] = "failed"]
    /\ Return(u)
    /\ UNCHANGED <<fields, locks, outcome, ghosts>>

\* pthread_create fails; whether it wrote the handle first is undefined.
RunCreateFails(u) ==
    /\ pc[u] = "run_create"
    /\ internal_callback_thread' \in {internal_callback_thread, ticket[u]}
    /\ wpc' = [wpc EXCEPT ![ticket[u]] = "failed"]
    /\ Goto(u, "run_undo")
    /\ UNCHANGED <<status, result, interrupt_required, locks,
                   own, outcome, ghosts>>

RunUndo(u) ==  \* SHIT_THREAD_FAILURE; complete_trigger is not signalled
    /\ pc[u] = "run_undo" /\ SetStatus("idle") /\ Return(u)
    /\ UNCHANGED threads

f_runner_run_LateReset(u) ==  \* mutant: the flag is cleared after the creation
    \/ CallRun(u) \/ RunClaim(u) \/ RunRefuse(u)
    \/ /\ pc[u] = "run_reset"
       /\ internal_callback_thread' = ticket[u]
       /\ wpc' = [wpc EXCEPT ![ticket[u]] = "start"]
       /\ Goto(u, "run_create")
       /\ UNCHANGED <<status, result, interrupt_required, locks,
                      own, outcome, ghosts>>
    \/ /\ pc[u] = "run_create" /\ interrupt_lock = Nobody
       /\ interrupt_required' = FALSE
       /\ Return(u)
       /\ UNCHANGED <<status, result, internal_callback_thread, locks,
                      threads, ghosts>>

f_runner_run(u) ==
    \/ CallRun(u) \/ RunClaim(u) \/ RunRefuse(u) \/ RunReset(u)
    \/ RunCreate(u) \/ RunCreateFails(u) \/ RunUndo(u)

-----------------------------------------------------------------------------
(* f_runner_join, called by the owners and inside run, tryjoin and free.   *)

CallJoin(u) ==
    /\ u \in Owners /\ Enter(u, "join", "join_lock") /\ UNCHANGED data

JoinLock(u) ==
    /\ pc[u] = "join_lock" /\ join_lock = Nobody
    /\ join_lock' = u
    /\ Goto(u, "join_check")
    /\ UNCHANGED <<fields, interrupt_lock, own, threads, ghosts>>

JoinCheck(u) ==
    /\ pc[u] = "join_check"
    /\ IF status \in Active \cup Final
         THEN Goto(u, "join_call") /\ seen' = [seen EXCEPT ![u] = launched]
         ELSE Goto(u, "join_unlock") /\ UNCHANGED seen
    /\ UNCHANGED <<fields, locks, ticket, target, threads, ghosts>>

\* The handle is read only now, after status_lock was released.
JoinCall(u) ==
    /\ pc[u] = "join_call" /\ Joinable(internal_callback_thread)
    /\ target' = [target EXCEPT ![u] = internal_callback_thread]
    /\ Goto(u, "join_wait")
    /\ UNCHANGED <<fields, locks, ticket, seen, threads, ghosts>>

\* Joining a handle that is not joinable is undefined behaviour: pthread_join
\* gives up at once on one left by an earlier job, and crashes on a zeroed one,
\* after which the caller takes no further step.
MisJoin(u) ==
    /\ pc[u] = "join_call" /\ ~Joinable(internal_callback_thread)
    /\ misjoined' = TRUE
    /\ Goto(u, IF internal_callback_thread = 0 THEN "join_call" ELSE "join_reset")
    /\ UNCHANGED <<fields, locks, own, threads, calls, launched, resultOf, stops>>

JoinDetached(u) ==  \* mutant: does not wait for the end of the thread
    /\ pc[u] = "join_wait" /\ Goto(u, "join_reset") /\ UNCHANGED data

JoinWait(u) ==
    /\ pc[u] = "join_wait" /\ wpc[target[u]] = "exited"
    /\ wpc' = [wpc EXCEPT ![target[u]] = "joined"]
    /\ Goto(u, "join_reset")
    /\ UNCHANGED <<fields, locks, own, outcome, ghosts>>

JoinReset(u) ==
    /\ pc[u] = "join_reset" /\ SetStatus("idle") /\ Goto(u, "join_unlock")
    /\ UNCHANGED <<own, threads>>

JoinUnlock(u) ==
    /\ pc[u] = "join_unlock"
    /\ join_lock' = Nobody
    /\ \/ op[u] = "run"  /\ Goto(u, "run_claim") /\ UNCHANGED own
       \/ op[u] = "free" /\ Goto(u, "free_undefine") /\ UNCHANGED own
       \/ op[u] \in {"join", "tryjoin"} /\ Return(u)
    /\ UNCHANGED <<fields, interrupt_lock, threads, ghosts>>

f_runner_join(u) ==
    \/ CallJoin(u) \/ JoinLock(u) \/ JoinCheck(u) \/ JoinCall(u) \/ MisJoin(u)
    \/ JoinWait(u) \/ JoinReset(u) \/ JoinUnlock(u)

-----------------------------------------------------------------------------
(* f_runner_tryjoin: wait on complete_trigger, then join without a bound.  *)

CallTryjoin(u) ==
    /\ u \in Owners /\ Enter(u, "tryjoin", "try_check") /\ UNCHANGED data

TryCheckRunning(u) ==  \* mutant: forgets the launching status
    /\ pc[u] = "try_check"
    /\ Goto(u, IF status = "running" THEN "try_wait" ELSE "join_lock") /\ UNCHANGED data

TryCheck(u) ==
    /\ pc[u] = "try_check"
    /\ Goto(u, IF status \in Active THEN "try_wait" ELSE "join_lock") /\ UNCHANGED data

TryWakeup(u) ==  \* a spurious return of pthread_cond_timedwait
    /\ pc[u] = "try_wait"
    /\ Goto(u, "try_check") /\ UNCHANGED data

TryTimeout(u) ==  \* SHIT_TIMEOUT
    /\ pc[u] = "try_wait"
    /\ Return(u) /\ UNCHANGED shared

f_runner_tryjoin(u) ==
    CallTryjoin(u) \/ TryCheck(u) \/ TryWakeup(u) \/ TryTimeout(u)

-----------------------------------------------------------------------------
(* f_runner_stop, f_runner_get_result, f_runner_free.  A stop that finds   *)
(* no running job and a get_result that finds none completed only read.    *)

\* Nobody asks twice for the same job, or the askers could keep interrupt_lock
\* from the poll of d_runner_interruptable_point for ever.
CallStop(u) ==
    /\ status = "running" /\ launched \notin stops
    /\ Enter(u, "stop", "stop_set")
    /\ seen' = [seen EXCEPT ![u] = launched]
    /\ UNCHANGED <<fields, locks, ticket, target, threads, ghosts>>

StopSet(u) ==
    /\ pc[u] = "stop_set" /\ interrupt_lock = Nobody
    /\ interrupt_lock' = u /\ interrupt_required' = TRUE
    /\ stops' = stops \cup {seen[u]}
    /\ Goto(u, "stop_done")
    /\ UNCHANGED <<status, result, internal_callback_thread, join_lock,
                   own, threads, calls, launched, resultOf, misjoined>>

StopDoneLeaks(u) ==  \* mutant: interrupt_lock is not released
    /\ pc[u] = "stop_done"
    /\ \/ op[u] = "free" /\ Goto(u, "join_lock") /\ UNCHANGED own
       \/ op[u] = "stop" /\ Return(u)
    /\ UNCHANGED shared

StopDone(u) ==
    /\ pc[u] = "stop_done"
    /\ interrupt_lock' = Nobody
    /\ \/ op[u] = "free" /\ Goto(u, "join_lock") /\ UNCHANGED own
       \/ op[u] = "stop" /\ Return(u)
    /\ UNCHANGED <<fields, join_lock, threads, ghosts>>

f_runner_stop(u) == CallStop(u) \/ StopSet(u) \/ StopDone(u)

CallGet(u) ==
    /\ status = "completed" /\ Enter(u, "get", "get_read")
    /\ seen' = [seen EXCEPT ![u] = launched]
    /\ UNCHANGED <<fields, locks, ticket, target, threads, ghosts>>

GetRead(u) ==
    /\ pc[u] = "get_read"
    /\ Return(u) /\ UNCHANGED shared

f_runner_get_result(u) == CallGet(u) \/ GetRead(u)

\* The mutexes are destroyed, so no other call may be in progress.
CallFree(u, force_stop) ==
    /\ u \in Owners /\ \A v \in Callers : op[v] = "none"
    /\ Enter(u, "free", IF force_stop THEN "free_stop" ELSE "join_lock")
    /\ UNCHANGED data

FreeStopOnce(u) ==  \* mutant: does not retry on SHIT_AGAIN
    /\ pc[u] = "free_stop"
    /\ IF status = "running"
         THEN Goto(u, "stop_set") /\ seen' = [seen EXCEPT ![u] = launched]
         ELSE Goto(u, "join_lock") /\ UNCHANGED seen
    /\ UNCHANGED <<fields, locks, ticket, target, threads, ghosts>>

\* The loop on SHIT_AGAIN spins for as long as the status is launching.
FreeStop(u) ==
    /\ pc[u] = "free_stop" /\ status # "launching"
    /\ IF status = "running"
         THEN Goto(u, "stop_set") /\ seen' = [seen EXCEPT ![u] = launched]
         ELSE Goto(u, "join_lock") /\ UNCHANGED seen
    /\ UNCHANGED <<fields, locks, ticket, target, threads, ghosts>>

FreeUndefine(u) ==
    /\ pc[u] = "free_undefine" /\ SetStatus("undefined") /\ Return(u)
    /\ UNCHANGED threads

f_runner_free(u) ==
    (\E force_stop \in BOOLEAN : CallFree(u, force_stop))
        \/ FreeStop(u) \/ FreeUndefine(u)

-----------------------------------------------------------------------------
(* p_runner_run_callback, the body of the thread of job r.                 *)

Advance(r, from, to) == wpc[r] = from /\ wpc' = [wpc EXCEPT ![r] = to]

WorkerStart(r) ==
    /\ Advance(r, "start", IF status = "launching" THEN "begin" ELSE "broadcast")
    /\ UNCHANGED <<fields, locks, callers, outcome, ghosts>>

WorkerBegin(r) ==
    /\ Advance(r, "begin", "callback") /\ SetStatus("running")
    /\ UNCHANGED <<callers, outcome>>

\* d_runner_interruptable_point: trylock, and return when the flag is set.
CallbackInterrupted(r) ==
    /\ interrupt_lock = Nobody /\ interrupt_required
    /\ Advance(r, "callback", "publish")
    /\ outcome' = [outcome EXCEPT ![r] = Interrupted]
    /\ UNCHANGED <<fields, locks, callers, ghosts>>

CallbackUnpublished(r) ==  \* mutant: returns without writing the result
    /\ Advance(r, "callback", "finalise")
    /\ \E res \in JobResults : outcome' = [outcome EXCEPT ![r] = res]
    /\ UNCHANGED <<fields, locks, callers, ghosts>>

CallbackReturns(r) ==
    /\ Advance(r, "callback", "publish")
    /\ \E res \in JobResults : outcome' = [outcome EXCEPT ![r] = res]
    /\ UNCHANGED <<fields, locks, callers, ghosts>>

WorkerPublish(r) ==
    /\ Advance(r, "publish", "finalise")
    /\ result' = outcome[r] /\ resultOf' = r
    /\ UNCHANGED <<status, interrupt_required, internal_callback_thread, locks,
                   callers, outcome, calls, launched, stops, misjoined>>

WorkerFinaliseMute(r) ==  \* mutant: ends without the broadcast
    /\ Advance(r, "finalise", "exited")
    /\ SetStatus(IF outcome[r] = Interrupted THEN "interrupted" ELSE "completed")
    /\ UNCHANGED <<callers, outcome>>

WorkerFinalise(r) ==
    /\ Advance(r, "finalise", "broadcast")
    /\ SetStatus(IF outcome[r] = Interrupted THEN "interrupted" ELSE "completed")
    /\ UNCHANGED <<callers, outcome>>

\* pthread_cond_broadcast, without status_lock, and the end of the thread.
WorkerBroadcast(r) ==
    /\ Advance(r, "broadcast", "exited")
    /\ pc' = [u \in Callers |-> IF pc[u] = "try_wait" THEN "try_check" ELSE pc[u]]
    /\ UNCHANGED <<fields, locks, op, own, outcome, ghosts>>

p_runner_run_callback(r) ==
    \/ WorkerStart(r) \/ WorkerBegin(r) \/ CallbackInterrupted(r)
    \/ CallbackReturns(r) \/ WorkerPublish(r) \/ WorkerFinalise(r)
    \/ WorkerBroadcast(r)

-----------------------------------------------------------------------------
Caller(u) ==
    \/ f_runner_initialize(u) \/ f_runner_run(u) \/ f_runner_join(u)
    \/ f_runner_tryjoin(u) \/ f_runner_stop(u) \/ f_runner_get_result(u)
    \/ f_runner_free(u)

Next == (\E u \in Callers : Caller(u)) \/ (\E r \in Runs : p_runner_run_callback(r))

Spec == Init /\ [][Next]_vars

(***************************************************************************)
(* Fairness: a thread that is inside the library keeps running, and a      *)
(* callback goes on polling.  A callback need not return by itself, and    *)
(* nobody has to call anything.  The deadline of a tryjoin is absolute, so *)
(* it passes however often the wait is woken up: strong fairness.          *)
(***************************************************************************)
Proceed(u) ==
    \/ RunClaim(u) \/ RunRefuse(u) \/ RunReset(u) \/ RunCreate(u) \/ RunUndo(u)
    \/ JoinLock(u) \/ JoinCheck(u) \/ JoinCall(u) \/ MisJoin(u) \/ JoinWait(u)
    \/ JoinReset(u) \/ JoinUnlock(u) \/ TryCheck(u) \/ StopSet(u) \/ StopDone(u)
    \/ GetRead(u) \/ FreeStop(u) \/ FreeUndefine(u)

Work(r) ==
    \/ WorkerStart(r) \/ WorkerBegin(r) \/ CallbackInterrupted(r)
    \/ WorkerPublish(r) \/ WorkerFinalise(r) \/ WorkerBroadcast(r)

Fairness ==
    /\ \A u \in Callers : WF_vars(Proceed(u)) /\ SF_vars(TryTimeout(u))
    /\ \A r \in Runs : WF_vars(Work(r))

FairSpec == Spec /\ Fairness

-----------------------------------------------------------------------------
FieldTypes ==
    /\ status \in Active \cup Final \cup {"idle", "undefined"}
    /\ result \in Outcomes \cup {"none"} /\ interrupt_required \in BOOLEAN
    /\ internal_callback_thread \in 0..MaxRuns
    /\ interrupt_lock \in Callers \cup {Nobody}
    /\ join_lock \in Callers \cup {Nobody}

PCs == {"out", "run_claim", "run_reset", "run_create", "run_undo",
        "join_lock", "join_check", "join_call", "join_wait", "join_reset",
        "join_unlock", "try_check", "try_wait", "stop_set", "stop_done",
        "get_read", "free_stop", "free_undefine"}

Ops == {"none", "run", "join", "tryjoin", "stop", "get", "free"}

CallerTypes ==
    /\ pc \in [Callers -> PCs] /\ op \in [Callers -> Ops]
    /\ ticket \in [Callers -> 0..MaxRuns]
    /\ seen \in [Callers -> 0..MaxRuns]
    /\ target \in [Callers -> 0..MaxRuns]

ThreadTypes ==
    /\ wpc \in [Runs -> InFlight \cup {"none", "claimed", "failed", "exited", "joined"}]
    /\ outcome \in [Runs -> Outcomes \cup {"none"}]

GhostTypes ==
    /\ calls \in 0..MaxRuns /\ launched \in 0..MaxRuns /\ resultOf \in 0..MaxRuns
    /\ stops \subseteq 0..MaxRuns /\ misjoined \in BOOLEAN

TypeOK == FieldTypes /\ CallerTypes /\ ThreadTypes /\ GhostTypes

\* "It manages exactly one background job at a time": the only thread there can
\* be is the one of the job launched last, whose handle is the one stored, and
\* an idle or destroyed runner has none.
OneJobAtATime ==
    ~misjoined => \A r \in Runs : Joinable(r) =>
        r = launched /\ r = internal_callback_thread /\ status \in Active \cup Final

\* A final status is visible only together with the result of that same job,
\* and interrupted exactly when the job returned SHIT_THREAD_INTERRUPTED,
\* although status and result are written under two different locks.
FinalMeansPublished ==
    ~misjoined /\ status \in Final =>
        /\ launched \in Runs /\ resultOf = launched /\ result = outcome[launched]
        /\ status = "interrupted" <=> result = Interrupted

\* The run that clears interrupt_required never wipes out a stop that was
\* granted (NOICE) for the job it launches.
GrantedStopIsKept ==
    ~misjoined /\ launched \in stops /\ wpc[launched] = "callback"
        => interrupt_required

\* When join goes on to write idle, the job its status check saw has ended and
\* its thread has been collected (or was never created).
JoinWaitsForJob ==
    ~misjoined => \A u \in Callers : pc[u] = "join_reset" => Dead(seen[u])

\* No job that got a thread is skipped because the status moved under it.
JobsAreNotSkipped ==
    ~misjoined => \A r \in Runs :
        wpc[r] \in {"broadcast", "exited", "joined"} => outcome[r] # "none"

\* A waiter of complete_trigger always has a reason to wait, or a broadcast
\* still to come; only a failed creation leaves it to its deadline.
NoLostWakeup ==
    ~misjoined => \A u \in Callers : pc[u] = "try_wait" =>
        \/ status \in Active
        \/ \E r \in Runs : wpc[r] = "broadcast"
        \/ launched \in Runs /\ wpc[launched] = "failed"

\* What f_runner_get_result is about to return belongs to the job whose
\* completion it saw, unless that job has been joined in between.
FreshResult ==
    ~misjoined => \A u \in Callers : pc[u] = "get_read" =>
        resultOf = seen[u] \/ wpc[seen[u]] = "joined"

\* With one owner no pthread_join is ever given a handle that is not joinable.
NeverMisjoins == ~misjoined

\* "f_runner_tryjoin gives it a bounded amount of time": when tryjoin blocks in
\* pthread_join the job is over.
TryjoinIsBounded ==
    \A u \in Callers : op[u] = "tryjoin" /\ pc[u] = "join_wait"
        => wpc[target[u]] \in {"broadcast", "exited"}

\* "f_runner_join blocks until it does, unconditionally."
JoinIsUnconditional ==
    \A u \in Callers : pc[u] = "join_reset" => Dead(seen[u])

\* The runner implements the one-slot promise of JobLifecycle.
Lifecycle == INSTANCE JobLifecycle WITH
    Jobs <- Runs, Results <- Outcomes, Interrupted <- Interrupted,
    phase <- IF misjoined THEN "chaos" ELSE status,
    job <- launched,
    outcome <- IF status \in Final THEN result ELSE "none",
    used <- {r \in Runs : wpc[r] # "none"}

KeepsLifecycle == Lifecycle!Spec

\* A job that was asked to stop, and was told so with NOICE, ends.
GrantedStopEndsJob ==
    \A r \in Runs : r \in stops ~> wpc[r] \in {"exited", "joined"}

\* f_runner_free with force_stop ends, and f_runner_tryjoin returns, even when the job would run
\* for ever.
CallsEnd == \A u \in Callers :
    /\ pc[u] = "free_stop" ~> status = "undefined"
    /\ op[u] = "tryjoin" ~> op[u] = "none"

=============================================================================
