------------------------------ MODULE RunnerInv ------------------------------
(***************************************************************************)
(* The inductive invariant of Runner: the part-by-part account of where    *)
(* the callers and the one live thread can be, given the status.  TLC      *)
(* checks it as an invariant, RunnerProofs proves it inductive.            *)
(***************************************************************************)
EXTENDS Runner

Claiming(u) == pc[u] \in {"run_reset", "run_create", "run_undo"}

InJoin(u) == pc[u] \in {"join_check", "join_call", "join_wait", "join_reset",
                        "join_unlock"}

Begun == {"callback", "publish", "finalise", "broadcast", "exited", "joined"}

\* The step a caller is at belongs to the call it is in.
StepOfCall(u) ==
    \/ op[u] = "none" /\ pc[u] = "out"
    \/ op[u] = "run" /\ (pc[u] \in {"run_claim", "join_lock"} \/ Claiming(u) \/ InJoin(u))
    \/ op[u] = "join" /\ (pc[u] = "join_lock" \/ InJoin(u))
    \/ op[u] = "tryjoin" /\ (pc[u] \in {"try_check", "try_wait", "join_lock"} \/ InJoin(u))
    \/ op[u] = "stop" /\ pc[u] \in {"stop_set", "stop_done"}
    \/ op[u] = "get" /\ pc[u] = "get_read"
    \/ op[u] = "free" /\ (InJoin(u) \/ pc[u] \in {"free_stop", "stop_set", "stop_done",
                                                   "join_lock", "free_undefine"})

CallsMatch ==
    \A u \in Callers :
        /\ StepOfCall(u)
        /\ op[u] \in {"run", "join", "tryjoin", "free"} => u \in Owners
        /\ status = "undefined" => op[u] = "none"

\* f_runner_free runs alone, so the status it joined to idle stays idle.
FreeIsAlone ==
    \A u \in Callers : op[u] = "free" =>
        /\ \A v \in Callers : v # u => op[v] = "none"
        /\ pc[u] \in {"join_unlock", "free_undefine"} => status = "idle"

\* Every f_runner_run launches a job of its own, which nobody launched before.
TicketsAreFresh ==
    /\ \A u \in Callers : op[u] = "run" =>
          /\ ticket[u] \in 1..calls
          /\ ~Claiming(u) => wpc[ticket[u]] = "none"
          /\ \A v \in Callers : op[v] = "run" /\ ticket[v] = ticket[u] => v = u
    /\ \A r \in Runs : r > calls => wpc[r] = "none"

\* Whoever took the idle runner is the only one between taking and creating.
ClaimsHold ==
    \A u \in Callers : Claiming(u) =>
        /\ status = "launching" /\ ticket[u] = launched
        /\ wpc[launched] = IF pc[u] = "run_undo" THEN "failed" ELSE "claimed"

\* The status tells where the thread of the job launched last is.
StatusMatches ==
    /\ launched = 0 => status \in {"idle", "undefined"}
    /\ launched \in Runs =>
          /\ status = "launching" => wpc[launched] \in {"claimed", "failed", "start", "begin"}
          /\ status = "running"   => wpc[launched] \in {"callback", "publish", "finalise"}
          /\ status \in Final     => wpc[launched] \in {"broadcast", "exited", "joined"}
          /\ status \in {"idle", "undefined"} => wpc[launched] \in {"failed", "joined"}

\* The threads of all the other jobs are gone, and its handle is the one kept.
OneThread ==
    /\ \A r \in Runs : r # launched => wpc[r] \in {"none", "failed", "joined"}
    /\ Joinable(launched) => internal_callback_thread = launched

JoinLockHeld == \A u \in Callers : InJoin(u) <=> join_lock = u

\* The joiner follows the job it saw, or a later one when that one failed.
JoinerFollows ==
    \A u \in Callers :
        /\ pc[u] = "join_call" =>
              \/ seen[u] = launched /\ launched \in Runs /\ wpc[launched] # "joined"
              \/ seen[u] \in Runs /\ wpc[seen[u]] = "failed"
        /\ pc[u] = "join_wait" =>
              /\ target[u] = launched /\ Joinable(launched)
              /\ \/ seen[u] = launched
                 \/ seen[u] \in Runs /\ wpc[seen[u]] = "failed"
        /\ pc[u] = "join_reset" =>
              /\ status \in Final /\ launched \in Runs /\ wpc[launched] = "joined"
              /\ seen[u] \in Runs /\ Dead(seen[u])

\* A job is joined with its final status still up only while the joiner is
\* about to reset it.
CollectedByJoiner ==
    launched \in Runs /\ wpc[launched] = "joined" /\ status \in Final =>
        join_lock \in Callers /\ pc[join_lock] = "join_reset"

Published ==
    /\ \A r \in Runs : wpc[r] \in Begun \ {"callback"} => outcome[r] # "none"
    /\ launched \in Runs /\ (status \in Final \/ wpc[launched] = "finalise") =>
          resultOf = launched /\ result = outcome[launched]
    /\ launched \in Runs /\ status \in Final =>
          (status = "interrupted" <=> outcome[launched] = Interrupted)

StopsKept ==
    /\ \A r \in stops : r \in Runs /\ wpc[r] \in Begun
    /\ \A u \in Callers : pc[u] = "stop_set" =>
          seen[u] \in Runs /\ wpc[seen[u]] \in Begun
    /\ launched \in stops /\ wpc[launched] = "callback" => interrupt_required

ReadersFresh ==
    \A u \in Callers : pc[u] = "get_read" =>
        /\ seen[u] \in Runs
        /\ \/ wpc[seen[u]] = "joined"
           \/ /\ seen[u] = launched /\ resultOf = launched
              /\ wpc[launched] \in {"broadcast", "exited"}

WaitersWoken ==
    \A u \in Callers : pc[u] = "try_wait" =>
        \/ status \in Active
        \/ launched \in Runs /\ status \in Final /\ wpc[launched] = "broadcast"
        \/ launched \in Runs /\ status = "idle" /\ wpc[launched] = "failed"

CallerInv == CallsMatch /\ FreeIsAlone /\ TicketsAreFresh /\ ClaimsHold

ThreadInv ==
    StatusMatches /\ OneThread /\ JoinLockHeld /\ JoinerFollows /\ CollectedByJoiner

DataInv == Published /\ StopsKept /\ ReadersFresh /\ WaitersWoken

Core == CallerInv /\ ThreadInv /\ DataInv

\* The inductive invariant: as long as pthread_join was used as it must be.
IInv == TypeOK /\ (misjoined \/ Core)

\* With one owner the creating and the joining caller are the same.
SoleOwner == \A u, v \in Owners : u = v

SoleJoiner ==
    /\ launched \in Runs /\ status = "launching"
          /\ wpc[launched] \in {"claimed", "failed"} => \E u \in Callers : Claiming(u)
    /\ \A u \in Callers : pc[u] = "join_call" => Joinable(launched)

SoleInv == TypeOK /\ Core /\ SoleJoiner /\ ~misjoined

\* The owner in a tryjoin that stopped waiting launches nothing until it returns.
Passing(u) ==
    op[u] = "tryjoin" /\ pc[u] \in {"join_lock", "join_check", "join_call", "join_wait"}

TryjoinPasses == \A u \in Callers : Passing(u) => status \notin Active

=============================================================================
