---------------------------- MODULE JobLifecycle ----------------------------
(***************************************************************************)
(* What a runner promises its users, whoever they are and however their    *)
(* calls interleave: one slot for one job.  A job is launched from an idle *)
(* slot only, is launched at most once, runs at most once, and the slot    *)
(* becomes idle again only after the job has finished and its outcome has  *)
(* been published, or when the job could not be started at all.            *)
(*                                                                         *)
(* The promise ends ("chaos") when a caller makes the library join a       *)
(* thread that cannot be joined.                                           *)
(***************************************************************************)
CONSTANTS Jobs, Results, Interrupted

VARIABLES
    phase,     \* of the slot
    job,       \* the job launched last
    outcome,   \* its result once it has finished, "none" before
    used       \* the jobs launched so far

vars == <<phase, job, outcome, used>>

Init == phase = "undefined" /\ outcome = "none" /\ used = {}

Create == phase = "undefined" /\ phase' = "idle" /\ UNCHANGED <<job, outcome, used>>

Launch(j) ==
    /\ phase = "idle" /\ j \notin used
    /\ phase' = "launching" /\ job' = j /\ used' = used \cup {j}
    /\ outcome' = "none"

GiveUp ==
    phase = "launching" /\ phase' = "idle" /\ UNCHANGED <<job, outcome, used>>

Start ==
    phase = "launching" /\ phase' = "running" /\ UNCHANGED <<job, outcome, used>>

Finish(res) ==
    /\ phase = "running"
    /\ phase' = IF res = Interrupted THEN "interrupted" ELSE "completed"
    /\ outcome' = res
    /\ UNCHANGED <<job, used>>

\* The slot is emptied; the outcome is not offered any more.
Collect ==
    /\ phase \in {"completed", "interrupted"} /\ phase' = "idle"
    /\ outcome' = "none" /\ UNCHANGED <<job, used>>

Destroy ==
    phase = "idle" /\ phase' = "undefined" /\ UNCHANGED <<job, outcome, used>>

Chaos == phase' = "chaos"

Next ==
    \/ Create \/ (\E j \in Jobs : Launch(j)) \/ GiveUp \/ Start
    \/ (\E res \in Results : Finish(res)) \/ Collect \/ Destroy \/ Chaos

Spec == Init /\ [][Next]_vars

=============================================================================
