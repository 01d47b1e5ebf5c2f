------------------------------ MODULE MCRunner ------------------------------
(***************************************************************************)
(* Instances of Runner for TLC.  The callers are model values; a job ends  *)
(* with NOICE, with a failure of its own, or interrupted.                  *)
(***************************************************************************)
EXTENDS RunnerInv

MCJobResults == {"NOICE", "SHIT"}

\* Nothing is claimed of a run whose behaviour the C library leaves undefined.
DefinedSoFar == ~misjoined
=============================================================================
