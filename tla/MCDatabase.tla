----------------------------- MODULE MCDatabase -----------------------------
(***************************************************************************)
(* Instance of Database for TLC.                                           *)
(***************************************************************************)
EXTENDS Database

CONSTANTS t1, t2
=============================================================================
