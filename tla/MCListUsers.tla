---------------------------- MODULE MCListUsers -----------------------------
(***************************************************************************)
(* Instance of ListUsers for TLC: three blocks; the second item sorts      *)
(* before the other two, which have the same key.                          *)
(***************************************************************************)
EXTENDS ListUsers, TLC

CONSTANTS b1, b2, b3, t1, t2, l, l2, registry

MCNodes == Blocks \cup {Item(b) : b \in Blocks}
MCKey == [n \in MCNodes |-> IF n = Item(b2) THEN 0 ELSE 1]

\* The two blocks whose items have the same key, and the two lists of the keeper.
Alike == Permutations({b1, b3}) \cup Permutations({l, l2})
=============================================================================
