---------------------------- MODULE MCDictionary ----------------------------
(***************************************************************************)
(* Instances of Dictionary for TLC.  A key is named by its hash; in the    *)
(* colliding instance two of them share one, as "Ez" and "FY" do.          *)
(***************************************************************************)
EXTENDS Dictionary

MCDistinct(k) == k
MCColliding(k) == k \div 2

\* Which free block d_malloc returns makes no difference: it is the one named like the key.
NamedByKey == \A n \in blocks : key[n] \in {n, NULL}
=============================================================================
