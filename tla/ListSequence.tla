---------------------------- MODULE ListSequence ----------------------------
(***************************************************************************)
(* What the list module promises: each list is a sequence of nodes, and a  *)
(* node is in at most one list, once.                                      *)
(***************************************************************************)
EXTENDS SequencesExt

CONSTANTS Lists, Nodes

VARIABLE items  \* the nodes of each list, from its head to its tail

Init == items = [l \in Lists |-> <<>>]

Free(n) == \A l \in Lists : n \notin ToSet(items[l])

Prepend(l, n) == Free(n) /\ items' = [items EXCEPT ![l] = <<n>> \o @]

AppendLast(l, n) == Free(n) /\ items' = [items EXCEPT ![l] = Append(@, n)]

PositionOf(l, n) == CHOOSE i \in DOMAIN items[l] : items[l][i] = n

InsertAfter(l, n, p) ==
  /\ Free(n)
  /\ p \in ToSet(items[l])
  /\ items' = [items EXCEPT ![l] = InsertAt(@, PositionOf(l, p) + 1, n)]

Take(l, n) ==
  /\ n \in ToSet(items[l])
  /\ items' = [items EXCEPT ![l] = RemoveAt(@, PositionOf(l, n))]

\* A stable sort: among nodes with the same key the order stays what it was.
StableSort(l, key) ==
  LET Before(m, n) == \/ key[m] < key[n]
                      \/ key[m] = key[n] /\ PositionOf(l, m) < PositionOf(l, n)
  IN \E s \in [1 .. Len(items[l]) -> ToSet(items[l])] :
       /\ \A i, j \in DOMAIN s : i < j => Before(s[i], s[j])
       /\ items' = [items EXCEPT ![l] = s]
=============================================================================
