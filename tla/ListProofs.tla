----------------------------- MODULE ListProofs -----------------------------
(***************************************************************************)
(* The links of every list stay consistent, and stand for the sequence     *)
(* that ListSequence promises, for any number of lists and nodes; and the  *)
(* merge sort is stable, for any length and any keys.                      *)
(*                                                                         *)
(* The first part is local: an operation only writes the nodes next to the *)
(* one it moves, and TypeOK /\ LinksAgree says enough about these.  The    *)
(* second relates the links to items: an operation puts one node at one    *)
(* position of the sequence (Inserted, PutAt) or takes one out (Removed,   *)
(* TakenAt), which also keeps the order a walk depends on.  The third is   *)
(* about chains of nodes (Chain) and who of the nested calls has which of  *)
(* them in hand (Sound, Nested): it is what takes the place of induction   *)
(* over the recursion.                                                     *)
(***************************************************************************)
EXTENDS ListSort, FiniteSetTheorems, SequenceTheorems, TLAPS

ListInv == TypeOK /\ LinksAgree

\* The empty lists of ListInit.
LEMMA InitEstablishesInv == ListInit => ListInv
<1> SUFFICES ASSUME ListInit PROVE ListInv
  OBVIOUS
<1>1. TypeOK /\ EndsAgree /\ NeighboursAgree
  BY ListAssumption DEF ListInit, TypeOK, EndsAgree, NeighboursAgree
<1>2. \A l \in Lists : Members(l) = {}
  BY ListAssumption DEF ListInit, Members
<1>3. CountsAgree
  BY <1>2, FS_EmptySet DEF ListInit, CountsAgree
<1> QED
  BY <1>1, <1>3 DEF ListInv, LinksAgree

\* A node that joins a list is one more entry of it, and of no other list.
LEMMA JoiningIsCounted ==
  ASSUME ListInv, NEW l \in Lists, NEW n \in Nodes, owner[n] = NULL, Owned(l, n)
  PROVE  CountsAgree'
<1> SUFFICES ASSUME NEW m \in Lists
             PROVE  IsFiniteSet(Members(m)') /\ entries'[m] = Cardinality(Members(m)')
  BY DEF CountsAgree
<1>1. IsFiniteSet(Members(m)) /\ entries[m] = Cardinality(Members(m)) /\ n \notin Members(m)
  BY ListAssumption DEF ListInv, LinksAgree, CountsAgree, Members
<1>2. CASE m = l
  <2>1. Members(m)' = Members(m) \cup {n} /\ entries'[m] = entries[m] + 1
    BY <1>2 DEF ListInv, TypeOK, Owned, Members
  <2> QED
    BY <1>1, <2>1, FS_AddElement
<1>3. CASE m # l
  <2>1. Members(m)' = Members(m) /\ entries'[m] = entries[m]
    BY <1>1, <1>3, ListAssumption DEF ListInv, TypeOK, Owned, Members
  <2> QED
    BY <1>1, <2>1
<1> QED
  BY <1>2, <1>3

\* A node that is taken out is one entry less.
LEMMA LeavingIsCounted ==
  ASSUME ListInv, NEW l \in Lists, NEW n \in Nodes, f_list_remove(l, n)
  PROVE  CountsAgree' /\ entries' \in [Lists -> Nat]
<1>1. \A m \in Lists : IsFiniteSet(Members(m)') /\ entries'[m] = Cardinality(Members(m)')
  <2> SUFFICES ASSUME NEW m \in Lists
               PROVE  IsFiniteSet(Members(m)') /\ entries'[m] = Cardinality(Members(m)')
    OBVIOUS
  <2>1. IsFiniteSet(Members(m)) /\ entries[m] = Cardinality(Members(m))
    BY DEF ListInv, LinksAgree, CountsAgree
  <2>2. CASE m = l
    <3>1. n \in Members(m) /\ Members(m)' = Members(m) \ {n} /\ entries'[m] = entries[m] - 1
      BY <2>2, ListAssumption DEF ListInv, TypeOK, f_list_remove, Members
    <3> QED
      BY <2>1, <3>1, FS_RemoveElement
  <2>3. CASE m # l
    <3>1. Members(m)' = Members(m) /\ entries'[m] = entries[m]
      BY <2>3, ListAssumption DEF ListInv, TypeOK, f_list_remove, Members
    <3> QED
      BY <2>1, <3>1
  <2> QED
    BY <2>2, <2>3
<1>2. \A m \in Lists : entries'[m] \in Nat
  BY <1>1, FS_CardinalityType
<1>3. entries' = [m \in Lists |-> entries'[m]]
  BY DEF ListInv, TypeOK, f_list_remove
<1> QED
  BY <1>1, <1>2, <1>3 DEF CountsAgree

\* f_list_append at the head: the old head gets a predecessor, an empty list a tail.
LEMMA AppendHeadKeepsInv ==
  ASSUME ListInv, NEW l \in Lists, NEW n \in Nodes,
         owner[n] = NULL, AppendHead(l, n), Owned(l, n)
  PROVE  ListInv'
<1> USE ListAssumption DEF AppendHead, Owned
<1>1. TypeOK'
  BY DEF ListInv, TypeOK
<1>2. EndsAgree'
  BY DEF ListInv, TypeOK, LinksAgree, EndsAgree, NeighboursAgree
<1>3. NeighboursAgree'
  BY DEF ListInv, TypeOK, LinksAgree, EndsAgree, NeighboursAgree
<1>4. CountsAgree'
  BY JoiningIsCounted
<1> QED
  BY <1>1, <1>2, <1>3, <1>4 DEF ListInv, LinksAgree

\* f_list_append at the tail, the same seen from the other end.
LEMMA AppendTailKeepsInv ==
  ASSUME ListInv, NEW l \in Lists, NEW n \in Nodes,
         owner[n] = NULL, AppendTail(l, n), Owned(l, n)
  PROVE  ListInv'
<1> USE ListAssumption DEF AppendTail, Owned
<1>1. TypeOK'
  BY DEF ListInv, TypeOK
<1>2. EndsAgree'
  BY DEF ListInv, TypeOK, LinksAgree, EndsAgree, NeighboursAgree
<1>3. NeighboursAgree'
  BY DEF ListInv, TypeOK, LinksAgree, EndsAgree, NeighboursAgree
<1>4. CountsAgree'
  BY JoiningIsCounted
<1> QED
  BY <1>1, <1>2, <1>3, <1>4 DEF ListInv, LinksAgree

\* f_list_insert between two neighbours.
LEMMA SpliceKeepsInv ==
  ASSUME ListInv, NEW l \in Lists, NEW n \in Nodes, NEW p \in Nodes,
         owner[p] = l, next[p] # NULL, Splice(l, n, p)
  PROVE  ListInv'
<1> USE ListAssumption DEF Splice, Owned
<1>1. TypeOK'
  BY DEF ListInv, TypeOK, LinksAgree, NeighboursAgree
<1>2. EndsAgree'
  BY DEF ListInv, TypeOK, LinksAgree, EndsAgree, NeighboursAgree
<1>3. NeighboursAgree'
  BY DEF ListInv, TypeOK, LinksAgree, EndsAgree, NeighboursAgree
<1>4. CountsAgree'
  BY JoiningIsCounted
<1> QED
  BY <1>1, <1>2, <1>3, <1>4 DEF ListInv, LinksAgree

\* f_list_remove joins the two neighbours of a node, of which either may be missing.
LEMMA RemoveKeepsInv ==
  ASSUME ListInv, NEW l \in Lists, NEW n \in Nodes, f_list_remove(l, n)
  PROVE  ListInv'
<1>1. CountsAgree' /\ entries' \in [Lists -> Nat]
  BY LeavingIsCounted
<1> USE ListAssumption DEF f_list_remove
<1>2. TypeOK'
  BY <1>1 DEF ListInv, TypeOK, LinksAgree, EndsAgree, NeighboursAgree
<1>3. EndsAgree'
  BY DEF ListInv, TypeOK, LinksAgree, EndsAgree, NeighboursAgree
<1>4. NeighboursAgree'
  BY DEF ListInv, TypeOK, LinksAgree, EndsAgree, NeighboursAgree
<1> QED
  BY <1>1, <1>2, <1>3, <1>4 DEF ListInv, LinksAgree

\* Steps that only read the links.
LEMMA ReadingKeepsInv == ListInv /\ UNCHANGED links => ListInv'
<1> SUFFICES ASSUME ListInv, UNCHANGED links PROVE ListInv'
  OBVIOUS
<1>1. \A l \in Lists : Members(l)' = Members(l)
  BY DEF links, Members
<1> QED
  BY <1>1 DEF links, ListInv, TypeOK, LinksAgree, EndsAgree, NeighboursAgree, CountsAgree

\* Either end of f_list_append.
LEMMA AppendKeepsInv ==
  ASSUME ListInv, NEW l \in Lists, NEW n \in Nodes, NEW kind, f_list_append(l, n, kind)
  PROVE  ListInv'
BY AppendHeadKeepsInv, AppendTailKeepsInv DEF f_list_append

\* Every step keeps the links consistent.
LEMMA StepKeepsInv == ListInv /\ [ListNext]_listVars => ListInv'
<1> SUFFICES ASSUME ListInv, [ListNext]_listVars PROVE ListInv'
  OBVIOUS
<1>1. ASSUME NEW l \in Lists, NEW n \in Nodes, NEW kind \in {"head", "tail"},
             AppendNode(l, n, kind)
      PROVE  ListInv'
  BY <1>1, AppendKeepsInv DEF AppendNode
<1>2. ASSUME NEW l \in Lists, NEW n \in Nodes, NEW p \in Nodes \cup {NULL}, Insert(l, n, p)
      PROVE  ListInv'
  <2>1. p # NULL => p \in Nodes /\ owner[p] = l
    BY <1>2 DEF Insert
  <2>2. f_list_insert(l, n, p)
    BY <1>2 DEF Insert
  <2> QED
    BY <2>1, <2>2, SpliceKeepsInv, AppendKeepsInv DEF f_list_insert
<1>3. ASSUME NEW l \in Lists, NEW n \in Nodes, RemoveNode(l, n)
      PROVE  ListInv'
  BY <1>3, RemoveKeepsInv DEF RemoveNode
<1>4. ASSUME NEW l \in Lists, WalkStart(l) PROVE ListInv'
  BY <1>4, ReadingKeepsInv DEF WalkStart
<1>5. CASE WalkStep
  BY <1>5, ReadingKeepsInv DEF WalkStep
<1>6. CASE WalkEnd
  BY <1>6, ReadingKeepsInv DEF WalkEnd
<1>7. CASE UNCHANGED listVars
  BY <1>7, ReadingKeepsInv DEF listVars
<1> QED
  BY <1>1, <1>2, <1>3, <1>4, <1>5, <1>6, <1>7 DEF ListNext

\* For every number of lists and nodes, and every sequence of appends, inserts and removals that
\* respects the callers' contract, the links of list.c stay consistent and entries stays exact.
THEOREM ListsKeepTheirLinks == ListSpec => []LinksAgree
<1>1. ListSpec => []ListInv
  BY InitEstablishesInv, StepKeepsInv, PTL DEF ListSpec
<1>2. ListInv => LinksAgree
  BY DEF ListInv
<1> QED
  BY <1>1, <1>2, PTL

\* The fields keep their types: in particular entries never goes below zero.
THEOREM ListsAreTyped == ListSpec => []TypeOK
<1>1. ListSpec => []ListInv
  BY InitEstablishesInv, StepKeepsInv, PTL DEF ListSpec
<1>2. ListInv => TypeOK
  BY DEF ListInv
<1> QED
  BY <1>1, <1>2, PTL

-----------------------------------------------------------------------------
(***************************************************************************)
(* Sequences of nodes, and the operators of SequencesExt that ListSequence *)
(* moves them with.                                                        *)
(***************************************************************************)
\* r is s with n put at the position k, or with the position k taken out.
Inserted(s, r, k, n) ==
  /\ k \in 1 .. Len(s) + 1
  /\ r \in Seq(Nodes)
  /\ Len(r) = Len(s) + 1
  /\ \A j \in 1 .. Len(r) : r[j] = IF j < k THEN s[j] ELSE IF j = k THEN n ELSE s[j - 1]

Removed(s, r, k) ==
  /\ k \in 1 .. Len(s)
  /\ r \in Seq(Nodes)
  /\ Len(r) = Len(s) - 1
  /\ \A j \in 1 .. Len(r) : r[j] = IF j < k THEN s[j] ELSE s[j + 1]

\* The sequence of one node.
LEMMA SingletonSeq ==
  ASSUME NEW n \in Nodes
  PROVE  <<n>> \in Seq(Nodes) /\ Len(<<n>>) = 1 /\ <<n>>[1] = n
OBVIOUS

\* Prepend puts n at the first position.
LEMMA PrependInserts ==
  ASSUME NEW s \in Seq(Nodes), NEW n \in Nodes
  PROVE  Inserted(s, <<n>> \o s, 1, n)
<1>1. Len(s) \in Nat
  BY LenProperties
<1>2. /\ <<n>> \o s \in Seq(Nodes)
      /\ Len(<<n>> \o s) = 1 + Len(s)
      /\ \A i \in 1 .. 1 + Len(s) :
           (<<n>> \o s)[i] = IF i <= 1 THEN <<n>>[i] ELSE s[i - 1]
  BY SingletonSeq, ConcatProperties
<1> QED
  BY <1>1, <1>2, SingletonSeq DEF Inserted

\* Append puts n behind the last position.
LEMMA AppendInserts ==
  ASSUME NEW s \in Seq(Nodes), NEW n \in Nodes
  PROVE  Inserted(s, Append(s, n), Len(s) + 1, n)
<1>1. Len(s) \in Nat
  BY LenProperties
<1> QED
  BY <1>1, AppendProperties DEF Inserted

\* What comes before the position k.
LEMMA PrefixOfSeq ==
  ASSUME NEW s \in Seq(Nodes), NEW k \in 1 .. Len(s) + 1
  PROVE  /\ SubSeq(s, 1, k - 1) \in Seq(Nodes)
         /\ Len(SubSeq(s, 1, k - 1)) = k - 1
         /\ \A i \in 1 .. k - 1 : SubSeq(s, 1, k - 1)[i] = s[i]
<1>1. Len(s) \in Nat /\ k \in Int /\ k - 1 \in Int /\ 1 \in Int
  BY LenProperties
<1>2. \A i \in 1 .. k - 1 : s[i] \in Nodes
  BY <1>1, ElementOfSeq
<1>3. /\ SubSeq(s, 1, k - 1) \in Seq(Nodes)
      /\ Len(SubSeq(s, 1, k - 1)) = IF 1 <= k - 1 THEN k - 1 - 1 + 1 ELSE 0
      /\ \A i \in 1 .. k - 1 - 1 + 1 : SubSeq(s, 1, k - 1)[i] = s[1 + i - 1]
  BY <1>1, <1>2, SubSeqProperties
<1> QED
  BY <1>1, <1>3

\* What comes from the position k on.
LEMMA SuffixOfSeq ==
  ASSUME NEW s \in Seq(Nodes), NEW k \in 1 .. Len(s) + 1
  PROVE  /\ SubSeq(s, k, Len(s)) \in Seq(Nodes)
         /\ Len(SubSeq(s, k, Len(s))) = Len(s) - k + 1
         /\ \A i \in 1 .. Len(s) - k + 1 : SubSeq(s, k, Len(s))[i] = s[k + i - 1]
<1>1. Len(s) \in Nat /\ Len(s) \in Int /\ k \in Int
  BY LenProperties
<1>2. \A i \in k .. Len(s) : s[i] \in Nodes
  BY <1>1, ElementOfSeq
<1>3. /\ SubSeq(s, k, Len(s)) \in Seq(Nodes)
      /\ Len(SubSeq(s, k, Len(s))) = IF k <= Len(s) THEN Len(s) - k + 1 ELSE 0
      /\ \A i \in 1 .. Len(s) - k + 1 : SubSeq(s, k, Len(s))[i] = s[k + i - 1]
  BY <1>1, <1>2, SubSeqProperties
<1> QED
  BY <1>1, <1>3

\* InsertAt puts n at the position k, between the two halves.
LEMMA InsertAtInserts ==
  ASSUME NEW s \in Seq(Nodes), NEW n \in Nodes, NEW k \in 1 .. Len(s) + 1
  PROVE  Inserted(s, Sequence!InsertAt(s, k, n), k, n)
<1> DEFINE before == SubSeq(s, 1, k - 1)
           after == SubSeq(s, k, Len(s))
           front == before \o <<n>>
<1>1. Len(s) \in Nat
  BY LenProperties
<1>2. before \in Seq(Nodes) /\ Len(before) = k - 1 /\ \A i \in 1 .. k - 1 : before[i] = s[i]
  BY PrefixOfSeq
<1>3. /\ after \in Seq(Nodes)
      /\ Len(after) = Len(s) - k + 1
      /\ \A i \in 1 .. Len(s) - k + 1 : after[i] = s[k + i - 1]
  BY SuffixOfSeq
<1>4. Sequence!InsertAt(s, k, n) = front \o after
  BY DEF Sequence!InsertAt
<1> HIDE DEF before, after
<1>5. /\ front \in Seq(Nodes)
      /\ Len(front) = k - 1 + 1
      /\ \A i \in 1 .. k - 1 + 1 : front[i] = IF i <= k - 1 THEN before[i] ELSE <<n>>[i - (k - 1)]
  BY <1>2, SingletonSeq, ConcatProperties
<1> HIDE DEF front
<1>6. Len(front) = k /\ \A i \in 1 .. k : front[i] = IF i < k THEN s[i] ELSE n
  BY <1>1, <1>2, <1>5, SingletonSeq
<1> DEFINE whole == front \o after
<1>7. /\ whole \in Seq(Nodes)
      /\ Len(whole) = Len(front) + Len(after)
      /\ \A i \in 1 .. Len(front) + Len(after) :
           whole[i] = IF i <= Len(front) THEN front[i] ELSE after[i - Len(front)]
  BY <1>3, <1>5, ConcatProperties
<1> HIDE DEF whole
<1>8. ASSUME NEW i \in 1 .. Len(s) + 1
      PROVE  whole[i] = IF i < k THEN s[i] ELSE IF i = k THEN n ELSE s[i - 1]
  <2>1. CASE i <= k
    <3>1. whole[i] = front[i]
      BY <1>1, <1>3, <1>6, <1>7, <2>1
    <3> QED
      BY <1>1, <1>6, <2>1, <3>1
  <2>2. CASE ~(i <= k)
    <3>1. i - k \in 1 .. Len(s) - k + 1 /\ k + (i - k) - 1 = i - 1
      BY <1>1, <2>2
    <3>2. whole[i] = after[i - k]
      BY <1>1, <1>3, <1>6, <1>7, <2>2
    <3> QED
      BY <1>1, <1>3, <2>2, <3>1, <3>2
  <2> QED
    BY <2>1, <2>2
<1>9. whole \in Seq(Nodes) /\ Len(whole) = Len(s) + 1
  BY <1>1, <1>3, <1>6, <1>7
<1>10. Inserted(s, whole, k, n)
  BY <1>1, <1>8, <1>9 DEF Inserted
<1> QED
  BY <1>4, <1>10 DEF whole

\* RemoveAt leaves the position k out.
LEMMA RemoveAtRemoves ==
  ASSUME NEW s \in Seq(Nodes), NEW k \in 1 .. Len(s)
  PROVE  Removed(s, Sequence!RemoveAt(s, k), k)
<1> DEFINE before == SubSeq(s, 1, k - 1)
           after == SubSeq(s, k + 1, Len(s))
           whole == before \o after
<1>1. Len(s) \in Nat
  BY LenProperties
<1>2. before \in Seq(Nodes) /\ Len(before) = k - 1 /\ \A i \in 1 .. k - 1 : before[i] = s[i]
  BY <1>1, PrefixOfSeq
<1>3. /\ after \in Seq(Nodes)
      /\ Len(after) = Len(s) - (k + 1) + 1
      /\ \A i \in 1 .. Len(s) - (k + 1) + 1 : after[i] = s[(k + 1) + i - 1]
  <2>1. k + 1 \in 1 .. Len(s) + 1
    BY <1>1
  <2> QED
    BY <2>1, SuffixOfSeq
<1>4. Sequence!RemoveAt(s, k) = whole
  BY DEF Sequence!RemoveAt
<1> HIDE DEF before, after
<1>5. /\ whole \in Seq(Nodes)
      /\ Len(whole) = Len(before) + Len(after)
      /\ \A i \in 1 .. Len(before) + Len(after) :
           whole[i] = IF i <= Len(before) THEN before[i] ELSE after[i - Len(before)]
  BY <1>2, <1>3, ConcatProperties
<1> HIDE DEF whole
<1>6. Len(whole) = Len(s) - 1
  BY <1>1, <1>2, <1>3, <1>5
<1>7. ASSUME NEW i \in 1 .. Len(s) - 1
      PROVE  whole[i] = IF i < k THEN s[i] ELSE s[i + 1]
  <2>1. CASE i < k
    <3>1. i \in 1 .. Len(before) + Len(after) /\ i <= Len(before)
      BY <1>1, <1>2, <1>3, <2>1
    <3>2. whole[i] = before[i]
      BY <1>5, <3>1
    <3>3. i \in 1 .. k - 1
      BY <1>1, <2>1
    <3> QED
      BY <1>2, <2>1, <3>2, <3>3
  <2>2. CASE ~(i < k)
    <3>1. i - (k - 1) \in 1 .. Len(s) - (k + 1) + 1 /\ (k + 1) + (i - (k - 1)) - 1 = i + 1
      BY <1>1, <2>2
    <3>2. whole[i] = after[i - (k - 1)]
      BY <1>1, <1>2, <1>3, <1>5, <2>2
    <3> QED
      BY <1>3, <2>2, <3>1, <3>2
  <2> QED
    BY <2>1, <2>2
<1> QED
  BY <1>1, <1>4, <1>5, <1>6, <1>7 DEF Removed

-----------------------------------------------------------------------------
(***************************************************************************)
(* One list: its links stand for s.  PutAt and TakenAt are what the code   *)
(* writes, seen from the position in s where it happens.                   *)
(***************************************************************************)
Stands(l, s) ==
  /\ s \in Seq(Nodes)
  /\ \A i, j \in 1 .. Len(s) : s[i] = s[j] => i = j
  /\ head[l] = IF Len(s) = 0 THEN NULL ELSE s[1]
  /\ tail[l] = IF Len(s) = 0 THEN NULL ELSE s[Len(s)]
  /\ \A i \in 1 .. Len(s) : next[s[i]] = IF i = Len(s) THEN NULL ELSE s[i + 1]
  /\ \A i \in 1 .. Len(s) : previous[s[i]] = IF i = 1 THEN NULL ELSE s[i - 1]
  /\ entries[l] = Len(s)
  /\ \A i \in 1 .. Len(s) : owner[s[i]] = l
  /\ \A n \in Nodes : owner[n] = l => \E i \in 1 .. Len(s) : s[i] = n

\* What an operation writes when n joins l at the position k of s, or the node there leaves.
PutAt(l, s, k, n) ==
  /\ head'[l] = IF k = 1 THEN n ELSE head[l]
  /\ tail'[l] = IF k = Len(s) + 1 THEN n ELSE tail[l]
  /\ entries'[l] = entries[l] + 1
  /\ \A m \in Nodes : owner'[m] = l <=> m = n \/ owner[m] = l
  /\ next'[n] = IF k = Len(s) + 1 THEN NULL ELSE s[k]
  /\ previous'[n] = IF k = 1 THEN NULL ELSE s[k - 1]
  /\ \A m \in Nodes : owner[m] = l =>
       next'[m] = IF k > 1 /\ m = s[k - 1] THEN n ELSE next[m]
  /\ \A m \in Nodes : owner[m] = l =>
       previous'[m] = IF k <= Len(s) /\ m = s[k] THEN n ELSE previous[m]

TakenAt(l, s, k) ==
  /\ head'[l] = IF k = 1 THEN next[s[k]] ELSE head[l]
  /\ tail'[l] = IF k = Len(s) THEN previous[s[k]] ELSE tail[l]
  /\ entries'[l] = entries[l] - 1
  /\ \A m \in Nodes : owner'[m] = l <=> m # s[k] /\ owner[m] = l
  /\ \A m \in Nodes : owner[m] = l /\ m # s[k] =>
       next'[m] = IF k > 1 /\ m = s[k - 1] THEN next[s[k]] ELSE next[m]
  /\ \A m \in Nodes : owner[m] = l /\ m # s[k] =>
       previous'[m] = IF k < Len(s) /\ m = s[k + 1] THEN previous[s[k]] ELSE previous[m]

\* A list whose ends, and whose nodes, an operation leaves alone.
LEMMA UntouchedStands ==
  ASSUME NEW l \in Lists, NEW s, Stands(l, s),
         head'[l] = head[l], tail'[l] = tail[l], entries'[l] = entries[l],
         \A n \in Nodes : owner'[n] = l <=> owner[n] = l,
         \A n \in Nodes : owner[n] = l => next'[n] = next[n] /\ previous'[n] = previous[n]
  PROVE  Stands(l, s)'
<1>1. Len(s) \in Nat /\ \A i \in 1 .. Len(s) : s[i] \in Nodes
  BY LenProperties, ElementOfSeq DEF Stands
<1> QED
  BY <1>1 DEF Stands

\* A new node between the neighbours it gets.
LEMMA InsertedStands ==
  ASSUME NEW l \in Lists, NEW s, NEW r, NEW k, NEW n \in Nodes,
         Stands(l, s), Inserted(s, r, k, n), owner[n] # l, PutAt(l, s, k, n)
  PROVE  Stands(l, r)'
<1> USE DEF PutAt
<1>1. /\ Len(s) \in Nat /\ \A i \in 1 .. Len(s) : s[i] \in Nodes
      /\ Len(r) = Len(s) + 1 /\ r \in Seq(Nodes) /\ k \in 1 .. Len(s) + 1
  BY LenProperties, ElementOfSeq DEF Stands, Inserted
<1>2. \A j \in 1 .. Len(s) + 1 : r[j] = IF j < k THEN s[j] ELSE IF j = k THEN n ELSE s[j - 1]
  BY <1>1 DEF Inserted
<1>3. \A i \in 1 .. Len(s) : owner[s[i]] = l /\ s[i] # n
  BY DEF Stands
<1>4. \A i, j \in 1 .. Len(s) : s[i] = s[j] => i = j
  BY DEF Stands
<1>5. \A i \in 1 .. Len(s) : next[s[i]] = IF i = Len(s) THEN NULL ELSE s[i + 1]
  BY DEF Stands
<1>6. \A i \in 1 .. Len(s) : previous[s[i]] = IF i = 1 THEN NULL ELSE s[i - 1]
  BY DEF Stands
<1>7. \A i, j \in 1 .. Len(r) : r[i] = r[j] => i = j
  <2> SUFFICES ASSUME NEW i \in 1 .. Len(r), NEW j \in 1 .. Len(r), i < j
               PROVE  r[i] # r[j]
    BY <1>1
  <2>1. CASE j < k
    <3>1. r[i] = s[i] /\ r[j] = s[j] /\ i \in 1 .. Len(s) /\ j \in 1 .. Len(s)
      BY <1>1, <1>2, <2>1
    <3> QED
      BY <1>4, <3>1
  <2>2. CASE j = k
    BY <1>1, <1>2, <1>3, <2>2
  <2>3. CASE j > k /\ i = k
    BY <1>1, <1>2, <1>3, <2>3
  <2>4. CASE j > k /\ i < k
    <3>1. r[i] = s[i] /\ r[j] = s[j - 1] /\ i \in 1 .. Len(s) /\ j - 1 \in 1 .. Len(s) /\ i # j - 1
      BY <1>1, <1>2, <2>4
    <3> QED
      BY <1>4, <3>1
  <2>5. CASE j > k /\ i > k
    <3>1. /\ r[i] = s[i - 1] /\ r[j] = s[j - 1]
          /\ i - 1 \in 1 .. Len(s) /\ j - 1 \in 1 .. Len(s) /\ i - 1 # j - 1
      BY <1>1, <1>2, <2>5
    <3> QED
      BY <1>4, <3>1
  <2> QED
    BY <1>1, <2>1, <2>2, <2>3, <2>4, <2>5
<1>8. head'[l] = r[1] /\ tail'[l] = r[Len(r)]
  BY <1>1, <1>2 DEF Stands
<1>9. \A i \in 1 .. Len(r) : next'[r[i]] = IF i = Len(r) THEN NULL ELSE r[i + 1]
  <2> TAKE i \in 1 .. Len(r)
  <2>1. CASE i < k - 1
    <3>1. /\ i \in 1 .. Len(s) /\ i # Len(s) /\ i # Len(r) /\ i + 1 \in 1 .. Len(s) + 1
          /\ i < k /\ i + 1 < k /\ k - 1 \in 1 .. Len(s) /\ i # k - 1
      BY <1>1, <2>1
    <3>2. r[i] = s[i] /\ r[i + 1] = s[i + 1]
      BY <1>1, <1>2, <3>1
    <3>3. s[i] # s[k - 1]
      BY <1>4, <3>1
    <3>4. next'[r[i]] = next[r[i]]
      BY <1>1, <1>3, <3>1, <3>2, <3>3
    <3> QED
      BY <1>1, <1>5, <3>1, <3>2, <3>4
  <2>2. CASE i = k - 1
    <3>1. r[i] = s[k - 1] /\ r[i + 1] = n /\ i \in 1 .. Len(s) /\ k > 1 /\ i # Len(r)
      BY <1>1, <1>2, <2>2
    <3> QED
      BY <1>1, <1>3, <2>2, <3>1
  <2>3. CASE i = k
    <3>1. r[i] = n /\ (i # Len(r) => r[i + 1] = s[k]) /\ (i = Len(r) <=> k = Len(s) + 1)
      BY <1>1, <1>2, <2>3
    <3> QED
      BY <3>1
  <2>4. CASE i > k
    <3>1. /\ r[i] = s[i - 1] /\ i - 1 \in 1 .. Len(s) /\ (i = Len(r) <=> i - 1 = Len(s))
      BY <1>1, <1>2, <2>4
    <3>2. i # Len(r) => r[i + 1] = s[(i - 1) + 1]
      <4> SUFFICES ASSUME i # Len(r) PROVE r[i + 1] = s[(i - 1) + 1]
        OBVIOUS
      <4>0. i \in Nat /\ k \in Nat /\ i <= Len(s) + 1 /\ i # Len(s) + 1
        BY <1>1
      <4>1. i + 1 \in 1 .. Len(s) + 1 /\ i + 1 > k /\ (i + 1) - 1 = (i - 1) + 1
        BY <2>4, <4>0
      <4>2. r[i + 1] = s[(i + 1) - 1]
        BY <1>1, <1>2, <4>1
      <4> QED
        BY <4>1, <4>2
    <3>3. k > 1 => k - 1 \in 1 .. Len(s) /\ i - 1 # k - 1
      BY <1>1, <2>4
    <3>4. k > 1 => s[i - 1] # s[k - 1]
      BY <1>4, <3>1, <3>3
    <3>5. next'[r[i]] = next[r[i]]
      BY <1>1, <1>3, <3>1, <3>4
    <3>6. next[s[i - 1]] = IF i - 1 = Len(s) THEN NULL ELSE s[(i - 1) + 1]
      BY <1>5, <3>1
    <3> QED
      BY <3>1, <3>2, <3>5, <3>6
  <2> QED
    BY <1>1, <2>1, <2>2, <2>3, <2>4
<1>10. \A i \in 1 .. Len(r) : previous'[r[i]] = IF i = 1 THEN NULL ELSE r[i - 1]
  <2> TAKE i \in 1 .. Len(r)
  <2>1. CASE i < k
    <3>1. r[i] = s[i] /\ i \in 1 .. Len(s) /\ (i # 1 => r[i - 1] = s[i - 1])
      BY <1>1, <1>2, <2>1
    <3>2. k <= Len(s) => s[i] # s[k]
      BY <1>1, <1>4, <2>1, <3>1
    <3>3. previous'[r[i]] = previous[r[i]]
      BY <1>1, <1>3, <3>1, <3>2
    <3> QED
      BY <1>1, <1>6, <3>1, <3>3
  <2>2. CASE i = k
    <3>1. r[i] = n /\ (i # 1 => r[i - 1] = s[k - 1])
      BY <1>1, <1>2, <2>2
    <3> QED
      BY <2>2, <3>1
  <2>3. CASE i = k + 1
    <3>1. r[i] = s[k] /\ k \in 1 .. Len(s) /\ r[i - 1] = n /\ i # 1
      BY <1>1, <1>2, <2>3
    <3> QED
      BY <1>1, <1>3, <3>1
  <2>4. CASE i > k + 1
    <3>1. /\ r[i] = s[i - 1] /\ r[i - 1] = s[(i - 1) - 1] /\ i - 1 \in 1 .. Len(s)
          /\ i # 1 /\ i - 1 # 1
      BY <1>1, <1>2, <2>4
    <3>2. k <= Len(s) => s[i - 1] # s[k]
      BY <1>1, <1>4, <2>4, <3>1
    <3>3. previous'[r[i]] = previous[r[i]]
      BY <1>1, <1>3, <3>1, <3>2
    <3> QED
      BY <1>1, <1>6, <3>1, <3>3
  <2> QED
    BY <1>1, <2>1, <2>2, <2>3, <2>4
<1>11. entries'[l] = Len(r)
  BY <1>1 DEF Stands
<1>12. ASSUME NEW i \in 1 .. Len(r) PROVE owner'[r[i]] = l
  <2>1. r[i] = n \/ \E j \in 1 .. Len(s) : r[i] = s[j]
    <3>1. CASE i > k
      <4>1. i - 1 \in 1 .. Len(s) /\ r[i] = s[i - 1]
        BY <1>1, <1>2, <3>1
      <4> QED
        BY <4>1
    <3>2. CASE i <= k
      BY <1>1, <1>2, <3>2
    <3> QED
      BY <1>1, <3>1, <3>2
  <2> QED
    BY <1>1, <1>3, <2>1
<1>13. ASSUME NEW m \in Nodes, owner'[m] = l PROVE \E i \in 1 .. Len(r) : r[i] = m
  <2>1. CASE m = n
    BY <1>1, <1>2, <2>1
  <2>2. CASE m # n
    <3>1. PICK i \in 1 .. Len(s) : s[i] = m
      BY <1>13, <2>2 DEF Stands
    <3>2. CASE i < k
      BY <1>1, <1>2, <3>1, <3>2
    <3>3. CASE ~(i < k)
      <4>1. i + 1 \in 1 .. Len(r) /\ r[i + 1] = m
        BY <1>1, <1>2, <3>1, <3>3
      <4> QED
        BY <4>1
    <3> QED
      BY <3>2, <3>3
  <2> QED
    BY <2>1, <2>2
<1>14. Len(r) # 0
  BY <1>1
<1> QED
  BY <1>1, <1>7, <1>8, <1>9, <1>10, <1>11, <1>12, <1>13, <1>14 DEF Stands

\* The neighbours of a node that is taken out become each other's.
LEMMA RemovedStands ==
  ASSUME NEW l \in Lists, NEW s, NEW r, NEW k,
         Stands(l, s), Removed(s, r, k), TakenAt(l, s, k)
  PROVE  Stands(l, r)'
<1> USE DEF TakenAt
<1>1. /\ Len(s) \in Nat /\ \A i \in 1 .. Len(s) : s[i] \in Nodes
      /\ Len(r) = Len(s) - 1 /\ r \in Seq(Nodes) /\ k \in 1 .. Len(s)
  BY LenProperties, ElementOfSeq DEF Stands, Removed
<1>2. \A j \in 1 .. Len(r) : r[j] = IF j < k THEN s[j] ELSE s[j + 1]
  BY <1>1 DEF Removed
<1>3. /\ \A i \in 1 .. Len(s) : owner[s[i]] = l /\ (s[i] = s[k] => i = k)
      /\ next[s[k]] = IF k = Len(s) THEN NULL ELSE s[k + 1]
      /\ previous[s[k]] = IF k = 1 THEN NULL ELSE s[k - 1]
  BY <1>1 DEF Stands
<1>4. \A i, j \in 1 .. Len(s) : s[i] = s[j] => i = j
  BY DEF Stands
<1>5. \A i \in 1 .. Len(s) : next[s[i]] = IF i = Len(s) THEN NULL ELSE s[i + 1]
  BY DEF Stands
<1>6. \A i \in 1 .. Len(s) : previous[s[i]] = IF i = 1 THEN NULL ELSE s[i - 1]
  BY DEF Stands
<1>7. \A i, j \in 1 .. Len(r) : r[i] = r[j] => i = j
  <2> SUFFICES ASSUME NEW i \in 1 .. Len(r), NEW j \in 1 .. Len(r), i < j
               PROVE  r[i] # r[j]
    BY <1>1
  <2>1. CASE j < k
    <3>1. r[i] = s[i] /\ r[j] = s[j] /\ i \in 1 .. Len(s) /\ j \in 1 .. Len(s)
      BY <1>1, <1>2, <2>1
    <3> QED
      BY <1>4, <3>1
  <2>2. CASE j >= k /\ i < k
    <3>1. r[i] = s[i] /\ r[j] = s[j + 1] /\ i \in 1 .. Len(s) /\ j + 1 \in 1 .. Len(s) /\ i # j + 1
      BY <1>1, <1>2, <2>2
    <3> QED
      BY <1>4, <3>1
  <2>3. CASE i >= k
    <3>1. /\ r[i] = s[i + 1] /\ r[j] = s[j + 1]
          /\ i + 1 \in 1 .. Len(s) /\ j + 1 \in 1 .. Len(s) /\ i + 1 # j + 1
      BY <1>1, <1>2, <2>3
    <3> QED
      BY <1>4, <3>1
  <2> QED
    BY <1>1, <2>1, <2>2, <2>3
<1>8. /\ head'[l] = IF Len(r) = 0 THEN NULL ELSE r[1]
      /\ tail'[l] = IF Len(r) = 0 THEN NULL ELSE r[Len(r)]
  <2>1. /\ head'[l] = IF k = 1 THEN next[s[k]] ELSE s[1]
        /\ tail'[l] = IF k = Len(s) THEN previous[s[k]] ELSE s[Len(s)]
    BY <1>1 DEF Stands
  <2>0. Len(s) \in Nat /\ k \in 1 .. Len(s) /\ Len(r) = Len(s) - 1
    BY <1>1
  <2> HIDE DEF TakenAt
  <2>2. CASE Len(r) = 0
    <3>1. Len(s) = 1
      BY <2>0, <2>2
    <3>2. k = 1 /\ k = Len(s)
      BY <2>0, <3>1
    <3> QED
      BY <1>3, <2>1, <2>2, <3>2
  <2>3. CASE Len(r) # 0
    <3>1. 1 \in 1 .. Len(r) /\ Len(r) \in 1 .. Len(r)
      BY <2>0, <2>3
    <3>2. /\ r[1] = IF k = 1 THEN s[2] ELSE s[1]
          /\ r[Len(r)] = IF k = Len(s) THEN s[Len(s) - 1] ELSE s[Len(s)]
      BY <1>1, <1>2, <3>1
    <3>3. CASE k = 1
      BY <1>1, <1>3, <2>1, <2>3, <3>2, <3>3
    <3>4. CASE k = Len(s) /\ k # 1
      BY <1>1, <1>3, <2>1, <2>3, <3>2, <3>4
    <3>5. CASE k # 1 /\ k # Len(s)
      BY <2>1, <2>3, <3>2, <3>5
    <3> QED
      BY <3>3, <3>4, <3>5
  <2> QED
    BY <2>2, <2>3
<1>9. \A i \in 1 .. Len(r) : next'[r[i]] = IF i = Len(r) THEN NULL ELSE r[i + 1]
  <2> TAKE i \in 1 .. Len(r)
  <2>1. CASE i < k - 1
    <3>1. /\ r[i] = s[i] /\ r[i + 1] = s[i + 1] /\ i \in 1 .. Len(s) /\ i # Len(s) /\ i # Len(r)
          /\ k - 1 \in 1 .. Len(s) /\ i # k - 1 /\ i # k
      BY <1>1, <1>2, <2>1
    <3>2. s[i] # s[k - 1] /\ s[i] # s[k]
      BY <1>1, <1>4, <3>1
    <3>3. next'[r[i]] = next[r[i]]
      BY <1>1, <1>3, <3>1, <3>2
    <3> QED
      BY <1>1, <1>5, <3>1, <3>3
  <2>2. CASE i = k - 1
    <3>1. /\ r[i] = s[k - 1] /\ i \in 1 .. Len(s) /\ k > 1 /\ i # k
          /\ (i # Len(r) => r[i + 1] = s[k + 1]) /\ (i = Len(r) <=> k = Len(s))
      BY <1>1, <1>2, <2>2
    <3>2. s[i] # s[k]
      BY <1>1, <1>4, <3>1
    <3> QED
      BY <1>1, <1>3, <2>2, <3>1, <3>2
  <2>3. CASE i > k - 1
    <3>1. /\ r[i] = s[i + 1] /\ i + 1 \in 1 .. Len(s) /\ (i = Len(r) <=> i + 1 = Len(s))
          /\ (i # Len(r) => r[i + 1] = s[(i + 1) + 1]) /\ i + 1 # k
      BY <1>1, <1>2, <2>3
    <3>2. k > 1 => k - 1 \in 1 .. Len(s) /\ i + 1 # k - 1
      BY <1>1, <2>3
    <3>3. s[i + 1] # s[k] /\ (k > 1 => s[i + 1] # s[k - 1])
      BY <1>1, <1>4, <3>1, <3>2
    <3>4. next'[r[i]] = next[r[i]]
      BY <1>1, <1>3, <3>1, <3>3
    <3> QED
      BY <1>1, <1>5, <3>1, <3>4
  <2> QED
    BY <1>1, <2>1, <2>2, <2>3
<1>10. \A i \in 1 .. Len(r) : previous'[r[i]] = IF i = 1 THEN NULL ELSE r[i - 1]
  <2> TAKE i \in 1 .. Len(r)
  <2>1. CASE i < k
    <3>1. r[i] = s[i] /\ i \in 1 .. Len(s) /\ (i # 1 => r[i - 1] = s[i - 1]) /\ i # k
      BY <1>1, <1>2, <2>1
    <3>2. k < Len(s) => k + 1 \in 1 .. Len(s) /\ i # k + 1
      BY <1>1, <2>1
    <3>3. s[i] # s[k] /\ (k < Len(s) => s[i] # s[k + 1])
      BY <1>1, <1>4, <3>1, <3>2
    <3>4. previous'[r[i]] = previous[r[i]]
      BY <1>1, <1>3, <3>1, <3>3
    <3> QED
      BY <1>1, <1>6, <3>1, <3>4
  <2>2. CASE i = k
    <3>1. /\ r[i] = s[k + 1] /\ k + 1 \in 1 .. Len(s) /\ k < Len(s) /\ k + 1 # k
          /\ (i # 1 => r[i - 1] = s[k - 1])
      BY <1>1, <1>2, <2>2
    <3>2. s[k + 1] # s[k]
      BY <1>1, <1>4, <3>1
    <3> QED
      BY <1>1, <1>3, <2>2, <3>1, <3>2
  <2>3. CASE i > k
    <3>1. /\ r[i] = s[i + 1] /\ r[i - 1] = s[(i + 1) - 1] /\ i + 1 \in 1 .. Len(s)
          /\ i # 1 /\ i + 1 # 1 /\ i + 1 # k
      BY <1>1, <1>2, <2>3
    <3>2. k < Len(s) => k + 1 \in 1 .. Len(s) /\ i + 1 # k + 1
      BY <1>1, <2>3
    <3>3. s[i + 1] # s[k] /\ (k < Len(s) => s[i + 1] # s[k + 1])
      BY <1>1, <1>4, <3>1, <3>2
    <3>4. previous'[r[i]] = previous[r[i]]
      BY <1>1, <1>3, <3>1, <3>3
    <3> QED
      BY <1>1, <1>6, <3>1, <3>4
  <2> QED
    BY <1>1, <2>1, <2>2, <2>3
<1>11. entries'[l] = Len(r)
  BY <1>1 DEF Stands
<1>12. \A i \in 1 .. Len(r) : owner'[r[i]] = l
  BY <1>1, <1>2, <1>3
<1>13. ASSUME NEW m \in Nodes, owner'[m] = l PROVE \E i \in 1 .. Len(r) : r[i] = m
  <2>1. PICK i \in 1 .. Len(s) : s[i] = m /\ i # k
    BY <1>13 DEF Stands
  <2>2. CASE i < k
    BY <1>1, <1>2, <2>1, <2>2
  <2>3. CASE ~(i < k)
    <3>1. i - 1 \in 1 .. Len(r) /\ r[i - 1] = m
      BY <1>1, <1>2, <2>1, <2>3
    <3> QED
      BY <3>1
  <2> QED
    BY <2>2, <2>3
<1> QED
  BY <1>1, <1>7, <1>8, <1>9, <1>10, <1>11, <1>12, <1>13 DEF Stands

-----------------------------------------------------------------------------
(***************************************************************************)
(* Every list, and the operations of list.c.                               *)
(***************************************************************************)
ItemsStand == items \in [Lists -> Seq(Nodes)] /\ \A l \in Lists : Stands(l, items[l])

\* n joins, or leaves, the sequence of l somewhere.
Joins(l, n) ==
  \E r, k : Inserted(items[l], r, k, n) /\ items' = [items EXCEPT ![l] = r]

Leaves(l, n) ==
  \E r, k : Removed(items[l], r, k) /\ items[l][k] = n /\ items' = [items EXCEPT ![l] = r]

\* What one list gets is told apart from what the others keep.
LEMMA OneListMoves ==
  ASSUME ItemsStand, NEW l \in Lists, NEW r \in Seq(Nodes),
         items' = [items EXCEPT ![l] = r],
         Stands(l, r)',
         \A m \in Lists \ {l} : Stands(m, items[m])'
  PROVE  ItemsStand'
BY DEF ItemsStand

\* The elements of a sequence are nodes of its list.
LEMMA MembersOfItems ==
  ASSUME ItemsStand, NEW l \in Lists
  PROVE  /\ items[l] \in Seq(Nodes) /\ Len(items[l]) \in Nat
         /\ \A i \in 1 .. Len(items[l]) : items[l][i] \in Nodes /\ owner[items[l][i]] = l
BY LenProperties, ElementOfSeq DEF ItemsStand, Stands

\* f_list_append at the head, beside what Prepend does.
LEMMA AppendHeadStands ==
  ASSUME ListInv, ItemsStand, NEW l \in Lists, NEW n \in Nodes,
         owner[n] = NULL, AppendHead(l, n), Owned(l, n),
         items' = [items EXCEPT ![l] = <<n>> \o @]
  PROVE  ItemsStand' /\ Joins(l, n)
<1> USE ListAssumption DEF AppendHead, Owned, ListInv, TypeOK
<1>1. PICK s : s = items[l]
  OBVIOUS
<1>2. /\ s \in Seq(Nodes) /\ Len(s) \in Nat /\ Stands(l, s)
      /\ \A i \in 1 .. Len(s) : s[i] \in Nodes /\ owner[s[i]] = l
  BY <1>1, MembersOfItems DEF ItemsStand
<1>3. PICK r : r = <<n>> \o s
  OBVIOUS
<1>4. PICK k : k = 1
  OBVIOUS
<1>5. Inserted(s, r, k, n) /\ r \in Seq(Nodes)
  BY <1>2, <1>3, <1>4, PrependInserts DEF Inserted
<1>6. PutAt(l, s, k, n)
  <2>1. (Len(s) = 0 <=> k = Len(s) + 1) /\ (Len(s) # 0 => 1 \in 1 .. Len(s))
    BY <1>2, <1>4
  <2>2. (head[l] = NULL <=> Len(s) = 0) /\ (Len(s) # 0 => head[l] = s[1])
    BY <1>2, <2>1 DEF Stands
  <2>3. tail'[l] = IF k = Len(s) + 1 THEN n ELSE tail[l]
    BY <2>1, <2>2
  <2>4. next'[n] = IF k = Len(s) + 1 THEN NULL ELSE s[k]
    BY <1>4, <2>1, <2>2
  <2>5. previous'[n] = NULL
    BY DEF LinksAgree, NeighboursAgree, EndsAgree
  <2>6. \A m \in Nodes : owner[m] = l =>
          previous'[m] = IF k <= Len(s) /\ m = s[k] THEN n ELSE previous[m]
    BY <1>2, <1>4, <2>2
  <2> QED
    BY <1>4, <2>3, <2>4, <2>5, <2>6 DEF PutAt
<1>7. ASSUME NEW m \in Lists \ {l} PROVE Stands(m, items[m])'
  <2>1. PICK t : t = items[m] /\ Stands(m, t)
    BY DEF ItemsStand
  <2>2. \A x \in Nodes : owner[x] = m => next'[x] = next[x] /\ previous'[x] = previous[x]
    BY DEF LinksAgree, EndsAgree
  <2>3. /\ head'[m] = head[m] /\ tail'[m] = tail[m] /\ entries'[m] = entries[m]
        /\ \A x \in Nodes : owner'[x] = m <=> owner[x] = m
    OBVIOUS
  <2>4. Stands(m, t)'
    BY <2>1, <2>2, <2>3, UntouchedStands
  <2> QED
    BY <2>1, <2>4 DEF ItemsStand
<1>8. ItemsStand'
  BY <1>1, <1>2, <1>3, <1>5, <1>6, <1>7, InsertedStands, OneListMoves
<1>9. Joins(l, n)
  BY <1>1, <1>3, <1>5 DEF Joins
<1> QED
  BY <1>8, <1>9

\* f_list_append at the tail, beside what AppendLast does.
LEMMA AppendTailStands ==
  ASSUME ListInv, ItemsStand, NEW l \in Lists, NEW n \in Nodes,
         owner[n] = NULL, AppendTail(l, n), Owned(l, n),
         items' = [items EXCEPT ![l] = Append(@, n)]
  PROVE  ItemsStand' /\ Joins(l, n)
<1> USE ListAssumption DEF AppendTail, Owned, ListInv, TypeOK
<1>1. PICK s : s = items[l]
  OBVIOUS
<1>2. /\ s \in Seq(Nodes) /\ Len(s) \in Nat /\ Stands(l, s)
      /\ \A i \in 1 .. Len(s) : s[i] \in Nodes /\ owner[s[i]] = l
  BY <1>1, MembersOfItems DEF ItemsStand
<1>3. PICK r : r = Append(s, n)
  OBVIOUS
<1>4. PICK k : k = Len(s) + 1
  OBVIOUS
<1>5. Inserted(s, r, k, n) /\ r \in Seq(Nodes)
  BY <1>2, <1>3, <1>4, AppendInserts DEF Inserted
<1>6. PutAt(l, s, k, n)
  <2>1. /\ Len(s) = 0 <=> k = 1
        /\ Len(s) # 0 => Len(s) \in 1 .. Len(s) /\ k > 1 /\ k - 1 = Len(s)
        /\ ~(k <= Len(s))
    BY <1>2, <1>4
  <2>2. (tail[l] = NULL <=> Len(s) = 0) /\ (Len(s) # 0 => tail[l] = s[Len(s)])
    BY <1>2, <2>1 DEF Stands
  <2>3. head'[l] = IF k = 1 THEN n ELSE head[l]
    BY <2>1, <2>2
  <2>4. previous'[n] = IF k = 1 THEN NULL ELSE s[k - 1]
    BY <2>1, <2>2
  <2>5. next'[n] = NULL
    BY DEF LinksAgree, NeighboursAgree, EndsAgree
  <2>6. \A m \in Nodes : owner[m] = l =>
          next'[m] = IF k > 1 /\ m = s[k - 1] THEN n ELSE next[m]
    BY <1>2, <1>4, <2>1, <2>2
  <2> QED
    BY <1>4, <2>1, <2>3, <2>4, <2>5, <2>6 DEF PutAt
<1>7. ASSUME NEW m \in Lists \ {l} PROVE Stands(m, items[m])'
  <2>1. PICK t : t = items[m] /\ Stands(m, t)
    BY DEF ItemsStand
  <2>2. \A x \in Nodes : owner[x] = m => next'[x] = next[x] /\ previous'[x] = previous[x]
    BY DEF LinksAgree, EndsAgree
  <2>3. /\ head'[m] = head[m] /\ tail'[m] = tail[m] /\ entries'[m] = entries[m]
        /\ \A x \in Nodes : owner'[x] = m <=> owner[x] = m
    OBVIOUS
  <2>4. Stands(m, t)'
    BY <2>1, <2>2, <2>3, UntouchedStands
  <2> QED
    BY <2>1, <2>4 DEF ItemsStand
<1>8. ItemsStand'
  BY <1>1, <1>2, <1>3, <1>5, <1>6, <1>7, InsertedStands, OneListMoves
<1>9. Joins(l, n)
  BY <1>1, <1>3, <1>5 DEF Joins
<1> QED
  BY <1>8, <1>9

\* The position of a node in the list it is in.
LEMMA PositionInItems ==
  ASSUME ItemsStand, NEW l \in Lists, NEW n \in Nodes, owner[n] = l
  PROVE  /\ Sequence!PositionOf(l, n) \in 1 .. Len(items[l])
         /\ items[l][Sequence!PositionOf(l, n)] = n
<1>1. DOMAIN items[l] = 1 .. Len(items[l])
  BY LenProperties DEF ItemsStand
<1>2. \E i \in 1 .. Len(items[l]) : items[l][i] = n
  BY DEF ItemsStand, Stands
<1> QED
  BY <1>1, <1>2 DEF Sequence!PositionOf

\* f_list_insert between two neighbours, beside what InsertAfter does.
LEMMA SpliceStands ==
  ASSUME ListInv, ItemsStand, NEW l \in Lists, NEW n \in Nodes, NEW p \in Nodes,
         owner[p] = l, next[p] # NULL, Splice(l, n, p),
         items' = [items EXCEPT ![l] = Sequence!InsertAt(@, Sequence!PositionOf(l, p) + 1, n)]
  PROVE  ItemsStand' /\ Joins(l, n)
<1> USE ListAssumption DEF Splice, Owned, ListInv, TypeOK
<1>1. PICK s : s = items[l]
  OBVIOUS
<1>2. /\ s \in Seq(Nodes) /\ Len(s) \in Nat /\ Stands(l, s)
      /\ \A i \in 1 .. Len(s) : s[i] \in Nodes /\ owner[s[i]] = l
  BY <1>1, MembersOfItems DEF ItemsStand
<1>3. PICK k : k = Sequence!PositionOf(l, p) + 1
  OBVIOUS
<1>4. k - 1 \in 1 .. Len(s) /\ s[k - 1] = p /\ k \in 2 .. Len(s) + 1
  BY <1>1, <1>2, <1>3, PositionInItems
<1>5. PICK r : r = Sequence!InsertAt(s, k, n)
  OBVIOUS
<1>6. Inserted(s, r, k, n) /\ r \in Seq(Nodes)
  BY <1>2, <1>4, <1>5, InsertAtInserts DEF Inserted
<1>7. k # Len(s) + 1 /\ k \in 1 .. Len(s) /\ next[p] = s[k] /\ next[p] \in Nodes
  BY <1>2, <1>4 DEF Stands
<1>8. PutAt(l, s, k, n)
  <2>1. k # 1 /\ k > 1 /\ k <= Len(s)
    BY <1>2, <1>4, <1>7
  <2>2. p # n /\ next[p] # n
    BY DEF LinksAgree, NeighboursAgree
  <2>3. next'[n] = s[k] /\ previous'[n] = s[k - 1]
    BY <1>4, <1>7, <2>2
  <2>4. \A m \in Nodes : owner[m] = l => next'[m] = IF m = s[k - 1] THEN n ELSE next[m]
    BY <1>4
  <2>5. \A m \in Nodes : owner[m] = l => previous'[m] = IF m = s[k] THEN n ELSE previous[m]
    BY <1>7
  <2> QED
    BY <1>7, <2>1, <2>3, <2>4, <2>5 DEF PutAt
<1>9. ASSUME NEW m \in Lists \ {l} PROVE Stands(m, items[m])'
  <2>1. PICK t : t = items[m] /\ Stands(m, t)
    BY DEF ItemsStand
  <2>2. \A x \in Nodes : owner[x] = m => next'[x] = next[x] /\ previous'[x] = previous[x]
    BY DEF LinksAgree, NeighboursAgree
  <2>3. /\ head'[m] = head[m] /\ tail'[m] = tail[m] /\ entries'[m] = entries[m]
        /\ \A x \in Nodes : owner'[x] = m <=> owner[x] = m
    OBVIOUS
  <2>4. Stands(m, t)'
    BY <2>1, <2>2, <2>3, UntouchedStands
  <2> QED
    BY <2>1, <2>4 DEF ItemsStand
<1>10. items' = [items EXCEPT ![l] = r] /\ owner[n] # l
  BY <1>1, <1>3, <1>5
<1>11. ItemsStand'
  BY <1>2, <1>6, <1>8, <1>9, <1>10, InsertedStands, OneListMoves
<1>12. Joins(l, n)
  BY <1>1, <1>6, <1>10 DEF Joins
<1> QED
  BY <1>11, <1>12

\* f_list_remove, beside what Take does.
LEMMA RemoveStands ==
  ASSUME ListInv, ItemsStand, NEW l \in Lists, NEW n \in Nodes, f_list_remove(l, n),
         items' = [items EXCEPT ![l] = Sequence!RemoveAt(@, Sequence!PositionOf(l, n))]
  PROVE  ItemsStand' /\ Leaves(l, n)
<1> USE ListAssumption DEF f_list_remove, ListInv, TypeOK
<1>1. PICK s : s = items[l]
  OBVIOUS
<1>2. /\ s \in Seq(Nodes) /\ Len(s) \in Nat /\ Stands(l, s)
      /\ \A i \in 1 .. Len(s) : s[i] \in Nodes /\ owner[s[i]] = l
  BY <1>1, MembersOfItems DEF ItemsStand
<1>3. PICK k : k = Sequence!PositionOf(l, n)
  OBVIOUS
<1>4. k \in 1 .. Len(s) /\ s[k] = n
  BY <1>1, <1>3, PositionInItems
<1>5. PICK r : r = Sequence!RemoveAt(s, k)
  OBVIOUS
<1>6. Removed(s, r, k) /\ r \in Seq(Nodes)
  BY <1>2, <1>4, <1>5, RemoveAtRemoves DEF Removed
<1>7. /\ next[n] = IF k = Len(s) THEN NULL ELSE s[k + 1]
      /\ previous[n] = IF k = 1 THEN NULL ELSE s[k - 1]
  BY <1>2, <1>4 DEF Stands
<1>8. /\ k # Len(s) => k + 1 \in 1 .. Len(s) /\ k < Len(s)
      /\ k # 1 => k - 1 \in 1 .. Len(s) /\ k > 1
      /\ k = Len(s) => ~(k < Len(s))
      /\ k = 1 => ~(k > 1)
  BY <1>2, <1>4
<1>9. (next[n] = NULL <=> k = Len(s)) /\ (previous[n] = NULL <=> k = 1)
  BY <1>2, <1>7, <1>8
<1>10. TakenAt(l, s, k)
  <2>1. head'[l] = IF k = 1 THEN next[s[k]] ELSE head[l]
    BY <1>4, <1>9
  <2>2. tail'[l] = IF k = Len(s) THEN previous[s[k]] ELSE tail[l]
    BY <1>4, <1>9
  <2>3. \A m \in Nodes : owner'[m] = l <=> m # s[k] /\ owner[m] = l
    BY <1>4
  <2>4. \A m \in Nodes : owner[m] = l /\ m # s[k] =>
          next'[m] = IF k > 1 /\ m = s[k - 1] THEN next[s[k]] ELSE next[m]
    BY <1>4, <1>7, <1>8, <1>9
  <2>5. \A m \in Nodes : owner[m] = l /\ m # s[k] =>
          previous'[m] = IF k < Len(s) /\ m = s[k + 1] THEN previous[s[k]] ELSE previous[m]
    BY <1>4, <1>7, <1>8, <1>9
  <2> QED
    BY <2>1, <2>2, <2>3, <2>4, <2>5 DEF TakenAt
<1>11. ASSUME NEW m \in Lists \ {l} PROVE Stands(m, items[m])'
  <2>1. PICK t : t = items[m] /\ Stands(m, t)
    BY DEF ItemsStand
  <2>2. \A x \in Nodes : owner[x] = m => next'[x] = next[x] /\ previous'[x] = previous[x]
    BY DEF LinksAgree, NeighboursAgree
  <2>3. /\ head'[m] = head[m] /\ tail'[m] = tail[m] /\ entries'[m] = entries[m]
        /\ \A x \in Nodes : owner'[x] = m <=> owner[x] = m
    OBVIOUS
  <2>4. Stands(m, t)'
    BY <2>1, <2>2, <2>3, UntouchedStands
  <2> QED
    BY <2>1, <2>4 DEF ItemsStand
<1>12. items' = [items EXCEPT ![l] = r]
  BY <1>1, <1>3, <1>5
<1>13. ItemsStand'
  BY <1>2, <1>6, <1>10, <1>11, <1>12, RemovedStands, OneListMoves
<1>14. Leaves(l, n)
  BY <1>1, <1>4, <1>6, <1>12 DEF Leaves
<1> QED
  BY <1>13, <1>14

\* The order of the nodes that stay in a list does not change.
LEMMA InsertedKeepsOrder ==
  ASSUME NEW s \in Seq(Nodes), NEW r, NEW k, NEW n, Inserted(s, r, k, n),
         NEW i \in 1 .. Len(r), NEW j \in 1 .. Len(r), r[i] # n, r[j] # n
  PROVE  \E a, b \in 1 .. Len(s) : s[a] = r[i] /\ s[b] = r[j] /\ (a < b <=> i < j)
<1>1. /\ Len(s) \in Nat /\ k \in 1 .. Len(s) + 1 /\ Len(r) = Len(s) + 1 /\ i # k /\ j # k
      /\ r[i] = IF i < k THEN s[i] ELSE s[i - 1]
      /\ r[j] = IF j < k THEN s[j] ELSE s[j - 1]
  BY LenProperties DEF Inserted
<1> DEFINE a == IF i < k THEN i ELSE i - 1
           b == IF j < k THEN j ELSE j - 1
<1>2. a \in 1 .. Len(s) /\ b \in 1 .. Len(s) /\ (a < b <=> i < j)
  BY <1>1
<1>3. s[a] = r[i] /\ s[b] = r[j]
  BY <1>1
<1> QED
  BY <1>2, <1>3

\* Nor does it when a node leaves.
LEMMA RemovedKeepsOrder ==
  ASSUME NEW s \in Seq(Nodes), NEW r, NEW k, Removed(s, r, k),
         NEW i \in 1 .. Len(r), NEW j \in 1 .. Len(r)
  PROVE  \E a, b \in 1 .. Len(s) : s[a] = r[i] /\ s[b] = r[j] /\ (a < b <=> i < j)
<1>1. /\ Len(s) \in Nat /\ k \in 1 .. Len(s) /\ Len(r) = Len(s) - 1
      /\ r[i] = IF i < k THEN s[i] ELSE s[i + 1]
      /\ r[j] = IF j < k THEN s[j] ELSE s[j + 1]
  BY LenProperties DEF Removed
<1> DEFINE a == IF i < k THEN i ELSE i + 1
           b == IF j < k THEN j ELSE j + 1
<1>2. a \in 1 .. Len(s) /\ b \in 1 .. Len(s) /\ (a < b <=> i < j)
  BY <1>1
<1>3. s[a] = r[i] /\ s[b] = r[j]
  BY <1>1
<1> QED
  BY <1>2, <1>3

WalkTyped ==
  walk \in [over : Lists \cup {NULL}, node : Nodes \cup {NULL},
            visited : SUBSET Nodes, stayed : SUBSET Nodes, torn : BOOLEAN]

\* While a walk is not torn, what it has visited of the nodes that stayed is what comes before
\* the node it stands on, and everything once it stands on none.
WalkSplits ==
  walk.over # NULL =>
    /\ \A m \in walk.stayed : owner[m] = walk.over
    /\ ~walk.torn =>
         /\ walk.node = NULL => walk.stayed \subseteq walk.visited
         /\ walk.node # NULL => owner[walk.node] = walk.over
         /\ \A i, k \in 1 .. Len(items[walk.over]) :
              items[walk.over][k] = walk.node /\ items[walk.over][i] \in walk.stayed =>
                (items[walk.over][i] \in walk.visited <=> i < k)

WalkInv ==
  /\ WalkTyped
  /\ walk.over = NULL => walk.node = NULL
  /\ WalkSplits

\* A list that the walk does not look at, or that does not change.
LEMMA UntouchedWalk ==
  ASSUME WalkInv, UNCHANGED walk,
         walk.over # NULL => /\ items'[walk.over] = items[walk.over]
                             /\ \A m \in Nodes : owner[m] = walk.over => owner'[m] = walk.over
  PROVE  WalkInv'
<1>1. WalkTyped' /\ (walk.over = NULL => walk.node = NULL)'
  BY DEF WalkInv, WalkTyped
<1>2. WalkSplits'
  <2> SUFFICES ASSUME walk.over # NULL PROVE WalkSplits'
    BY DEF WalkSplits
  <2>1. \A m \in walk.stayed : m \in Nodes /\ owner[m] = walk.over
    BY DEF WalkInv, WalkTyped, WalkSplits
  <2>2. walk.node # NULL => walk.node \in Nodes
    BY DEF WalkInv, WalkTyped
  <2> QED
    BY <2>1, <2>2 DEF WalkInv, WalkSplits
<1> QED
  BY <1>1, <1>2 DEF WalkInv

\* A node that joins is not one that stayed, and the others keep their order.
LEMMA JoiningKeepsWalk ==
  ASSUME ListInv, ItemsStand, WalkInv, NEW l \in Lists, NEW n \in Nodes,
         owner[n] = NULL, owner' = [owner EXCEPT ![n] = l], Joins(l, n), UNCHANGED walk
  PROVE  WalkInv'
<1> USE ListAssumption
<1>1. PICK r, k : Inserted(items[l], r, k, n) /\ items' = [items EXCEPT ![l] = r]
  BY DEF Joins
<1>2. \A m \in Nodes : owner[m] # NULL => owner'[m] = owner[m] /\ m # n
  OBVIOUS
<1>3. CASE walk.over # l
  <2>1. walk.over # NULL => items'[walk.over] = items[walk.over]
    BY <1>1, <1>3 DEF ItemsStand, WalkInv, WalkTyped
  <2> QED
    BY <1>2, <2>1, UntouchedWalk
<1>4. CASE walk.over = l
  <2>1. WalkTyped' /\ (walk.over = NULL => walk.node = NULL)'
    BY DEF WalkInv, WalkTyped
  <2>2. \A m \in walk.stayed : m \in Nodes /\ owner[m] = l /\ m # n /\ owner'[m] = l
    BY <1>2, <1>4 DEF WalkInv, WalkTyped, WalkSplits
  <2>3. walk.node # NULL => walk.node \in Nodes
    BY DEF WalkInv, WalkTyped
  <2>4. ~walk.torn /\ walk.node # NULL =>
          owner[walk.node] = l /\ owner'[walk.node] = l /\ walk.node # n
    BY <1>2, <1>4, <2>3 DEF WalkInv, WalkSplits
  <2>5. items'[l] = r
    BY <1>1 DEF ItemsStand
  <2>6. ASSUME ~walk.torn, NEW i \in 1 .. Len(r), NEW j \in 1 .. Len(r),
               r[j] = walk.node, r[i] \in walk.stayed
        PROVE  r[i] \in walk.visited <=> i < j
    <3>1. r[j] \in Nodes
      BY <1>1, ElementOfSeq DEF Inserted
    <3>2. r[i] # n /\ r[j] # n
      BY <2>2, <2>4, <2>6, <3>1
    <3>3. PICK a, b \in 1 .. Len(items[l]) :
            items[l][a] = r[i] /\ items[l][b] = r[j] /\ (a < b <=> i < j)
      BY <1>1, <3>2, InsertedKeepsOrder DEF ItemsStand
    <3> QED
      BY <1>4, <2>6, <3>3 DEF WalkInv, WalkSplits
  <2>7. WalkSplits'
    BY <1>4, <2>2, <2>4, <2>5, <2>6 DEF WalkInv, WalkSplits
  <2> QED
    BY <2>1, <2>7 DEF WalkInv
<1> QED
  BY <1>3, <1>4

\* A node that leaves is no longer one that stayed, and tears the walk that stands on it.
LEMMA LeavingKeepsWalk ==
  ASSUME ListInv, ItemsStand, WalkInv, NEW l \in Lists, NEW n \in Nodes,
         owner[n] = l, owner' = [owner EXCEPT ![n] = NULL], Leaves(l, n), LeavesWalk(n)
  PROVE  WalkInv'
<1> USE ListAssumption
<1>1. PICK r, k : Removed(items[l], r, k) /\ items[l][k] = n /\ items' = [items EXCEPT ![l] = r]
  BY DEF Leaves
<1>2. \A m \in Nodes : m # n => owner'[m] = owner[m]
  OBVIOUS
<1>3. /\ walk'.over = walk.over /\ walk'.node = walk.node /\ walk'.visited = walk.visited
      /\ walk'.stayed = walk.stayed \ {n} /\ walk'.torn = (walk.torn \/ walk.node = n)
  BY DEF LeavesWalk, WalkInv, WalkTyped
<1>4. WalkTyped' /\ (walk.over = NULL => walk.node = NULL)'
  BY DEF LeavesWalk, WalkInv, WalkTyped
<1>5. ASSUME walk.over # NULL PROVE \A m \in walk'.stayed : owner'[m] = walk.over
  BY <1>2, <1>3, <1>5 DEF WalkInv, WalkTyped, WalkSplits
<1>6. ASSUME walk.over # NULL, ~walk'.torn, walk.node # NULL PROVE owner'[walk.node] = walk.over
  BY <1>2, <1>3, <1>6 DEF WalkInv, WalkTyped, WalkSplits
<1>7. ASSUME walk.over # NULL, ~walk'.torn,
             NEW i \in 1 .. Len(items'[walk.over]), NEW j \in 1 .. Len(items'[walk.over]),
             items'[walk.over][j] = walk.node, items'[walk.over][i] \in walk'.stayed
      PROVE  items'[walk.over][i] \in walk.visited <=> i < j
  <2>1. CASE walk.over = l
    <3>1. items'[walk.over] = r
      BY <1>1, <2>1 DEF ItemsStand
    <3>2. PICK a, b \in 1 .. Len(items[l]) :
            items[l][a] = r[i] /\ items[l][b] = r[j] /\ (a < b <=> i < j)
      BY <1>1, <1>7, <3>1, RemovedKeepsOrder DEF ItemsStand
    <3> QED
      BY <1>3, <1>7, <2>1, <3>1, <3>2 DEF WalkInv, WalkSplits
  <2>2. CASE walk.over # l
    <3>1. items'[walk.over] = items[walk.over]
      BY <1>1, <2>2 DEF ItemsStand, WalkInv, WalkTyped
    <3> QED
      BY <1>3, <1>7, <3>1 DEF WalkInv, WalkSplits
  <2> QED
    BY <2>1, <2>2
<1>8. walk.over # NULL /\ ~walk'.torn /\ walk.node = NULL => walk'.stayed \subseteq walk.visited
  BY <1>3 DEF WalkInv, WalkSplits
<1>9. WalkSplits'
  BY <1>3, <1>5, <1>6, <1>7, <1>8 DEF WalkSplits
<1> QED
  BY <1>4, <1>9 DEF WalkInv

\* A walk starts before everything.
LEMMA StartingKeepsWalk ==
  ASSUME ListInv, ItemsStand, WalkInv, NEW l \in Lists, WalkStart(l)
  PROVE  WalkInv'
<1> USE ListAssumption
<1>1. PICK s : s = items[l] /\ Stands(l, s)
  BY DEF ItemsStand
<1>2. /\ walk'.over = l /\ walk'.node = head[l] /\ walk'.visited = {} /\ walk'.torn = FALSE
      /\ walk'.stayed = {n \in Nodes : owner[n] = l} /\ items' = items /\ owner' = owner
  BY DEF WalkStart, links
<1>3. WalkTyped' /\ (walk.over = NULL => walk.node = NULL)'
  BY DEF WalkStart, WalkTyped, ListInv, TypeOK
<1>4. Len(s) \in Nat /\ \A i \in 1 .. Len(s) : s[i] \in Nodes /\ owner[s[i]] = l
  BY <1>1, MembersOfItems
<1>5. head[l] = NULL => walk'.stayed = {}
  BY <1>1, <1>2, <1>4 DEF Stands
<1>6. head[l] # NULL => Len(s) # 0 /\ head[l] = s[1] /\ owner[head[l]] = l
  BY <1>1, <1>4 DEF Stands
<1>7. \A k \in 1 .. Len(s) : s[k] = head[l] => k = 1
  BY <1>1, <1>4, <1>6 DEF Stands
<1>8. WalkSplits'
  BY <1>1, <1>2, <1>4, <1>5, <1>6, <1>7 DEF WalkSplits
<1> QED
  BY <1>3, <1>8 DEF WalkInv

\* One step moves one position on: what is before the node is what was, and the node it leaves.
LEMMA SteppingKeepsWalk ==
  ASSUME ListInv, ItemsStand, WalkInv, WalkStep
  PROVE  WalkInv'
<1> USE ListAssumption
<1>1. /\ walk.node # NULL /\ walk.node \in Nodes /\ walk.over \in Lists
  BY DEF WalkStep, WalkInv, WalkTyped
<1>2. /\ walk'.over = walk.over /\ walk'.node = next[walk.node] /\ walk'.torn = walk.torn
      /\ walk'.visited = walk.visited \cup {walk.node} /\ walk'.stayed = walk.stayed
      /\ items' = items /\ owner' = owner
  BY DEF WalkStep, links, WalkInv, WalkTyped
<1>3. WalkTyped' /\ (walk.over = NULL => walk.node = NULL)'
  BY <1>1 DEF WalkStep, WalkInv, WalkTyped, ListInv, TypeOK
<1>4. PICK s : s = items[walk.over] /\ Stands(walk.over, s)
  BY <1>1 DEF ItemsStand
<1>5. Len(s) \in Nat /\ \A i \in 1 .. Len(s) : s[i] \in Nodes /\ owner[s[i]] = walk.over
  BY <1>1, <1>4, MembersOfItems
<1>6. \A m \in walk.stayed : m \in Nodes /\ owner[m] = walk.over
  BY <1>1 DEF WalkInv, WalkTyped, WalkSplits
<1>7. ASSUME ~walk.torn
      PROVE  /\ walk'.node = NULL => walk'.stayed \subseteq walk'.visited
             /\ walk'.node # NULL => owner[walk'.node] = walk.over
             /\ \A i, k \in 1 .. Len(s) : s[k] = walk'.node /\ s[i] \in walk.stayed =>
                  (s[i] \in walk'.visited <=> i < k)
  <2>1. PICK k \in 1 .. Len(s) : s[k] = walk.node
    BY <1>1, <1>4, <1>7 DEF WalkInv, WalkSplits, Stands
  <2>2. \A i \in 1 .. Len(s) : s[i] \in walk.stayed => (s[i] \in walk.visited <=> i < k)
    BY <1>1, <1>4, <1>7, <2>1 DEF WalkInv, WalkSplits
  <2>3. \A i, j \in 1 .. Len(s) : s[i] = s[j] => i = j
    BY <1>4 DEF Stands
  <2>4. \A i \in 1 .. Len(s) : s[i] \in walk.stayed => (s[i] \in walk'.visited <=> i < k + 1)
    BY <1>2, <1>5, <2>1, <2>2, <2>3
  <2>5. walk'.node = IF k = Len(s) THEN NULL ELSE s[k + 1]
    <3>1. next[s[k]] = IF k = Len(s) THEN NULL ELSE s[k + 1]
      BY <1>4 DEF Stands
    <3> QED
      BY <1>2, <2>1, <3>1
  <2>6. walk'.node = NULL => walk'.stayed \subseteq walk'.visited
    <3> SUFFICES ASSUME walk'.node = NULL, NEW m \in walk.stayed PROVE m \in walk'.visited
      BY <1>2
    <3>1. k = Len(s)
      BY <1>5, <2>1, <2>5
    <3>2. PICK i \in 1 .. Len(s) : s[i] = m
      BY <1>4, <1>6 DEF Stands
    <3> QED
      BY <1>5, <2>4, <3>1, <3>2
  <2>7. walk'.node # NULL => k + 1 \in 1 .. Len(s) /\ walk'.node = s[k + 1]
    BY <1>5, <2>1, <2>5
  <2>8. ASSUME NEW i \in 1 .. Len(s), NEW j \in 1 .. Len(s), s[j] = walk'.node,
               s[i] \in walk.stayed
        PROVE  s[i] \in walk'.visited <=> i < j
    <3>1. j = k + 1
      BY <1>5, <2>3, <2>7, <2>8
    <3> QED
      BY <2>4, <2>8, <3>1
  <2> QED
    BY <1>5, <2>6, <2>7, <2>8
<1>8. WalkSplits'
  BY <1>1, <1>2, <1>4, <1>6, <1>7 DEF WalkSplits
<1> QED
  BY <1>3, <1>8 DEF WalkInv

\* Without a walk there is nothing to say.
LEMMA EndingKeepsWalk ==
  ASSUME WalkInv, WalkEnd
  PROVE  WalkInv'
BY ListAssumption DEF WalkEnd, NotWalking, WalkInv, WalkTyped, WalkSplits

ItemsInv == ListInv /\ ItemsStand /\ WalkInv

\* The empty lists stand for empty sequences.
LEMMA InitEstablishesItems == ListInit => ItemsInv
<1> SUFFICES ASSUME ListInit PROVE ItemsInv
  OBVIOUS
<1>1. \A l \in Lists : items[l] = <<>>
  BY DEF ListInit, Sequence!Init
<1>2. <<>> \in Seq(Nodes) /\ Len(<<>>) = 0
  BY EmptySeq
<1>3. ASSUME NEW l \in Lists PROVE Stands(l, items[l])
  <2>1. PICK s : s = items[l] /\ s \in Seq(Nodes) /\ Len(s) = 0
    BY <1>1, <1>2
  <2>2. 1 .. Len(s) = {}
    BY <2>1
  <2>3. \A n \in Nodes : owner[n] # l
    BY ListAssumption DEF ListInit
  <2>4. head[l] = NULL /\ tail[l] = NULL /\ entries[l] = 0
    BY DEF ListInit
  <2>5. Stands(l, s)
    BY <2>1, <2>2, <2>3, <2>4 DEF Stands
  <2> QED
    BY <2>1, <2>5
<1>4. items \in [Lists -> Seq(Nodes)]
  BY <1>1, <1>2 DEF ListInit, Sequence!Init
<1>5. WalkInv
  BY ListAssumption DEF ListInit, NotWalking, WalkInv, WalkTyped, WalkSplits
<1> QED
  BY <1>3, <1>4, <1>5, InitEstablishesInv DEF ItemsInv, ItemsStand

\* Putting a node behind the last one is appending it.
LEMMA InsertAtTheEnd ==
  ASSUME NEW s \in Seq(Nodes), NEW n \in Nodes
  PROVE  Sequence!InsertAt(s, Len(s) + 1, n) = Append(s, n)
<1>1. Len(s) \in Nat
  BY LenProperties
<1>2. PICK q : q = Sequence!InsertAt(s, Len(s) + 1, n)
  OBVIOUS
<1>3. PICK r : r = Append(s, n)
  OBVIOUS
<1>4. Len(s) + 1 \in 1 .. Len(s) + 1
  BY <1>1
<1>5. Inserted(s, q, Len(s) + 1, n)
  BY <1>2, <1>4, InsertAtInserts
<1>6. Inserted(s, r, Len(s) + 1, n)
  BY <1>3, AppendInserts
<1>7. /\ q \in Seq(Nodes) /\ r \in Seq(Nodes) /\ Len(q) = Len(r)
      /\ \A i \in 1 .. Len(q) : q[i] = r[i]
  BY <1>5, <1>6 DEF Inserted
<1> QED
  BY <1>2, <1>3, <1>7, SeqEqual

\* The three ways into a list, each with what it means for items.
LEMMA AppendKeepsItems ==
  ASSUME ItemsInv, NEW l \in Lists, NEW n \in Nodes, NEW kind \in {"head", "tail"},
         f_list_append(l, n, kind), UNCHANGED walk,
         items' = [items EXCEPT ![l] = IF kind = "head" THEN <<n>> \o @ ELSE Append(@, n)]
  PROVE  ItemsInv'
<1>1. owner[n] = NULL /\ owner' = [owner EXCEPT ![n] = l]
  BY DEF f_list_append, Owned
<1>2. ItemsStand' /\ Joins(l, n)
  <2>1. CASE kind = "head"
    BY <2>1, AppendHeadStands DEF f_list_append, ItemsInv
  <2>2. CASE kind = "tail"
    BY <2>2, AppendTailStands DEF f_list_append, ItemsInv
  <2> QED
    BY <2>1, <2>2
<1> QED
  BY <1>1, <1>2, AppendKeepsInv, JoiningKeepsWalk DEF ItemsInv

\* f_list_insert, in its three cases.
LEMMA InsertKeepsItems ==
  ASSUME ItemsInv, NEW l \in Lists, NEW n \in Nodes, NEW p \in Nodes \cup {NULL}, Insert(l, n, p)
  PROVE  ItemsInv'
<1> USE ListAssumption
<1>1. p # NULL => p \in Nodes /\ owner[p] = l
  BY DEF Insert
<1>2. CASE p = NULL
  <2>1. f_list_append(l, n, "head") /\ items' = [items EXCEPT ![l] = <<n>> \o @]
    BY <1>2 DEF Insert, f_list_insert, Sequence!Prepend
  <2> QED
    BY <2>1, AppendKeepsItems DEF Insert
<1>3. CASE p # NULL /\ next[p] = NULL
  <2>1. /\ f_list_append(l, n, "tail")
        /\ items' = [items EXCEPT ![l] = Sequence!InsertAt(@, Sequence!PositionOf(l, p) + 1, n)]
    BY <1>3 DEF Insert, f_list_insert, Sequence!InsertAfter
  <2>2. PICK s : s = items[l] /\ s \in Seq(Nodes) /\ Stands(l, s)
    BY DEF ItemsInv, ItemsStand
  <2>3. PICK k : k = Sequence!PositionOf(l, p)
    OBVIOUS
  <2>4. k \in 1 .. Len(s) /\ s[k] = p
    BY <1>1, <1>3, <2>2, <2>3, PositionInItems DEF ItemsInv
  <2>5. next[s[k]] = IF k = Len(s) THEN NULL ELSE s[k + 1]
    BY <2>2, <2>4 DEF Stands
  <2>6. k # Len(s) => s[k + 1] \in Nodes
    BY <2>2, <2>4, LenProperties, ElementOfSeq
  <2>7. k = Len(s)
    BY <1>3, <2>4, <2>5, <2>6
  <2>8. items' = [items EXCEPT ![l] = Append(@, n)]
    BY <2>1, <2>2, <2>3, <2>7, InsertAtTheEnd
  <2> QED
    BY <2>1, <2>8, AppendKeepsItems DEF Insert
<1>4. CASE p # NULL /\ next[p] # NULL
  <2>1. /\ Splice(l, n, p)
        /\ items' = [items EXCEPT ![l] = Sequence!InsertAt(@, Sequence!PositionOf(l, p) + 1, n)]
    BY <1>4 DEF Insert, f_list_insert, Sequence!InsertAfter
  <2>2. owner[n] = NULL /\ owner' = [owner EXCEPT ![n] = l]
    BY <2>1 DEF Splice, Owned
  <2>3. ListInv'
    BY <1>1, <1>4, <2>1, SpliceKeepsInv DEF ItemsInv
  <2>4. ItemsStand' /\ Joins(l, n)
    BY <1>1, <1>4, <2>1, SpliceStands DEF ItemsInv
  <2> QED
    BY <2>2, <2>3, <2>4, JoiningKeepsWalk DEF Insert, ItemsInv
<1> QED
  BY <1>2, <1>3, <1>4

\* f_list_remove, with the walk it may tear.
LEMMA RemoveKeepsItems ==
  ASSUME ItemsInv, NEW l \in Lists, NEW n \in Nodes, RemoveNode(l, n)
  PROVE  ItemsInv'
<1>1. /\ f_list_remove(l, n)
      /\ items' = [items EXCEPT ![l] = Sequence!RemoveAt(@, Sequence!PositionOf(l, n))]
  BY DEF RemoveNode, Sequence!Take
<1>2. ListInv' /\ ItemsStand' /\ Leaves(l, n)
  BY <1>1, RemoveKeepsInv, RemoveStands DEF ItemsInv
<1>3. owner[n] = l /\ owner' = [owner EXCEPT ![n] = NULL]
  BY <1>1 DEF f_list_remove
<1> QED
  BY <1>2, <1>3, LeavingKeepsWalk DEF RemoveNode, ItemsInv

\* Steps that write no list.
LEMMA ReadingKeepsStands ==
  ASSUME ItemsStand, UNCHANGED <<links, items>>
  PROVE  ItemsStand'
<1>1. ASSUME NEW l \in Lists PROVE Stands(l, items[l])'
  <2>1. Stands(l, items[l])
    BY DEF ItemsStand
  <2> QED
    BY <2>1 DEF Stands, links
<1> QED
  BY <1>1 DEF ItemsStand

\* Every step keeps the links, the sequences and the walk together.
LEMMA StepKeepsItems == ItemsInv /\ [ListNext]_listVars => ItemsInv'
<1> SUFFICES ASSUME ItemsInv, [ListNext]_listVars PROVE ItemsInv'
  OBVIOUS
<1>1. ASSUME NEW l \in Lists, NEW n \in Nodes, NEW kind \in {"head", "tail"},
             AppendNode(l, n, kind)
      PROVE  ItemsInv'
  <2>1. items' = [items EXCEPT ![l] = IF kind = "head" THEN <<n>> \o @ ELSE Append(@, n)]
    BY <1>1 DEF AppendNode, Sequence!Prepend, Sequence!AppendLast
  <2> QED
    BY <1>1, <2>1, AppendKeepsItems DEF AppendNode
<1>2. ASSUME NEW l \in Lists, NEW n \in Nodes, NEW p \in Nodes \cup {NULL}, Insert(l, n, p)
      PROVE  ItemsInv'
  BY <1>2, InsertKeepsItems
<1>3. ASSUME NEW l \in Lists, NEW n \in Nodes, RemoveNode(l, n)
      PROVE  ItemsInv'
  BY <1>3, RemoveKeepsItems
<1>4. ASSUME UNCHANGED <<links, items>> PROVE ListInv' /\ ItemsStand'
  BY <1>4, ReadingKeepsInv, ReadingKeepsStands DEF ItemsInv
<1>5. ASSUME NEW l \in Lists, WalkStart(l) PROVE ItemsInv'
  BY <1>4, <1>5, StartingKeepsWalk DEF WalkStart, ItemsInv
<1>6. CASE WalkStep
  BY <1>4, <1>6, SteppingKeepsWalk DEF WalkStep, ItemsInv
<1>7. CASE WalkEnd
  BY <1>4, <1>7, EndingKeepsWalk DEF WalkEnd, ItemsInv
<1>8. CASE UNCHANGED listVars
  BY <1>4, <1>8, UntouchedWalk DEF listVars, links, ItemsInv
<1> QED
  BY <1>1, <1>2, <1>3, <1>5, <1>6, <1>7, <1>8 DEF ListNext

LEMMA ItemsInvHolds == ListSpec => []ItemsInv
BY InitEstablishesItems, StepKeepsItems, PTL DEF ListSpec

\* What ItemsInv says of the links is what a caller relies on.
LEMMA StandingIsEnough == ItemsStand => StandsForItems
<1> SUFFICES ASSUME ItemsStand, NEW l \in Lists, NEW s, s = items[l]
             PROVE  /\ head[l] = IF s = <<>> THEN NULL ELSE s[1]
                    /\ tail[l] = IF s = <<>> THEN NULL ELSE s[Len(s)]
                    /\ \A i \in 1 .. Len(s) :
                         /\ next[s[i]] = IF i = Len(s) THEN NULL ELSE s[i + 1]
                         /\ previous[s[i]] = IF i = 1 THEN NULL ELSE s[i - 1]
                    /\ entries[l] = Len(s)
                    /\ Members(l) = {s[i] : i \in 1 .. Len(s)}
  BY DEF StandsForItems
<1>1. Stands(l, s)
  BY DEF ItemsStand
<1>2. s = <<>> <=> Len(s) = 0
  BY <1>1, EmptySeq DEF Stands
<1>3. Members(l) = {s[i] : i \in 1 .. Len(s)}
  BY <1>1, ElementOfSeq DEF Stands, Members
<1> QED
  BY <1>1, <1>2, <1>3 DEF Stands

\* For every number of lists and nodes, and whatever sequence of appends, inserts and removals the
\* callers make within their contract, the links followed from either end are the nodes that
\* ListSequence promises, in its order, and entries is their number.
THEOREM ListsStandForItems == ListSpec => []StandsForItems
<1>1. ItemsInv => StandsForItems
  BY StandingIsEnough DEF ItemsInv
<1> QED
  BY <1>1, ItemsInvHolds, PTL

LEMMA SplittingIsEnough == ItemsStand /\ WalkInv => WalkIsComplete
<1> SUFFICES ASSUME ItemsStand, WalkInv, ~walk.torn
             PROVE  /\ walk.over # NULL /\ walk.node = NULL => walk.stayed \subseteq walk.visited
                    /\ walk.node \in walk.stayed => walk.node \notin walk.visited
  BY DEF WalkIsComplete
<1>1. walk.over # NULL /\ walk.node = NULL => walk.stayed \subseteq walk.visited
  BY DEF WalkInv, WalkSplits
<1>2. ASSUME walk.node \in walk.stayed PROVE walk.node \notin walk.visited
  <2>1. walk.node \in Nodes /\ walk.over \in Lists /\ walk.over # NULL
    BY <1>2, ListAssumption DEF WalkInv, WalkTyped
  <2>2. owner[walk.node] = walk.over
    BY <1>2, <2>1 DEF WalkInv, WalkSplits
  <2>3. PICK k \in 1 .. Len(items[walk.over]) : items[walk.over][k] = walk.node
    BY <2>1, <2>2 DEF ItemsStand, Stands
  <2>4. ~(k < k)
    BY MembersOfItems, <2>1
  <2> QED
    BY <1>2, <2>1, <2>3, <2>4 DEF WalkInv, WalkSplits
<1> QED
  BY <1>1, <1>2

\* A d_list_foreach whose body changes the list, but never takes out the node it stands on, visits
\* every node that was there all along, and none of them twice, in lists of any length.
THEOREM WalksAreComplete == ListSpec => []WalkIsComplete
<1>1. ItemsInv => WalkIsComplete
  BY SplittingIsEnough DEF ItemsInv
<1> QED
  BY <1>1, ItemsInvHolds, PTL

\* A node without owner is in no sequence, and one with an owner in the sequence of that list: so
\* the guards of ListSequence, beside which the operations of list.c run, never hold them back.
THEOREM SequencesFollow ==
  ListSpec =>
    [](\A n \in Nodes :
         /\ owner[n] = NULL => Sequence!Free(n)
         /\ \A l \in Lists : owner[n] = l => n \in Sequence!ToSet(items[l]))
<1> DEFINE Follows ==
      \A n \in Nodes :
        /\ owner[n] = NULL => Sequence!Free(n)
        /\ \A l \in Lists : owner[n] = l => n \in Sequence!ToSet(items[l])
<1>1. ItemsInv => Follows
  <2> SUFFICES ASSUME ItemsInv, NEW n \in Nodes, NEW l \in Lists
               PROVE  /\ owner[n] = NULL => n \notin Sequence!ToSet(items[l])
                      /\ owner[n] = l => n \in Sequence!ToSet(items[l])
    BY DEF Sequence!Free
  <2>1. DOMAIN items[l] = 1 .. Len(items[l]) /\ Stands(l, items[l])
    BY LenProperties DEF ItemsInv, ItemsStand
  <2> QED
    BY <2>1, ListAssumption DEF Sequence!ToSet, Stands
<1> HIDE DEF Follows
<1>2. ListSpec => []Follows
  BY <1>1, ItemsInvHolds, PTL
<1> QED
  BY <1>2 DEF Follows

-----------------------------------------------------------------------------
(***************************************************************************)
(* The sort.  A chain is a set of nodes whose links go through it in an    *)
(* order; what the recursion does to chains is said for any links fw and   *)
(* bw and any order R of the nodes M.                                      *)
(***************************************************************************)
Ordered(R, M) ==
  /\ R \subseteq M \X M
  /\ \A a \in M : <<a, a>> \notin R
  /\ \A a, b \in M : a = b \/ <<a, b>> \in R \/ <<b, a>> \in R
  /\ \A a, b, c \in M : <<a, b>> \in R /\ <<b, c>> \in R => <<a, c>> \in R

Chain(R, fw, bw, first, N) ==
  /\ first = NULL <=> N = {}
  /\ first # NULL => first \in N /\ \A m \in N : m = first \/ <<first, m>> \in R
  /\ \A n \in N : fw[n] = NULL => \A m \in N : m = n \/ <<m, n>> \in R
  /\ \A n \in N : fw[n] # NULL =>
       /\ fw[n] \in N /\ <<n, fw[n]>> \in R /\ bw[fw[n]] = n
       /\ \A m \in N : m = n \/ <<m, n>> \in R \/ m = fw[n] \/ <<fw[n], m>> \in R

\* All of N comes before all of H.
InFront(R, N, H) == \A a \in N, b \in H : <<a, b>> \in R

\* Links that do not change on a chain leave it one.
LEMMA ChainStays ==
  ASSUME NEW R, NEW fw, NEW bw, NEW fw2, NEW bw2, NEW first, NEW N,
         Chain(R, fw, bw, first, N), \A n \in N : fw2[n] = fw[n] /\ bw2[n] = bw[n]
  PROVE  Chain(R, fw2, bw2, first, N)
BY DEF Chain

\* A chain of one node is in every order.
LEMMA ChainOfOne ==
  ASSUME NEW R, NEW Q, NEW M, NEW fw, NEW bw, NEW first, NEW N \in SUBSET M,
         Ordered(R, M), Ordered(Q, M), NULL \notin M, Chain(R, fw, bw, first, N),
         first = NULL \/ fw[first] = NULL
  PROVE  Chain(Q, fw, bw, first, N)
<1>1. CASE first = NULL
  BY <1>1 DEF Chain
<1>2. CASE first # NULL
  <2>1. fw[first] = NULL /\ first \in N
    BY <1>2 DEF Chain
  <2>2. ASSUME NEW m \in N PROVE m = first
    <3>1. m = first \/ (<<first, m>> \in R /\ <<m, first>> \in R)
      BY <1>2, <2>1 DEF Chain
    <3> QED
      BY <2>1, <3>1 DEF Ordered
  <2> QED
    BY <1>2, <2>1, <2>2 DEF Chain
<1> QED
  BY <1>1, <1>2

\* Without its first node a chain is one.
LEMMA RestOfChain ==
  ASSUME NEW R, NEW M, NEW fw, NEW bw, NEW first, NEW N \in SUBSET M,
         Ordered(R, M), NULL \notin M, Chain(R, fw, bw, first, N), first # NULL
  PROVE  Chain(R, fw, bw, fw[first], N \ {first})
<1> DEFINE rest == N \ {first}
<1>1. first \in N /\ \A m \in N : m = first \/ <<first, m>> \in R
  BY DEF Chain
<1>2. ASSUME NEW n \in N, fw[n] # NULL PROVE fw[n] \in rest
  <2>1. fw[n] \in N /\ <<n, fw[n]>> \in R
    BY <1>2 DEF Chain
  <2>2. fw[n] # first
    BY <1>1, <2>1 DEF Ordered
  <2> QED
    BY <2>1, <2>2
<1>3. fw[first] = NULL <=> rest = {}
  <2>1. fw[first] = NULL => rest = {}
    <3> SUFFICES ASSUME fw[first] = NULL, NEW m \in rest PROVE FALSE
      OBVIOUS
    <3>1. <<m, first>> \in R /\ <<first, m>> \in R
      BY <1>1 DEF Chain
    <3> QED
      BY <1>1, <3>1 DEF Ordered
  <2> QED
    BY <1>1, <1>2, <2>1
<1>4. fw[first] # NULL => fw[first] \in rest /\ \A m \in rest : m = fw[first] \/ <<fw[first], m>> \in R
  <2> SUFFICES ASSUME fw[first] # NULL, NEW m \in rest PROVE m = fw[first] \/ <<fw[first], m>> \in R
    BY <1>1, <1>2
  <2>1. m = first \/ <<m, first>> \in R \/ m = fw[first] \/ <<fw[first], m>> \in R
    BY <1>1 DEF Chain
  <2> QED
    BY <1>1, <2>1 DEF Ordered
<1>5. \A n \in rest : fw[n] = NULL => \A m \in rest : m = n \/ <<m, n>> \in R
  BY DEF Chain
<1>6. \A n \in rest : fw[n] # NULL =>
        /\ fw[n] \in rest /\ <<n, fw[n]>> \in R /\ bw[fw[n]] = n
        /\ \A m \in rest : m = n \/ <<m, n>> \in R \/ m = fw[n] \/ <<fw[n], m>> \in R
  BY <1>2 DEF Chain
<1> QED
  BY <1>3, <1>4, <1>5, <1>6 DEF Chain

\* A node n that comes before a chain is linked to its first node.
Links(R, M, fw, bw, first, N, n, fw2, bw2) ==
  /\ Ordered(R, M) /\ NULL \notin M /\ N \subseteq M
  /\ fw \in [M -> M \cup {NULL}] /\ bw \in [M -> M \cup {NULL}]
  /\ Chain(R, fw, bw, first, N) /\ first # NULL
  /\ n \in M \ N /\ \A m \in N : <<n, m>> \in R
  /\ fw2 = [fw EXCEPT ![n] = first] /\ bw2 = [bw EXCEPT ![first] = n]

LEMMA LongerChain ==
  ASSUME NEW R, NEW M, NEW fw, NEW bw, NEW first, NEW N, NEW n, NEW fw2, NEW bw2,
         Links(R, M, fw, bw, first, N, n, fw2, bw2)
  PROVE  Chain(R, fw2, bw2, n, N \cup {n})
<1> USE DEF Links
<1> DEFINE all == N \cup {n}
<1>1. first \in N /\ \A m \in N : m = first \/ <<first, m>> \in R
  BY DEF Chain
<1>2. /\ fw2[n] = first /\ bw2[first] = n
      /\ \A m \in N : fw2[m] = fw[m] /\ (m # first => bw2[m] = bw[m])
  BY <1>1
<1>3. ASSUME NEW m \in N, fw[m] # NULL PROVE fw[m] \in N /\ fw[m] # first /\ bw[fw[m]] = m /\ <<m, fw[m]>> \in R
  <2>1. fw[m] \in N /\ <<m, fw[m]>> \in R /\ bw[fw[m]] = m
    BY <1>3 DEF Chain
  <2>2. fw[m] # first
    BY <1>1, <2>1 DEF Ordered
  <2> QED
    BY <2>1, <2>2
<1>4. n # NULL /\ n \in all /\ \A m \in all : m = n \/ <<n, m>> \in R
  OBVIOUS
<1>5. \A m \in all : fw2[m] = NULL => \A k \in all : k = m \/ <<k, m>> \in R
  BY <1>1, <1>2 DEF Chain
<1>6. ASSUME NEW m \in all, fw2[m] # NULL
      PROVE  /\ fw2[m] \in all /\ <<m, fw2[m]>> \in R /\ bw2[fw2[m]] = m
             /\ \A k \in all : k = m \/ <<k, m>> \in R \/ k = fw2[m] \/ <<fw2[m], k>> \in R
  <2>1. CASE m = n
    BY <1>1, <1>2, <2>1
  <2>2. CASE m # n
    <3>1. m \in N /\ fw2[m] = fw[m] /\ fw[m] # NULL
      BY <1>2, <1>6, <2>2
    <3>2. /\ fw[m] \in N /\ fw[m] # first /\ bw2[fw[m]] = m /\ <<m, fw[m]>> \in R
      BY <1>2, <1>3, <3>1
    <3>3. \A k \in N : k = m \/ <<k, m>> \in R \/ k = fw[m] \/ <<fw[m], k>> \in R
      BY <3>1 DEF Chain
    <3> QED
      BY <3>1, <3>2, <3>3
  <2> QED
    BY <2>1, <2>2
<1> QED
  BY <1>4, <1>5, <1>6 DEF Chain

\* A chain is cut behind n, up to which it has the nodes L.
Cuts(R, M, fw, bw, first, N, n, L, fw2, bw2) ==
  /\ Ordered(R, M) /\ NULL \notin M /\ N \subseteq M
  /\ fw \in [M -> M \cup {NULL}] /\ bw \in [M -> M \cup {NULL}]
  /\ Chain(R, fw, bw, first, N)
  /\ n \in N /\ fw[n] # NULL /\ L = {m \in N : m = n \/ <<m, n>> \in R}
  /\ fw2 = [fw EXCEPT ![n] = NULL] /\ bw2 = [bw EXCEPT ![fw[n]] = NULL]

LEMMA CutChain ==
  ASSUME NEW R, NEW M, NEW fw, NEW bw, NEW first, NEW N, NEW n, NEW L, NEW fw2, NEW bw2,
         Cuts(R, M, fw, bw, first, N, n, L, fw2, bw2)
  PROVE  /\ Chain(R, fw2, bw2, first, L) /\ Chain(R, fw2, bw2, fw[n], N \ L)
         /\ n \in L /\ fw[n] \in N \ L /\ first \in L
         /\ InFront(R, L, N \ L)
<1> USE DEF Cuts
<1> DEFINE second == fw[n]
           H == N \ L
<1>1. /\ second \in N /\ <<n, second>> \in R /\ second # n
      /\ \A m \in N : m = n \/ <<m, n>> \in R \/ m = second \/ <<second, m>> \in R
  BY DEF Chain, Ordered
<1>2. n \in L /\ second \in H /\ L \subseteq N
  BY <1>1 DEF Ordered
<1>3. /\ \A m \in H : m = second \/ <<second, m>> \in R
      /\ \A m \in H : <<n, m>> \in R
      /\ \A m \in L : m = n \/ <<m, n>> \in R
  BY <1>1 DEF Ordered
<1>4. \A a \in L, b \in H : <<a, b>> \in R
  BY <1>2, <1>3 DEF Ordered
<1>5. first # NULL /\ first \in L /\ \A m \in N : m = first \/ <<first, m>> \in R
  BY DEF Chain
<1>6. /\ fw2[n] = NULL /\ \A m \in N : m # n => fw2[m] = fw[m]
      /\ bw2[second] = NULL /\ \A m \in N : m # second => bw2[m] = bw[m]
  BY <1>1
<1>7. ASSUME NEW m \in N, fw[m] # NULL, m # n
      PROVE  /\ fw[m] \in N /\ fw[m] # second /\ bw[fw[m]] = m /\ <<m, fw[m]>> \in R
             /\ \A k \in N : k = m \/ <<k, m>> \in R \/ k = fw[m] \/ <<fw[m], k>> \in R
             /\ m \in L => fw[m] \in L
             /\ m \in H => fw[m] \in H
  <2>1. /\ fw[m] \in N /\ bw[fw[m]] = m /\ <<m, fw[m]>> \in R
        /\ \A k \in N : k = m \/ <<k, m>> \in R \/ k = fw[m] \/ <<fw[m], k>> \in R
    BY <1>7 DEF Chain
  <2>2. bw[second] = n
    BY DEF Chain
  <2>3. m \in L => fw[m] \in L
    <3> SUFFICES ASSUME m \in L PROVE fw[m] \in L
      OBVIOUS
    <3>1. <<m, n>> \in R
      BY <1>3, <1>7
    <3>2. n = fw[m] \/ <<fw[m], n>> \in R
      BY <2>1, <3>1 DEF Ordered
    <3> QED
      BY <2>1, <3>2
  <2>4. m \in H => fw[m] \in H
    <3> SUFFICES ASSUME m \in H, fw[m] \in L PROVE FALSE
      BY <2>1
    <3>1. <<fw[m], m>> \in R
      BY <1>4
    <3> QED
      BY <2>1, <3>1 DEF Ordered
  <2> QED
    BY <1>7, <2>1, <2>2, <2>3, <2>4
<1> HIDE DEF second, H
<1>8. H \subseteq N
  BY DEF H
<1>9. Chain(R, fw2, bw2, first, L)
  <2>1. \A m \in L : fw2[m] = NULL => \A k \in L : k = m \/ <<k, m>> \in R
    <3> SUFFICES ASSUME NEW m \in L, fw2[m] = NULL, NEW k \in L PROVE k = m \/ <<k, m>> \in R
      OBVIOUS
    <3>1. CASE m = n
      BY <1>3, <3>1
    <3>2. CASE m # n
      BY <1>2, <1>6, <3>2 DEF Chain
    <3> QED
      BY <3>1, <3>2
  <2>2. ASSUME NEW m \in L, fw2[m] # NULL
        PROVE  /\ fw2[m] \in L /\ <<m, fw2[m]>> \in R /\ bw2[fw2[m]] = m
               /\ \A k \in L : k = m \/ <<k, m>> \in R \/ k = fw2[m] \/ <<fw2[m], k>> \in R
    <3>1. m # n /\ m \in N /\ fw2[m] = fw[m] /\ fw[m] # NULL
      BY <1>2, <1>6, <2>2
    <3> QED
      BY <1>2, <1>6, <1>7, <3>1
  <2> QED
    BY <1>2, <1>5, <2>1, <2>2 DEF Chain
<1>10. Chain(R, fw2, bw2, second, H)
  <2>1. second # NULL /\ H # {}
    BY <1>2 DEF second
  <2>2. n \notin H
    BY <1>2 DEF H
  <2>3. \A m \in H : fw2[m] = NULL => \A k \in H : k = m \/ <<k, m>> \in R
    BY <1>6, <1>8, <2>2 DEF Chain
  <2>4. ASSUME NEW m \in H, fw2[m] # NULL
        PROVE  /\ fw2[m] \in H /\ <<m, fw2[m]>> \in R /\ bw2[fw2[m]] = m
               /\ \A k \in H : k = m \/ <<k, m>> \in R \/ k = fw2[m] \/ <<fw2[m], k>> \in R
    <3>1. m # n /\ m \in N /\ fw2[m] = fw[m] /\ fw[m] # NULL
      BY <1>6, <1>8, <2>2, <2>4
    <3> QED
      BY <1>6, <1>7, <1>8, <3>1
  <2> QED
    BY <1>2, <1>3, <2>1, <2>3, <2>4 DEF Chain
<1> QED
  BY <1>2, <1>4, <1>5, <1>9, <1>10 DEF second, H, InFront

-----------------------------------------------------------------------------
(* The calls.  A call owns the nodes it is to return; the one it waits for *)
(* was handed some of them, and everything further inside works on those.  *)

Places == {"sort", "split", "halves", "left", "right", "left_last", "right_last", "merge", "link"}
Frames(M) == [at : Places, left : M \cup {NULL}, lefts : SUBSET M,
              right : M \cup {NULL}, rights : SUBSET M]

Waiting == {"left", "right", "left_last", "right_last", "link"}
Own(c) == c.lefts \cup c.rights
Handed(c) == IF c.at \in {"left", "left_last"} THEN c.lefts ELSE c.rights

\* A chain that nothing is linked to.
Apart(R, fw, bw, first, N) == Chain(R, fw, bw, first, N) /\ (first # NULL => bw[first] = NULL)

\* The halves of a call hold the nodes of two intervals of the list.
Divided(P, c) == c.lefts # {} /\ c.rights # {} /\ InFront(P, c.lefts, c.rights)

\* What a call has in hand at each of its places, when P is the order before the sort and K the one
\* behind it.  An inner merge, called by another one, may have a link back to what it is not.
Sound(P, K, fw, bw, c, inner) ==
  /\ c.lefts \cap c.rights = {}
  /\ c.at \in {"sort", "split"} => c.rights = {} /\ Apart(P, fw, bw, c.left, c.lefts)
  /\ c.at \in {"halves", "left", "right", "left_last", "right_last"} => Divided(P, c)
  /\ c.at \in {"halves", "right"} => Apart(P, fw, bw, c.left, c.lefts)
  /\ c.at \in {"halves", "left"} => Apart(P, fw, bw, c.right, c.rights)
  /\ c.at = "right_last" => Apart(K, fw, bw, c.left, c.lefts)
  /\ c.at = "left_last" => Apart(K, fw, bw, c.right, c.rights)
  /\ c.at = "merge" =>
       /\ Chain(K, fw, bw, c.left, c.lefts) /\ Chain(K, fw, bw, c.right, c.rights)
       /\ Own(c) # {} /\ InFront(P, c.lefts, c.rights)
       /\ ~inner => /\ c.lefts # {} /\ c.rights # {}
                    /\ bw[c.left] = NULL /\ bw[c.right] = NULL
  /\ c.at = "link" =>
       /\ c.left # NULL /\ c.lefts = {c.left} /\ c.rights # {}
       /\ \A m \in c.rights : <<c.left, m>> \in K
       /\ ~inner => bw[c.left] = NULL

Nested(P, K, M, fw, bw, s) ==
  /\ s \in Seq(Frames(M))
  /\ \A k \in 1 .. Len(s) : Sound(P, K, fw, bw, s[k], k > 1 /\ s[k - 1].at = "link")
  /\ \A j, k \in 1 .. Len(s) : j < k => s[j].at \in Waiting /\ Own(s[k]) \subseteq Handed(s[j])
  /\ \A k \in 2 .. Len(s) : Own(s[k]) = Handed(s[k - 1])
  /\ Len(s) # 0 => Own(s[1]) = M

\* The outer of two calls waits, and owns what the inner one does.
LEMMA OuterWaits ==
  ASSUME NEW P, NEW K, NEW M, NEW fw, NEW bw, NEW s, Nested(P, K, M, fw, bw, s),
         NEW j \in 1 .. Len(s), NEW k \in 1 .. Len(s), j < k
  PROVE  s[j].at \in Waiting /\ Own(s[k]) \subseteq Handed(s[j])
<1>1. \A i, m \in 1 .. Len(s) : i < m => s[i].at \in Waiting /\ Own(s[m]) \subseteq Handed(s[i])
  BY Zenon DEF Nested
<1> QED
  BY <1>1, Zenon

\* A call that waits has nothing in hand of what it handed on.
LEMMA WaitingIsSound ==
  ASSUME NEW P, NEW K, NEW M, NEW fw, NEW bw, NEW fw2, NEW bw2, NEW c \in Frames(M), NEW inner,
         Sound(P, K, fw, bw, c, inner), c.at \in Waiting,
         \A n \in M \ Handed(c) : fw2[n] = fw[n] /\ bw2[n] = bw[n]
  PROVE  Sound(P, K, fw2, bw2, c, inner)
<1>1. c.lefts \subseteq M /\ c.rights \subseteq M /\ c.lefts \cap c.rights = {}
  BY DEF Frames, Sound
<1>2. ASSUME NEW R, NEW first, NEW N, N \subseteq M \ Handed(c), Apart(R, fw, bw, first, N)
      PROVE  Apart(R, fw2, bw2, first, N)
  <2>1. Chain(R, fw2, bw2, first, N)
    BY <1>2, ChainStays DEF Apart
  <2>2. first # NULL => first \in N
    BY <2>1 DEF Chain
  <2> QED
    BY <1>2, <2>1, <2>2 DEF Apart
<1>3. c.at \in {"right", "right_last"} => c.lefts \subseteq M \ Handed(c)
  BY <1>1 DEF Handed
<1>4. c.at \in {"left", "left_last"} => c.rights \subseteq M \ Handed(c)
  BY <1>1 DEF Handed
<1>5. c.at = "link" => (c.left # NULL /\ c.lefts = {c.left} => c.left \in M \ Handed(c))
  BY <1>1 DEF Handed
<1>6. c.at = "right" => Apart(P, fw2, bw2, c.left, c.lefts)
  BY <1>2, <1>3 DEF Sound
<1>7. c.at = "left" => Apart(P, fw2, bw2, c.right, c.rights)
  BY <1>2, <1>4 DEF Sound
<1>8. c.at = "right_last" => Apart(K, fw2, bw2, c.left, c.lefts)
  BY <1>2, <1>3 DEF Sound
<1>9. c.at = "left_last" => Apart(K, fw2, bw2, c.right, c.rights)
  BY <1>2, <1>4 DEF Sound
<1>10. c.at = "link" =>
         /\ c.left # NULL /\ c.lefts = {c.left} /\ c.rights # {}
         /\ \A m \in c.rights : <<c.left, m>> \in K
         /\ ~inner => bw2[c.left] = NULL
  BY <1>5 DEF Sound
<1>11. c.at \in {"left", "right", "left_last", "right_last"} => Divided(P, c)
  BY DEF Sound
<1> QED
  BY <1>1, <1>6, <1>7, <1>8, <1>9, <1>10, <1>11 DEF Sound, Waiting

\* The innermost call goes on to c, and may change the links of its own nodes.
LEMMA ReplacedStaysNested ==
  ASSUME NEW P, NEW K, NEW M, NEW fw, NEW bw, NEW fw2, NEW bw2, NEW s, NEW c \in Frames(M),
         Nested(P, K, M, fw, bw, s), Len(s) # 0,
         Own(c) = Own(s[Len(s)]),
         \A n \in M \ Own(c) : fw2[n] = fw[n] /\ bw2[n] = bw[n],
         Sound(P, K, fw2, bw2, c, Len(s) > 1 /\ s[Len(s) - 1].at = "link")
  PROVE  Nested(P, K, M, fw2, bw2, [s EXCEPT ![Len(s)] = c])
<1>1. PICK r : r = [s EXCEPT ![Len(s)] = c]
  OBVIOUS
<1>2. s \in Seq(Frames(M)) /\ Len(s) \in Nat \ {0}
  BY DEF Nested
<1>3. /\ r \in Seq(Frames(M)) /\ Len(r) = Len(s) /\ r[Len(s)] = c
      /\ \A k \in 1 .. Len(s) : k # Len(s) => r[k] = s[k]
  BY <1>1, <1>2
<1>4. \A j, k \in 1 .. Len(r) : j < k => r[j].at \in Waiting /\ Own(r[k]) \subseteq Handed(r[j])
  <2> SUFFICES ASSUME NEW j \in 1 .. Len(r), NEW k \in 1 .. Len(r), j < k
               PROVE  r[j].at \in Waiting /\ Own(r[k]) \subseteq Handed(r[j])
    OBVIOUS
  <2>1. /\ j \in 1 .. Len(s) /\ k \in 1 .. Len(s)
        /\ r[j] = s[j] /\ (r[k] = s[k] \/ (k = Len(s) /\ r[k] = c))
    BY <1>2, <1>3
  <2>2. s[j].at \in Waiting /\ Own(s[k]) \subseteq Handed(s[j])
    BY <2>1, OuterWaits
  <2>3. Own(r[k]) = Own(s[k])
    BY <2>1
  <2> QED
    BY <2>1, <2>2, <2>3
<1>5. \A k \in 2 .. Len(r) : Own(r[k]) = Handed(r[k - 1])
  BY <1>2, <1>3 DEF Nested
<1>6. Own(r[1]) = M
  BY <1>2, <1>3 DEF Nested
<1>7. ASSUME NEW k \in 1 .. Len(r)
      PROVE  Sound(P, K, fw2, bw2, r[k], k > 1 /\ r[k - 1].at = "link")
  <2>1. k > 1 => r[k - 1] = s[k - 1]
    BY <1>2, <1>3
  <2>2. CASE k = Len(s)
    BY <1>3, <2>1, <2>2
  <2>3. CASE k # Len(s)
    <3>1. r[k] = s[k] /\ s[k] \in Frames(M) /\ k < Len(s)
      BY <1>2, <1>3, <2>3
    <3>2. k \in 1 .. Len(s) /\ Len(s) \in 1 .. Len(s)
      BY <1>2, <1>3
    <3>6. s[k].at \in Waiting /\ Own(c) \subseteq Handed(s[k])
      BY <3>1, <3>2, OuterWaits
    <3>3. \A n \in M \ Handed(s[k]) : fw2[n] = fw[n] /\ bw2[n] = bw[n]
      BY <3>6
    <3>4. Sound(P, K, fw, bw, s[k], k > 1 /\ s[k - 1].at = "link")
      BY <3>1, <1>2 DEF Nested
    <3>5. Sound(P, K, fw2, bw2, s[k], k > 1 /\ s[k - 1].at = "link")
      BY <3>1, <3>3, <3>4, <3>6, WaitingIsSound
    <3> QED
      BY <2>1, <3>1, <3>5
  <2> QED
    BY <2>2, <2>3
<1>8. Nested(P, K, M, fw2, bw2, r)
  BY <1>3, <1>4, <1>5, <1>6, <1>7 DEF Nested
<1> QED
  BY <1>1, <1>8

\* A call that waits is in turn the outside of the one it makes.
LEMMA AppendedStaysNested ==
  ASSUME NEW P, NEW K, NEW M, NEW fw, NEW bw, NEW s, NEW d \in Frames(M),
         Nested(P, K, M, fw, bw, s), Len(s) # 0,
         s[Len(s)].at \in Waiting, Own(d) = Handed(s[Len(s)]),
         Sound(P, K, fw, bw, d, s[Len(s)].at = "link")
  PROVE  Nested(P, K, M, fw, bw, Append(s, d))
<1>1. PICK r : r = Append(s, d)
  OBVIOUS
<1>2. s \in Seq(Frames(M)) /\ Len(s) \in Nat \ {0}
  BY DEF Nested
<1>3. /\ r \in Seq(Frames(M)) /\ Len(r) = Len(s) + 1 /\ r[Len(s) + 1] = d
      /\ \A k \in 1 .. Len(s) : r[k] = s[k]
  BY <1>1, <1>2
<1>4. ASSUME NEW j \in 1 .. Len(r), NEW k \in 1 .. Len(r), j < k
      PROVE  r[j].at \in Waiting /\ Own(r[k]) \subseteq Handed(r[j])
  <2>1. j \in 1 .. Len(s) /\ r[j] = s[j]
    BY <1>2, <1>3, <1>4
  <2>2. CASE k <= Len(s)
    <3>1. k \in 1 .. Len(s) /\ r[k] = s[k]
      BY <1>2, <1>3, <2>2
    <3> QED
      BY <1>4, <2>1, <3>1, OuterWaits
  <2>3. CASE k = Len(s) + 1
    <3>1. CASE j = Len(s)
      BY <1>3, <2>1, <2>3, <3>1
    <3>2. CASE j < Len(s)
      <4>1. s[j].at \in Waiting /\ Own(s[Len(s)]) \subseteq Handed(s[j])
        <5>1. Len(s) \in 1 .. Len(s)
          BY <1>2
        <5> QED
          BY <2>1, <3>2, <5>1, OuterWaits
      <4>2. Handed(s[Len(s)]) \subseteq Own(s[Len(s)])
        BY DEF Handed, Own
      <4> QED
        BY <1>3, <2>1, <2>3, <4>1, <4>2
    <3> QED
      BY <1>2, <2>1, <3>1, <3>2
  <2> QED
    BY <1>2, <1>3, <2>2, <2>3
<1>5. \A k \in 2 .. Len(r) : Own(r[k]) = Handed(r[k - 1])
  <2> SUFFICES ASSUME NEW k \in 2 .. Len(r) PROVE Own(r[k]) = Handed(r[k - 1])
    OBVIOUS
  <2>1. CASE k <= Len(s)
    BY <1>2, <1>3, <2>1 DEF Nested
  <2>2. CASE k = Len(s) + 1
    BY <1>2, <1>3, <2>2
  <2> QED
    BY <1>2, <1>3, <2>1, <2>2
<1>6. Own(r[1]) = M
  BY <1>2, <1>3 DEF Nested
<1>7. ASSUME NEW k \in 1 .. Len(r)
      PROVE  Sound(P, K, fw, bw, r[k], k > 1 /\ r[k - 1].at = "link")
  <2>1. CASE k <= Len(s)
    <3>1. r[k] = s[k] /\ (k > 1 => r[k - 1] = s[k - 1])
      BY <1>2, <1>3, <2>1
    <3>2. Sound(P, K, fw, bw, s[k], k > 1 /\ s[k - 1].at = "link")
      BY <1>2, <2>1 DEF Nested
    <3>3. (k > 1 /\ r[k - 1].at = "link") = (k > 1 /\ s[k - 1].at = "link")
      BY <3>1
    <3> QED
      BY <3>1, <3>2, <3>3
  <2>2. CASE k = Len(s) + 1
    <3>1. r[k] = d /\ k > 1 /\ r[k - 1] = s[Len(s)]
      BY <1>2, <1>3, <2>2
    <3>2. (k > 1 /\ r[k - 1].at = "link") = (s[Len(s)].at = "link")
      BY <3>1
    <3> QED
      BY <3>1, <3>2
  <2> QED
    BY <1>2, <1>3, <2>1, <2>2
<1>8. Nested(P, K, M, fw, bw, r)
  BY <1>3, <1>4, <1>5, <1>6, <1>7 DEF Nested
<1> QED
  BY <1>1, <1>8

\* The calls without the innermost one, which may have changed the links of its own nodes.
Popped(M, fw, bw, fw2, bw2, s, r) ==
  /\ r = SubSeq(s, 1, Len(s) - 1) /\ Len(s) # 0
  /\ \A n \in M \ Own(s[Len(s)]) : fw2[n] = fw[n] /\ bw2[n] = bw[n]

\* What the outer calls know still holds when the innermost one has returned.
LEMMA PoppedStaysNested ==
  ASSUME NEW P, NEW K, NEW M, NEW fw, NEW bw, NEW fw2, NEW bw2, NEW s, NEW r,
         Nested(P, K, M, fw, bw, s), Popped(M, fw, bw, fw2, bw2, s, r)
  PROVE  /\ Nested(P, K, M, fw2, bw2, r) /\ Len(r) = Len(s) - 1
         /\ Len(r) = 0 => Own(s[Len(s)]) = M
         /\ Len(r) # 0 => r[Len(r)].at \in Waiting /\ Handed(r[Len(r)]) = Own(s[Len(s)])
         /\ Len(r) # 0 => r[Len(r)] = s[Len(s) - 1]
<1>1. s \in Seq(Frames(M)) /\ Len(s) \in Nat \ {0}
  BY DEF Nested, Popped
<1>2. /\ r \in Seq(Frames(M)) /\ Len(r) = Len(s) - 1
      /\ \A k \in 1 .. Len(r) : r[k] = s[k]
  <2> DEFINE n == Len(s) - 1
  <2>1. n \in Int /\ 1 \in Int /\ n >= 0 /\ \A i \in 1 .. n : s[i] \in Frames(M)
    BY <1>1
  <2> HIDE DEF n
  <2>2. /\ SubSeq(s, 1, n) \in Seq(Frames(M))
        /\ Len(SubSeq(s, 1, n)) = IF 1 <= n THEN n - 1 + 1 ELSE 0
        /\ \A i \in 1 .. n - 1 + 1 : SubSeq(s, 1, n)[i] = s[1 + i - 1]
    BY <2>1, SubSeqProperties
  <2>3. Len(r) = n /\ r \in Seq(Frames(M))
    <3>1. r = SubSeq(s, 1, n)
      BY DEF n, Popped
    <3>2. (IF 1 <= n THEN n - 1 + 1 ELSE 0) = n
      BY <2>1
    <3> QED
      BY <2>2, <3>1, <3>2, Zenon
  <2>4. \A k \in 1 .. n : r[k] = s[k]
    <3> SUFFICES ASSUME NEW k \in 1 .. n PROVE r[k] = s[k]
      OBVIOUS
    <3>1. k \in 1 .. n - 1 + 1 /\ 1 + k - 1 = k
      BY <2>1
    <3> QED
      BY <2>2, <3>1 DEF n, Popped
  <2> QED
    BY <2>3, <2>4 DEF n
<1>3. \A k \in 1 .. Len(r) : s[k].at \in Waiting /\ Own(s[Len(s)]) \subseteq Handed(s[k])
  <2> SUFFICES ASSUME NEW k \in 1 .. Len(r)
               PROVE  s[k].at \in Waiting /\ Own(s[Len(s)]) \subseteq Handed(s[k])
    OBVIOUS
  <2>1. k \in 1 .. Len(s) /\ Len(s) \in 1 .. Len(s) /\ k < Len(s)
    BY <1>1, <1>2
  <2> QED
    BY <2>1, OuterWaits
<1>4. ASSUME NEW k \in 1 .. Len(r)
      PROVE  Sound(P, K, fw2, bw2, r[k], k > 1 /\ r[k - 1].at = "link")
  <2>1. r[k] = s[k] /\ s[k] \in Frames(M) /\ (k > 1 => r[k - 1] = s[k - 1])
    BY <1>1, <1>2
  <2>2. Sound(P, K, fw, bw, s[k], k > 1 /\ s[k - 1].at = "link")
    BY <1>1, <1>2 DEF Nested
  <2>3. \A n \in M \ Handed(s[k]) : fw2[n] = fw[n] /\ bw2[n] = bw[n]
    BY <1>3 DEF Popped
  <2>4. Sound(P, K, fw2, bw2, s[k], k > 1 /\ s[k - 1].at = "link")
    BY <1>3, <2>1, <2>2, <2>3, WaitingIsSound
  <2>5. (k > 1 /\ r[k - 1].at = "link") = (k > 1 /\ s[k - 1].at = "link")
    BY <2>1
  <2> QED
    BY <2>1, <2>4, <2>5
<1>5. \A j, k \in 1 .. Len(r) : j < k => r[j].at \in Waiting /\ Own(r[k]) \subseteq Handed(r[j])
  <2> SUFFICES ASSUME NEW j \in 1 .. Len(r), NEW k \in 1 .. Len(r), j < k
               PROVE  r[j].at \in Waiting /\ Own(r[k]) \subseteq Handed(r[j])
    OBVIOUS
  <2>1. j \in 1 .. Len(s) /\ k \in 1 .. Len(s) /\ r[j] = s[j] /\ r[k] = s[k]
    BY <1>1, <1>2
  <2> QED
    BY <2>1, OuterWaits
<1>6. \A k \in 2 .. Len(r) : Own(r[k]) = Handed(r[k - 1])
  <2> SUFFICES ASSUME NEW k \in 2 .. Len(r) PROVE Own(r[k]) = Handed(r[k - 1])
    OBVIOUS
  <2>1. k \in 2 .. Len(s) /\ r[k] = s[k] /\ r[k - 1] = s[k - 1]
    BY <1>1, <1>2
  <2>2. Own(s[k]) = Handed(s[k - 1])
    BY <2>1 DEF Nested
  <2> QED
    BY <2>1, <2>2
<1>7. Len(r) # 0 => Own(r[1]) = M
  BY <1>1, <1>2 DEF Nested
<1>8. Nested(P, K, M, fw2, bw2, r)
  BY <1>2, <1>4, <1>5, <1>6, <1>7 DEF Nested
<1>9. Len(r) = 0 => Own(s[Len(s)]) = M
  <2>1. Len(r) = 0 => Len(s) = 1
    BY <1>1, <1>2
  <2>2. Own(s[1]) = M
    BY <1>1 DEF Nested
  <2> QED
    BY <2>1, <2>2
<1>10. Len(r) # 0 => r[Len(r)] = s[Len(s) - 1] /\ Handed(s[Len(s) - 1]) = Own(s[Len(s)])
  BY <1>1, <1>2 DEF Nested
<1>11. Len(r) # 0 => r[Len(r)].at \in Waiting
  BY <1>1, <1>2, <1>3
<1> QED
  BY <1>2, <1>8, <1>9, <1>10, <1>11

-----------------------------------------------------------------------------
(* The steps.                                                              *)

Sorted == Members(sorting)
PlaceOrder == {p \in Sorted \X Sorted : Place(p[1]) < Place(p[2])}
KeyOrder == {p \in Sorted \X Sorted : Before(p[1], p[2])}

\* What was returned is the chain that the call waiting for it is to get, or the whole list.
Returned(K, M, fw, bw, s, r) ==
  IF r.done
  THEN IF Len(s) = 0 THEN r.nodes = M /\ Apart(K, fw, bw, r.first, M)
       ELSE LET c == s[Len(s)]
            IN /\ c.at \in Waiting /\ r.nodes = Handed(c)
               /\ Chain(K, fw, bw, r.first, Handed(c))
               /\ c.at # "link" => Apart(K, fw, bw, r.first, Handed(c))
  ELSE r = Nothing /\ Len(s) # 0 /\ s[Len(s)].at \notin Waiting

\* There is something behind the cursor that moves once, and the other is not in front of it.
Cursors(P, fw, s, one, two) ==
  IF Len(s) # 0 /\ s[Len(s)].at = "split"
  THEN /\ one \in s[Len(s)].lefts /\ fw[one] # NULL
       /\ two # NULL => two \in s[Len(s)].lefts /\ (two = one \/ <<one, two>> \in P)
  ELSE one = NULL /\ two = NULL

SortRuns ==
  /\ sorting \in Lists
  /\ forward \in [Sorted -> Sorted \cup {NULL}] /\ backward \in [Sorted -> Sorted \cup {NULL}]
  /\ Nested(PlaceOrder, KeyOrder, Sorted, forward, backward, calls)
  /\ Returned(KeyOrder, Sorted, forward, backward, calls, returned)
  /\ Cursors(PlaceOrder, forward, calls, single_step, twice_step)
  /\ last \in Sorted \cup {NULL} /\ (last = NULL <=> Sorted = {})

SortInv == (Sorting => SortRuns) /\ (~Sorting => SortInit)

\* Places are distinct numbers, so that both orders are strict and total.
LEMMA StrictOrders ==
  ASSUME ItemsStand, sorting \in Lists
  PROVE  /\ Sorted \subseteq Nodes /\ NULL \notin Sorted
         /\ Ordered(PlaceOrder, Sorted) /\ Ordered(KeyOrder, Sorted)
         /\ \A n \in Sorted : Place(n) \in 1 .. Len(items[sorting]) /\ items[sorting][Place(n)] = n
<1>1. Sorted \subseteq Nodes /\ NULL \notin Sorted
  BY ListAssumption DEF Sorted, Members
<1>2. \A n \in Sorted : Place(n) \in 1 .. Len(items[sorting]) /\ items[sorting][Place(n)] = n
  BY PositionInItems DEF Sorted, Members, Place
<1>3. /\ \A n \in Sorted : Place(n) \in Nat
      /\ \A m, n \in Sorted : Place(m) = Place(n) => m = n
  <2>1. Len(items[sorting]) \in Nat
    BY MembersOfItems
  <2> QED
    BY <1>2, <2>1
<1>4. \A a, b \in Sorted : <<a, b>> \in PlaceOrder <=> Place(a) < Place(b)
  BY DEF PlaceOrder
<1>5. \A a, b \in Sorted : <<a, b>> \in KeyOrder <=>
                             Key[a] < Key[b] \/ (Key[a] = Key[b] /\ Place(a) < Place(b))
  BY DEF KeyOrder, Before
<1>6. \A n \in Sorted : Key[n] \in Int
  BY <1>1, KeyAssumption
<1>7. PlaceOrder \subseteq Sorted \X Sorted /\ KeyOrder \subseteq Sorted \X Sorted
  BY DEF PlaceOrder, KeyOrder
<1>8. Ordered(PlaceOrder, Sorted)
  BY <1>3, <1>4, <1>7 DEF Ordered
<1>9. Ordered(KeyOrder, Sorted)
  BY <1>3, <1>5, <1>6, <1>7 DEF Ordered
<1> QED
  BY <1>1, <1>2, <1>8, <1>9

\* Nothing else that happens is about the list that is sorted.
LEMMA OrdersStay ==
  ASSUME sorting' = sorting, Sorted' = Sorted, items'[sorting] = items[sorting]
  PROVE  PlaceOrder' = PlaceOrder /\ KeyOrder' = KeyOrder
<1> DEFINE PlaceIn(s, n) == CHOOSE i \in DOMAIN s : s[i] = n
<1>1. \A n : Place(n) = PlaceIn(items[sorting], n) /\ Place(n)' = PlaceIn(items'[sorting], n)
  BY Zenon DEF Place, Sequence!PositionOf
<1> HIDE DEF PlaceIn
<1>2. \A n : Place(n)' = Place(n)
  BY <1>1, Zenon
<1>3. \A m, n : Before(m, n)' <=> Before(m, n)
  BY <1>2, Zenon DEF Before
<1> QED
  BY <1>2, <1>3, Zenon DEF PlaceOrder, KeyOrder

\* What is to be shown of a step inside the call.
LEMMA SortGoesOn ==
  ASSUME SortRuns, UNCHANGED <<listVars, sorting, last>>,
         forward' \in [Sorted -> Sorted \cup {NULL}], backward' \in [Sorted -> Sorted \cup {NULL}],
         Nested(PlaceOrder, KeyOrder, Sorted, forward', backward', calls'),
         Returned(KeyOrder, Sorted, forward', backward', calls', returned'),
         Cursors(PlaceOrder, forward', calls', single_step', twice_step')
  PROVE  SortInv'
<1>1. Sorted' = Sorted /\ items' = items /\ sorting' = sorting /\ last' = last
  BY DEF listVars, links, Sorted, Members
<1>2. PlaceOrder' = PlaceOrder /\ KeyOrder' = KeyOrder
  BY <1>1, OrdersStay, Zenon
<1>3. sorting # NULL
  BY ListAssumption DEF SortRuns
<1>4. Nested(PlaceOrder', KeyOrder', Sorted', forward', backward', calls')
  BY <1>1, <1>2
<1>5. Returned(KeyOrder', Sorted', forward', backward', calls', returned')
  BY <1>1, <1>2
<1>6. Cursors(PlaceOrder', forward', calls', single_step', twice_step')
  BY <1>2
<1>7. SortRuns'
  BY <1>1, <1>4, <1>5, <1>6 DEF SortRuns
<1> QED
  BY <1>1, <1>3, <1>7 DEF SortInv, Sorting

\* The call that is inside all others.
Inner == Len(calls) > 1 /\ calls[Len(calls) - 1].at = "link"

LEMMA TopIsSound ==
  ASSUME SortRuns, calls # <<>>
  PROVE  /\ Len(calls) \in Nat \ {0} /\ Top \in Frames(Sorted)
         /\ Sound(PlaceOrder, KeyOrder, forward, backward, Top, Inner)
         /\ returned.done => /\ Top.at \in Waiting /\ returned.nodes = Handed(Top)
                             /\ Chain(KeyOrder, forward, backward, returned.first, Handed(Top))
                             /\ Top.at # "link" =>
                                  Apart(KeyOrder, forward, backward, returned.first, Handed(Top))
         /\ ~returned.done => Top.at \notin Waiting
         /\ IF Top.at = "split"
            THEN /\ single_step \in Top.lefts /\ forward[single_step] # NULL
                 /\ twice_step # NULL => /\ twice_step \in Top.lefts
                                         /\ twice_step = single_step \/ <<single_step, twice_step>> \in PlaceOrder
            ELSE single_step = NULL /\ twice_step = NULL
<1>1. calls \in Seq(Frames(Sorted))
  BY DEF SortRuns, Nested
<1>2. Len(calls) \in Nat \ {0}
  BY <1>1, EmptySeq, LenProperties
<1>3. Len(calls) \in 1 .. Len(calls)
  BY <1>2
<1>4. Top \in Frames(Sorted)
  BY <1>1, <1>3, ElementOfSeq DEF Top
<1>5. Sound(PlaceOrder, KeyOrder, forward, backward, Top, Inner)
  BY <1>3 DEF SortRuns, Nested, Top, Inner
<1>6. Returned(KeyOrder, Sorted, forward, backward, calls, returned)
  BY DEF SortRuns
<1>7. Cursors(PlaceOrder, forward, calls, single_step, twice_step)
  BY DEF SortRuns
<1> QED
  BY <1>2, <1>4, <1>5, <1>6, <1>7 DEF Returned, Cursors, Top

\* The innermost call goes on.
LEMMA BecomesKeepsSort ==
  ASSUME SortRuns, calls # <<>>, NEW c \in Frames(Sorted), Becomes(c),
         forward' \in [Sorted -> Sorted \cup {NULL}], backward' \in [Sorted -> Sorted \cup {NULL}],
         Own(c) = Own(Top), c.at \notin Waiting,
         \A n \in Sorted \ Own(c) : forward'[n] = forward[n] /\ backward'[n] = backward[n],
         Sound(PlaceOrder, KeyOrder, forward', backward', c, Inner),
         IF c.at = "split"
           THEN /\ single_step' \in c.lefts /\ forward'[single_step'] # NULL
                /\ twice_step' # NULL => /\ twice_step' \in c.lefts
                                         /\ twice_step' = single_step' \/ <<single_step', twice_step'>> \in PlaceOrder
           ELSE single_step' = NULL /\ twice_step' = NULL,
         UNCHANGED <<listVars, sorting, last>>
  PROVE  SortInv'
<1>1. Len(calls) \in Nat \ {0} /\ calls \in Seq(Frames(Sorted))
  BY TopIsSound DEF SortRuns, Nested
<1>2. Nested(PlaceOrder, KeyOrder, Sorted, forward, backward, calls)
  BY DEF SortRuns
<1>3. calls' = [calls EXCEPT ![Len(calls)] = c] /\ returned' = Nothing
  BY DEF Becomes
<1>4. Len(calls') = Len(calls) /\ calls'[Len(calls')] = c
  BY <1>1, <1>3
<1>5. Nested(PlaceOrder, KeyOrder, Sorted, forward', backward', [calls EXCEPT ![Len(calls)] = c])
  BY <1>1, <1>2, ReplacedStaysNested DEF Top, Inner
<1>6. Nested(PlaceOrder, KeyOrder, Sorted, forward', backward', calls')
  BY <1>3, <1>5
<1>7. Returned(KeyOrder, Sorted, forward', backward', calls', returned')
  BY <1>1, <1>3, <1>4 DEF Returned, Nothing
<1>8. Cursors(PlaceOrder, forward', calls', single_step', twice_step')
  BY <1>1, <1>4 DEF Cursors
<1> QED
  BY <1>6, <1>7, <1>8, SortGoesOn

\* The innermost call goes on and calls.
LEMMA CallingKeepsSort ==
  ASSUME SortRuns, calls # <<>>, NEW c \in Frames(Sorted), NEW d \in Frames(Sorted),
         BecomesAndCalls(c, d),
         Own(c) = Own(Top), c.at \in Waiting, Own(d) = Handed(c), d.at \notin Waiting, d.at # "split",
         Top.at # "split",
         Sound(PlaceOrder, KeyOrder, forward, backward, c, Inner),
         Sound(PlaceOrder, KeyOrder, forward, backward, d, c.at = "link"),
         UNCHANGED <<listVars, sorting, heap, single_step, twice_step, last>>
  PROVE  SortInv'
<1>1. Len(calls) \in Nat \ {0} /\ calls \in Seq(Frames(Sorted))
  BY TopIsSound DEF SortRuns, Nested
<1>2. Nested(PlaceOrder, KeyOrder, Sorted, forward, backward, calls)
  BY DEF SortRuns
<1>3. PICK r : r = [calls EXCEPT ![Len(calls)] = c]
  OBVIOUS
<1>4. calls' = Append(r, d) /\ returned' = Nothing
  BY <1>3 DEF BecomesAndCalls
<1>5. Len(r) = Len(calls) /\ r[Len(r)] = c /\ r \in Seq(Frames(Sorted))
  BY <1>1, <1>3
<1>6. Nested(PlaceOrder, KeyOrder, Sorted, forward, backward, [calls EXCEPT ![Len(calls)] = c])
  BY <1>1, <1>2, ReplacedStaysNested DEF Top, Inner
<1>7. Nested(PlaceOrder, KeyOrder, Sorted, forward, backward, r)
  BY <1>3, <1>6
<1>8. Nested(PlaceOrder, KeyOrder, Sorted, forward, backward, Append(r, d))
  BY <1>1, <1>5, <1>7, AppendedStaysNested
<1>9. forward' = forward /\ backward' = backward
  BY DEF heap
<1>10. Nested(PlaceOrder, KeyOrder, Sorted, forward', backward', calls')
  BY <1>4, <1>8, <1>9
<1>11. Len(calls') # 0 /\ calls'[Len(calls')] = d
  BY <1>1, <1>4, <1>5
<1>12. Returned(KeyOrder, Sorted, forward', backward', calls', returned')
  BY <1>4, <1>11 DEF Returned, Nothing
<1>13. Cursors(PlaceOrder, forward', calls', single_step', twice_step')
  <2>1. single_step = NULL /\ twice_step = NULL
    BY TopIsSound
  <2> QED
    BY <1>11, <2>1 DEF Cursors
<1> QED
  BY <1>9, <1>10, <1>12, <1>13, SortGoesOn DEF SortRuns

\* The innermost call returns all it owns.
LEMMA ReturningKeepsSort ==
  ASSUME SortRuns, calls # <<>>, NEW first, Returns(first, Own(Top)),
         forward' \in [Sorted -> Sorted \cup {NULL}], backward' \in [Sorted -> Sorted \cup {NULL}],
         \A n \in Sorted \ Own(Top) : forward'[n] = forward[n] /\ backward'[n] = backward[n],
         Chain(KeyOrder, forward', backward', first, Own(Top)),
         first = NULL \/ backward'[first] = NULL \/ (Len(calls) > 1 /\ calls[Len(calls) - 1].at = "link"),
         Top.at # "split",
         UNCHANGED <<listVars, sorting, single_step, twice_step, last>>
  PROVE  SortInv'
<1>1. Len(calls) \in Nat \ {0}
  BY TopIsSound
<1>2. Nested(PlaceOrder, KeyOrder, Sorted, forward, backward, calls)
  BY DEF SortRuns
<1>3. /\ calls' = SubSeq(calls, 1, Len(calls) - 1)
      /\ returned'.done /\ returned'.first = first /\ returned'.nodes = Own(Top)
  BY DEF Returns, Chained
<1>4. PICK r : r = calls'
  OBVIOUS
<1>5. /\ Nested(PlaceOrder, KeyOrder, Sorted, forward', backward', r) /\ Len(r) = Len(calls) - 1
      /\ Len(r) = 0 => Own(calls[Len(calls)]) = Sorted
      /\ Len(r) # 0 => r[Len(r)].at \in Waiting /\ Handed(r[Len(r)]) = Own(calls[Len(calls)])
      /\ Len(r) # 0 => r[Len(r)] = calls[Len(calls) - 1]
  <2>1. Popped(Sorted, forward, backward, forward', backward', calls, r)
    BY <1>1, <1>3, <1>4 DEF Popped, Top
  <2> QED
    BY <1>2, <2>1, PoppedStaysNested
<1>6. Len(r) = 0 \/ r[Len(r)].at # "link" => first = NULL \/ backward'[first] = NULL
  BY <1>1, <1>5
<1>7. Returned(KeyOrder, Sorted, forward', backward', calls', returned')
  BY <1>3, <1>4, <1>5, <1>6 DEF Returned, Apart, Top
<1>8. Cursors(PlaceOrder, forward', calls', single_step', twice_step')
  <2>1. single_step = NULL /\ twice_step = NULL
    BY TopIsSound
  <2>2. Len(r) # 0 => r[Len(r)].at # "split"
    BY <1>5 DEF Waiting
  <2> QED
    BY <1>4, <2>1, <2>2 DEF Cursors
<1> QED
  BY <1>4, <1>5, <1>7, <1>8, SortGoesOn

LEMMA CallsRun ==
  ASSUME SortInv, calls # <<>>
  PROVE  SortRuns
BY DEF SortInv, SortInit

LEMMA EnteringKeepsSort ==
  ASSUME ItemsStand, SortInv, SortEntered
  PROVE  SortInv'
<1>1. calls # <<>> /\ Top.at = "sort"
  BY DEF SortEntered, At
<1>2. SortRuns
  BY <1>1, CallsRun
<1>3. Top \in Frames(Sorted) /\ Sound(PlaceOrder, KeyOrder, forward, backward, Top, Inner)
  BY <1>1, <1>2, TopIsSound
<1>4. /\ Top.lefts \in SUBSET Sorted /\ Top.left \in Sorted \cup {NULL}
      /\ Top.rights = {} /\ Own(Top) = Top.lefts
      /\ Apart(PlaceOrder, forward, backward, Top.left, Top.lefts)
  BY <1>1, <1>3 DEF Sound, Frames, Own
<1>5. Ordered(PlaceOrder, Sorted) /\ Ordered(KeyOrder, Sorted) /\ NULL \notin Sorted
  BY <1>2, StrictOrders DEF SortRuns
<1>6. /\ forward \in [Sorted -> Sorted \cup {NULL}] /\ backward \in [Sorted -> Sorted \cup {NULL}]
      /\ forward' = forward /\ backward' = backward
      /\ UNCHANGED <<listVars, sorting, last>>
  BY <1>2 DEF SortRuns, SortEntered, heap
<1>7. CASE ~Divides /\ Returns(Top.left, Top.lefts) /\ UNCHANGED <<single_step, twice_step>>
  <2>1. Chain(KeyOrder, forward, backward, Top.left, Top.lefts)
    <3>1. Top.left = NULL \/ forward[Top.left] = NULL
      BY <1>7 DEF Divides
    <3> QED
      BY <1>4, <1>5, <3>1, ChainOfOne DEF Apart
  <2>2. Chain(KeyOrder, forward', backward', Top.left, Own(Top))
    BY <1>4, <1>6, <2>1
  <2>3. Top.left = NULL \/ backward'[Top.left] = NULL
    BY <1>4, <1>6 DEF Apart
  <2>4. Returns(Top.left, Own(Top))
    BY <1>4, <1>7
  <2> QED
    BY <1>1, <1>2, <1>6, <1>7, <2>2, <2>3, <2>4, ReturningKeepsSort
<1>8. CASE /\ Divides /\ Becomes([Top EXCEPT !.at = "split"])
           /\ single_step' = Top.left /\ twice_step' = Top.left
  <2>1. PICK c : c = [Top EXCEPT !.at = "split"]
    OBVIOUS
  <2>2. /\ c \in Frames(Sorted) /\ c.at = "split" /\ c.left = Top.left /\ c.lefts = Top.lefts
        /\ c.right = Top.right /\ c.rights = Top.rights
    BY <1>3, <2>1 DEF Frames, Places
  <2>3. Sound(PlaceOrder, KeyOrder, forward', backward', c, Inner)
    BY <1>4, <1>6, <2>2 DEF Sound
  <2>4. Own(c) = Own(Top) /\ c.at \notin Waiting
    BY <2>2 DEF Own, Waiting
  <2>5. /\ single_step' \in c.lefts /\ forward'[single_step'] # NULL
        /\ twice_step' # NULL => twice_step' \in c.lefts /\ twice_step' = single_step'
    BY <1>4, <1>6, <1>8, <2>2 DEF Apart, Chain, Divides
  <2>6. Becomes(c)
    BY <1>8, <2>1
  <2> QED
    BY <1>1, <1>2, <1>6, <2>2, <2>3, <2>4, <2>5, <2>6, BecomesKeepsSort
<1> QED
  BY <1>7, <1>8 DEF SortEntered

\* The cursor that moves twice needs two links for one of the other.
LEMMA CursorsMove ==
  ASSUME NEW P, NEW M, NEW fw, NEW bw, NEW first, NEW N \in SUBSET M, NEW one \in N, NEW two \in N,
         Ordered(P, M), NULL \notin M, Chain(P, fw, bw, first, N),
         two = one \/ <<one, two>> \in P, fw[two] # NULL, fw[fw[two]] # NULL
  PROVE  /\ fw[one] \in N /\ fw[fw[two]] \in N
         /\ <<fw[one], fw[fw[two]]>> \in P /\ fw[fw[one]] # NULL
<1>1. /\ fw[two] \in N /\ <<two, fw[two]>> \in P
      /\ fw[fw[two]] \in N /\ <<fw[two], fw[fw[two]]>> \in P
  BY DEF Chain
<1>2. fw[one] # NULL
  <2>1. <<one, fw[two]>> \in P
    BY <1>1 DEF Ordered
  <2>2. ~(fw[two] = one \/ <<fw[two], one>> \in P)
    BY <1>1, <2>1 DEF Ordered
  <2> QED
    BY <1>1, <2>2 DEF Chain
<1>3. fw[one] \in N /\ (fw[one] = fw[two] \/ <<fw[one], fw[two]>> \in P)
  <2>1. CASE two = one
    BY <1>1, <2>1
  <2>2. CASE <<one, two>> \in P
    <3>1. /\ fw[one] \in N
          /\ two = one \/ <<two, one>> \in P \/ two = fw[one] \/ <<fw[one], two>> \in P
      BY <1>2 DEF Chain
    <3>2. two = fw[one] \/ <<fw[one], two>> \in P
      BY <2>2, <3>1 DEF Ordered
    <3> QED
      BY <1>1, <3>1, <3>2 DEF Ordered
  <2> QED
    BY <2>1, <2>2
<1>4. <<fw[one], fw[fw[two]]>> \in P
  BY <1>1, <1>3 DEF Ordered
<1>5. fw[fw[one]] # NULL
  <2>1. ~(fw[fw[two]] = fw[one] \/ <<fw[fw[two]], fw[one]>> \in P)
    BY <1>1, <1>3, <1>4 DEF Ordered
  <2> QED
    BY <1>1, <1>3, <2>1 DEF Chain
<1> QED
  BY <1>1, <1>3, <1>4, <1>5

LEMMA MovingKeepsSort ==
  ASSUME ItemsStand, SortInv, SplitMoves
  PROVE  SortInv'
<1>1. calls # <<>> /\ Top.at = "split" /\ twice_step # NULL /\ forward[twice_step] # NULL
  BY DEF SplitMoves, At, TwiceMoves
<1>2. SortRuns
  BY <1>1, CallsRun
<1>3. /\ Len(calls) \in Nat \ {0}
      /\ Top \in Frames(Sorted) /\ Sound(PlaceOrder, KeyOrder, forward, backward, Top, Inner)
      /\ single_step \in Top.lefts /\ forward[single_step] # NULL
      /\ twice_step \in Top.lefts /\ (twice_step = single_step \/ <<single_step, twice_step>> \in PlaceOrder)
  BY <1>1, <1>2, TopIsSound
<1>4. /\ Top.lefts \in SUBSET Sorted
      /\ Chain(PlaceOrder, forward, backward, Top.left, Top.lefts)
  BY <1>1, <1>3 DEF Sound, Frames, Apart
<1>5. Ordered(PlaceOrder, Sorted) /\ NULL \notin Sorted
  BY <1>2, StrictOrders DEF SortRuns
<1>6. /\ forward' = forward /\ backward' = backward /\ calls' = calls /\ returned' = returned
      /\ UNCHANGED <<listVars, sorting, last>>
      /\ twice_step' = forward[forward[twice_step]]
      /\ single_step' = IF twice_step' = NULL THEN single_step ELSE forward[single_step]
  BY DEF SplitMoves, heap
<1>7. Cursors(PlaceOrder, forward', calls', single_step', twice_step')
  <2>1. CASE twice_step' = NULL
    BY <1>1, <1>3, <1>6, <2>1 DEF Cursors, Top
  <2>2. CASE twice_step' # NULL
    <3>1. /\ single_step' = forward[single_step] /\ single_step' \in Top.lefts
          /\ twice_step' \in Top.lefts
          /\ <<single_step', twice_step'>> \in PlaceOrder /\ forward[single_step'] # NULL
      BY <1>1, <1>3, <1>4, <1>5, <1>6, <2>2, CursorsMove
    <3> QED
      BY <1>1, <1>3, <1>6, <3>1 DEF Cursors, Top
  <2> QED
    BY <2>1, <2>2
<1> QED
  BY <1>2, <1>6, <1>7, SortGoesOn DEF SortRuns

LEMMA CuttingKeepsSort ==
  ASSUME ItemsStand, SortInv, SplitCuts
  PROVE  SortInv'
<1>1. calls # <<>> /\ Top.at = "split"
  BY DEF SplitCuts, At
<1>2. SortRuns
  BY <1>1, CallsRun
<1>3. /\ Top \in Frames(Sorted) /\ Sound(PlaceOrder, KeyOrder, forward, backward, Top, Inner)
      /\ single_step \in Top.lefts /\ forward[single_step] # NULL
  BY <1>1, <1>2, TopIsSound
<1>4. /\ Top.lefts \in SUBSET Sorted /\ Top.left \in Sorted \cup {NULL}
      /\ Top.rights = {} /\ Own(Top) = Top.lefts
      /\ Apart(PlaceOrder, forward, backward, Top.left, Top.lefts)
  BY <1>1, <1>3 DEF Sound, Frames, Own
<1>5. /\ Ordered(PlaceOrder, Sorted) /\ NULL \notin Sorted
      /\ \A n \in Sorted : Place(n) \in 1 .. Len(items[sorting]) /\ items[sorting][Place(n)] = n
  BY <1>2, StrictOrders DEF SortRuns
<1>6. forward \in [Sorted -> Sorted \cup {NULL}] /\ backward \in [Sorted -> Sorted \cup {NULL}]
  BY <1>2 DEF SortRuns
<1>7. PICK second, lefts :
        /\ second = forward[single_step]
        /\ lefts = {n \in Top.lefts : Place(n) <= Place(single_step)}
  OBVIOUS
<1>8. lefts = {n \in Top.lefts : n = single_step \/ <<n, single_step>> \in PlaceOrder}
  <2>1. Len(items[sorting]) \in Nat
    BY <1>2, MembersOfItems DEF SortRuns
  <2>2. \A n \in Top.lefts : /\ Place(n) \in Nat /\ Place(single_step) \in Nat
                             /\ Place(n) = Place(single_step) => n = single_step
                             /\ <<n, single_step>> \in PlaceOrder <=> Place(n) < Place(single_step)
    BY <1>3, <1>4, <1>5, <2>1 DEF PlaceOrder
  <2>3. \A n \in Top.lefts : Place(n) <= Place(single_step)
                               <=> (n = single_step \/ <<n, single_step>> \in PlaceOrder)
    BY <2>2
  <2> QED
    BY <1>7, <2>3
<1>9. /\ forward' = [forward EXCEPT ![single_step] = NULL]
      /\ backward' = [backward EXCEPT ![second] = NULL]
      /\ Becomes(Call("halves", Top.left, lefts, second, Top.lefts \ lefts))
      /\ single_step' = NULL /\ twice_step' = NULL
      /\ UNCHANGED <<listVars, sorting, last>>
  BY <1>7 DEF SplitCuts
<1>10. /\ Chain(PlaceOrder, forward', backward', Top.left, lefts)
       /\ Chain(PlaceOrder, forward', backward', second, Top.lefts \ lefts)
       /\ single_step \in lefts /\ second \in Top.lefts \ lefts /\ Top.left \in lefts
       /\ InFront(PlaceOrder, lefts, Top.lefts \ lefts)
  <2>1. Cuts(PlaceOrder, Sorted, forward, backward, Top.left, Top.lefts, single_step, lefts,
             forward', backward')
    BY <1>3, <1>4, <1>5, <1>6, <1>7, <1>8, <1>9 DEF Cuts, Apart
  <2>2. /\ Chain(PlaceOrder, forward', backward', Top.left, lefts)
        /\ Chain(PlaceOrder, forward', backward', forward[single_step], Top.lefts \ lefts)
        /\ single_step \in lefts /\ forward[single_step] \in Top.lefts \ lefts /\ Top.left \in lefts
        /\ InFront(PlaceOrder, lefts, Top.lefts \ lefts)
    BY <2>1, CutChain, SMTT(20)
  <2>3. second = forward[single_step]
    BY <1>7
  <2> QED
    BY <2>2, <2>3
<1>11. PICK c : c = Call("halves", Top.left, lefts, second, Top.lefts \ lefts)
  OBVIOUS
<1>12. lefts \in SUBSET Sorted /\ Top.lefts \ lefts \in SUBSET Sorted /\ second \in Sorted
  BY <1>4, <1>7, <1>10
<1>13. /\ c \in Frames(Sorted) /\ c.at = "halves" /\ c.left = Top.left /\ c.lefts = lefts
       /\ c.right = second /\ c.rights = Top.lefts \ lefts
  BY <1>4, <1>11, <1>12 DEF Call, Frames, Places
<1>14. /\ forward' \in [Sorted -> Sorted \cup {NULL}] /\ backward' \in [Sorted -> Sorted \cup {NULL}]
       /\ \A n \in Sorted \ Top.lefts : forward'[n] = forward[n] /\ backward'[n] = backward[n]
       /\ backward'[second] = NULL /\ (Top.left # NULL => backward'[Top.left] = NULL)
  BY <1>3, <1>4, <1>6, <1>9, <1>10, <1>12 DEF Apart
<1>15. Sound(PlaceOrder, KeyOrder, forward', backward', c, Inner)
  BY <1>10, <1>13, <1>14 DEF Sound, Divided, Apart
<1>16. Own(c) = Own(Top) /\ c.at \notin Waiting /\ Becomes(c)
  BY <1>4, <1>7, <1>9, <1>11, <1>13 DEF Own, Waiting
<1> QED
  BY <1>1, <1>2, <1>4, <1>9, <1>13, <1>14, <1>15, <1>16, BecomesKeepsSort

LEMMA HalvingKeepsSort ==
  ASSUME ItemsStand, SortInv, HalvesCalled
  PROVE  SortInv'
<1>1. calls # <<>> /\ Top.at = "halves"
  BY DEF HalvesCalled, At
<1>2. SortRuns
  BY <1>1, CallsRun
<1>3. Top \in Frames(Sorted) /\ Sound(PlaceOrder, KeyOrder, forward, backward, Top, Inner)
  BY <1>1, <1>2, TopIsSound
<1>4. UNCHANGED <<listVars, sorting, heap, single_step, twice_step, last>>
  BY DEF HalvesCalled
<1>5. /\ Divided(PlaceOrder, Top) /\ Top.lefts \cap Top.rights = {}
      /\ Apart(PlaceOrder, forward, backward, Top.left, Top.lefts)
      /\ Apart(PlaceOrder, forward, backward, Top.right, Top.rights)
  BY <1>1, <1>3 DEF Sound
<1>6. ASSUME BecomesAndCalls([Top EXCEPT !.at = "left"], Half("left")) PROVE SortInv'
  <2>1. PICK c, d : c = [Top EXCEPT !.at = "left"] /\ d = Call("sort", Top.left, Top.lefts, NULL, {})
    OBVIOUS
  <2>2. /\ c \in Frames(Sorted) /\ c.at = "left" /\ c.left = Top.left /\ c.lefts = Top.lefts
        /\ c.right = Top.right /\ c.rights = Top.rights
    BY <1>3, <2>1 DEF Frames, Places
  <2>3. /\ d \in Frames(Sorted) /\ d.at = "sort" /\ d.left = Top.left /\ d.lefts = Top.lefts
        /\ d.right = NULL /\ d.rights = {}
    BY <1>3, <2>1 DEF Call, Frames, Places
  <2>4. Sound(PlaceOrder, KeyOrder, forward, backward, c, Inner)
    BY <1>5, <2>2 DEF Sound, Divided
  <2>5. Sound(PlaceOrder, KeyOrder, forward, backward, d, c.at = "link")
    BY <1>5, <2>3 DEF Sound
  <2>6. /\ Own(c) = Own(Top) /\ c.at \in Waiting /\ Own(d) = Handed(c)
        /\ d.at \notin Waiting /\ d.at # "split" /\ Top.at # "split"
    BY <1>1, <2>2, <2>3 DEF Own, Handed, Waiting
  <2>7. BecomesAndCalls(c, d)
    BY <1>6, <2>1 DEF Half
  <2> QED
    BY <1>1, <1>2, <1>4, <2>2, <2>3, <2>4, <2>5, <2>6, <2>7, CallingKeepsSort
<1>7. ASSUME BecomesAndCalls([Top EXCEPT !.at = "right"], Half("right")) PROVE SortInv'
  <2>1. PICK c, d : c = [Top EXCEPT !.at = "right"] /\ d = Call("sort", Top.right, Top.rights, NULL, {})
    OBVIOUS
  <2>2. /\ c \in Frames(Sorted) /\ c.at = "right" /\ c.left = Top.left /\ c.lefts = Top.lefts
        /\ c.right = Top.right /\ c.rights = Top.rights
    BY <1>3, <2>1 DEF Frames, Places
  <2>3. /\ d \in Frames(Sorted) /\ d.at = "sort" /\ d.left = Top.right /\ d.lefts = Top.rights
        /\ d.right = NULL /\ d.rights = {}
    BY <1>3, <2>1 DEF Call, Frames, Places
  <2>4. Sound(PlaceOrder, KeyOrder, forward, backward, c, Inner)
    BY <1>5, <2>2 DEF Sound, Divided
  <2>5. Sound(PlaceOrder, KeyOrder, forward, backward, d, c.at = "link")
    BY <1>5, <2>3 DEF Sound
  <2>6. /\ Own(c) = Own(Top) /\ c.at \in Waiting /\ Own(d) = Handed(c)
        /\ d.at \notin Waiting /\ d.at # "split" /\ Top.at # "split"
    BY <1>1, <2>2, <2>3 DEF Own, Handed, Waiting
  <2>7. BecomesAndCalls(c, d)
    BY <1>7, <2>1 DEF Half
  <2> QED
    BY <1>1, <1>2, <1>4, <2>2, <2>3, <2>4, <2>5, <2>6, <2>7, CallingKeepsSort
<1> QED
  BY <1>6, <1>7 DEF HalvesCalled

LEMMA HalfKeepsSort ==
  ASSUME ItemsStand, SortInv, HalfReturned
  PROVE  SortInv'
<1>1. calls # <<>> /\ Top.at \in {"left", "right", "left_last", "right_last"} /\ returned.done
  BY DEF HalfReturned, At
<1>2. SortRuns
  BY <1>1, CallsRun
<1>3. /\ Top \in Frames(Sorted) /\ Sound(PlaceOrder, KeyOrder, forward, backward, Top, Inner)
      /\ Apart(KeyOrder, forward, backward, returned.first, Handed(Top))
      /\ single_step = NULL /\ twice_step = NULL
  BY <1>1, <1>2, TopIsSound
<1>4. /\ UNCHANGED <<listVars, sorting, heap, single_step, twice_step, last>>
      /\ UNCHANGED <<listVars, sorting, last>>
      /\ forward' = forward /\ backward' = backward
      /\ forward' \in [Sorted -> Sorted \cup {NULL}] /\ backward' \in [Sorted -> Sorted \cup {NULL}]
      /\ single_step' = NULL /\ twice_step' = NULL
  BY <1>2, <1>3 DEF HalfReturned, heap, SortRuns
<1>5. /\ Top.lefts \in SUBSET Sorted /\ Top.rights \in SUBSET Sorted
      /\ Top.left \in Sorted \cup {NULL} /\ Top.right \in Sorted \cup {NULL}
      /\ Divided(PlaceOrder, Top) /\ Top.lefts \cap Top.rights = {}
  BY <1>1, <1>3 DEF Frames, Sound
<1>6. returned.first \in Handed(Top)
  <2>1. Handed(Top) # {}
    BY <1>1, <1>5 DEF Handed, Divided
  <2> QED
    BY <1>3, <2>1 DEF Apart, Chain
<1>7. ASSUME Top.at = "left",
             BecomesAndCalls([Top EXCEPT !.at = "right_last", !.left = returned.first], Half("right"))
      PROVE  SortInv'
  <2>1. PICK c, d : /\ c = [Top EXCEPT !.at = "right_last", !.left = returned.first]
                    /\ d = Call("sort", Top.right, Top.rights, NULL, {})
    OBVIOUS
  <2>2. Handed(Top) = Top.lefts
    BY <1>7 DEF Handed
  <2>3. /\ c \in Frames(Sorted) /\ c.at = "right_last" /\ c.left = returned.first /\ c.lefts = Top.lefts
        /\ c.right = Top.right /\ c.rights = Top.rights
    BY <1>3, <1>5, <1>6, <2>1, <2>2 DEF Frames, Places
  <2>4. /\ d \in Frames(Sorted) /\ d.at = "sort" /\ d.left = Top.right /\ d.lefts = Top.rights
        /\ d.right = NULL /\ d.rights = {}
    BY <1>5, <2>1 DEF Call, Frames, Places
  <2>5. Apart(PlaceOrder, forward, backward, Top.right, Top.rights)
    BY <1>3, <1>7 DEF Sound
  <2>6. Sound(PlaceOrder, KeyOrder, forward, backward, c, Inner)
    BY <1>3, <1>5, <2>2, <2>3 DEF Sound, Divided
  <2>7. Sound(PlaceOrder, KeyOrder, forward, backward, d, c.at = "link")
    BY <2>4, <2>5 DEF Sound
  <2>8. /\ Own(c) = Own(Top) /\ c.at \in Waiting /\ Own(d) = Handed(c)
        /\ d.at \notin Waiting /\ d.at # "split" /\ Top.at # "split"
    BY <1>7, <2>3, <2>4 DEF Own, Handed, Waiting
  <2>9. BecomesAndCalls(c, d)
    BY <1>7, <2>1 DEF Half
  <2> QED
    BY <1>1, <1>2, <1>4, <2>3, <2>4, <2>6, <2>7, <2>8, <2>9, CallingKeepsSort
<1>8. ASSUME Top.at = "right",
             BecomesAndCalls([Top EXCEPT !.at = "left_last", !.right = returned.first], Half("left"))
      PROVE  SortInv'
  <2>1. PICK c, d : /\ c = [Top EXCEPT !.at = "left_last", !.right = returned.first]
                    /\ d = Call("sort", Top.left, Top.lefts, NULL, {})
    OBVIOUS
  <2>2. Handed(Top) = Top.rights
    BY <1>8 DEF Handed
  <2>3. /\ c \in Frames(Sorted) /\ c.at = "left_last" /\ c.left = Top.left /\ c.lefts = Top.lefts
        /\ c.right = returned.first /\ c.rights = Top.rights
    BY <1>3, <1>5, <1>6, <2>1, <2>2 DEF Frames, Places
  <2>4. /\ d \in Frames(Sorted) /\ d.at = "sort" /\ d.left = Top.left /\ d.lefts = Top.lefts
        /\ d.right = NULL /\ d.rights = {}
    BY <1>5, <2>1 DEF Call, Frames, Places
  <2>5. Apart(PlaceOrder, forward, backward, Top.left, Top.lefts)
    BY <1>3, <1>8 DEF Sound
  <2>6. Sound(PlaceOrder, KeyOrder, forward, backward, c, Inner)
    BY <1>3, <1>5, <2>2, <2>3 DEF Sound, Divided
  <2>7. Sound(PlaceOrder, KeyOrder, forward, backward, d, c.at = "link")
    BY <2>4, <2>5 DEF Sound
  <2>8. /\ Own(c) = Own(Top) /\ c.at \in Waiting /\ Own(d) = Handed(c)
        /\ d.at \notin Waiting /\ d.at # "split" /\ Top.at # "split"
    BY <1>8, <2>3, <2>4 DEF Own, Handed, Waiting
  <2>9. BecomesAndCalls(c, d)
    BY <1>8, <2>1 DEF Half
  <2> QED
    BY <1>1, <1>2, <1>4, <2>3, <2>4, <2>6, <2>7, <2>8, <2>9, CallingKeepsSort
<1>9. ASSUME NEW c, Becomes(c), c \in Frames(Sorted),
             c.at = "merge", c.lefts = Top.lefts, c.rights = Top.rights,
             Apart(KeyOrder, forward, backward, c.left, c.lefts),
             Apart(KeyOrder, forward, backward, c.right, c.rights)
      PROVE  SortInv'
  <2>1. Sound(PlaceOrder, KeyOrder, forward', backward', c, Inner)
    BY <1>4, <1>5, <1>9 DEF Sound, Divided, Apart, Chain, Own
  <2>2. Own(c) = Own(Top) /\ c.at \notin Waiting /\ c.at # "split"
    BY <1>9 DEF Own, Waiting
  <2> QED
    BY <1>1, <1>2, <1>4, <1>9, <2>1, <2>2, BecomesKeepsSort
<1>10. ASSUME Top.at = "left_last", Becomes([Top EXCEPT !.at = "merge", !.left = returned.first])
       PROVE  SortInv'
  <2>1. PICK c : c = [Top EXCEPT !.at = "merge", !.left = returned.first]
    OBVIOUS
  <2>2. Handed(Top) = Top.lefts /\ Apart(KeyOrder, forward, backward, Top.right, Top.rights)
    BY <1>3, <1>10 DEF Handed, Sound
  <2>3. /\ c \in Frames(Sorted) /\ c.at = "merge" /\ c.left = returned.first /\ c.lefts = Top.lefts
        /\ c.right = Top.right /\ c.rights = Top.rights
    BY <1>3, <1>5, <1>6, <2>1, <2>2 DEF Frames, Places
  <2> QED
    BY <1>3, <1>9, <1>10, <2>1, <2>2, <2>3
<1>11. ASSUME Top.at = "right_last", Becomes([Top EXCEPT !.at = "merge", !.right = returned.first])
       PROVE  SortInv'
  <2>1. PICK c : c = [Top EXCEPT !.at = "merge", !.right = returned.first]
    OBVIOUS
  <2>2. Handed(Top) = Top.rights /\ Apart(KeyOrder, forward, backward, Top.left, Top.lefts)
    BY <1>3, <1>11 DEF Handed, Sound
  <2>3. /\ c \in Frames(Sorted) /\ c.at = "merge" /\ c.left = Top.left /\ c.lefts = Top.lefts
        /\ c.right = returned.first /\ c.rights = Top.rights
    BY <1>3, <1>5, <1>6, <2>1, <2>2 DEF Frames, Places
  <2> QED
    BY <1>3, <1>9, <1>11, <2>1, <2>2, <2>3
<1> QED
  BY <1>7, <1>8, <1>10, <1>11 DEF HalfReturned, At

\* A node that comes before all others of a merge is put in front of what the rest returns.
LEMMA PickedKeepsSort ==
  ASSUME SortRuns, calls # <<>>, Top.at = "merge", NEW node \in Sorted, NEW rest \in Frames(Sorted),
         Picks(node, rest), rest.at = "merge",
         Own(Top) = Own(rest) \cup {node}, node \notin Own(rest), Own(rest) # {},
         rest.lefts \cap rest.rights = {}, InFront(PlaceOrder, rest.lefts, rest.rights),
         Chain(KeyOrder, forward, backward, rest.left, rest.lefts),
         Chain(KeyOrder, forward, backward, rest.right, rest.rights),
         \A m \in Own(rest) : <<node, m>> \in KeyOrder,
         backward[node] = NULL \/ (Len(calls) > 1 /\ calls[Len(calls) - 1].at = "link"),
         NULL \notin Sorted,
         UNCHANGED <<listVars, sorting, heap, single_step, twice_step, last>>
  PROVE  SortInv'
<1>1. PICK c : c = Call("link", node, {node}, NULL, Own(rest))
  OBVIOUS
<1>2. Own(rest) \in SUBSET Sorted
  BY DEF Own, Frames
<1>3. /\ c \in Frames(Sorted) /\ c.at = "link" /\ c.left = node /\ c.lefts = {node}
      /\ c.right = NULL /\ c.rights = Own(rest)
  BY <1>1, <1>2 DEF Call, Frames, Places
<1>4. BecomesAndCalls(c, rest)
  BY <1>1 DEF Picks, Own
<1>5. Sound(PlaceOrder, KeyOrder, forward, backward, c, Inner)
  BY <1>3 DEF Sound, Inner
<1>6. c.at = "link"
  BY <1>3
<1>7. Sound(PlaceOrder, KeyOrder, forward, backward, rest, c.at = "link")
  BY <1>6 DEF Sound
<1>8. /\ Own(c) = Own(Top) /\ c.at \in Waiting /\ Own(rest) = Handed(c)
      /\ rest.at \notin Waiting /\ rest.at # "split" /\ Top.at # "split"
  <2>1. Own(c) = {node} \cup Own(rest)
    BY <1>3 DEF Own
  <2> QED
    BY <1>3, <2>1 DEF Handed, Waiting
<1> QED
  BY <1>3, <1>4, <1>5, <1>7, <1>8, CallingKeepsSort

LEMMA PickingKeepsSort ==
  ASSUME ItemsStand, SortInv, MergePicks
  PROVE  SortInv'
<1>1. calls # <<>> /\ Top.at = "merge" /\ Top.left # NULL /\ Top.right # NULL
  BY DEF MergePicks, At
<1>2. SortRuns
  BY <1>1, CallsRun
<1>3. Top \in Frames(Sorted) /\ Sound(PlaceOrder, KeyOrder, forward, backward, Top, Inner)
  BY <1>1, <1>2, TopIsSound
<1>4. UNCHANGED <<listVars, sorting, heap, single_step, twice_step, last>>
  BY DEF MergePicks
<1>5. /\ Top.lefts \in SUBSET Sorted /\ Top.rights \in SUBSET Sorted
      /\ Top.lefts \cap Top.rights = {} /\ InFront(PlaceOrder, Top.lefts, Top.rights)
      /\ Chain(KeyOrder, forward, backward, Top.left, Top.lefts)
      /\ Chain(KeyOrder, forward, backward, Top.right, Top.rights)
  BY <1>1, <1>3 DEF Sound, Frames
<1>6. /\ Top.left \in Top.lefts /\ \A m \in Top.lefts : m = Top.left \/ <<Top.left, m>> \in KeyOrder
      /\ Top.right \in Top.rights /\ \A m \in Top.rights : m = Top.right \/ <<Top.right, m>> \in KeyOrder
  BY <1>1, <1>5 DEF Chain
<1>7. /\ backward[Top.left] = NULL \/ (Len(calls) > 1 /\ calls[Len(calls) - 1].at = "link")
      /\ backward[Top.right] = NULL \/ (Len(calls) > 1 /\ calls[Len(calls) - 1].at = "link")
  BY <1>1, <1>3 DEF Sound, Inner
<1>8. /\ Ordered(KeyOrder, Sorted) /\ NULL \notin Sorted
      /\ forward \in [Sorted -> Sorted \cup {NULL}] /\ Sorted \subseteq Nodes
  BY <1>2, StrictOrders DEF SortRuns
<1>9. ASSUME ~(Key[Top.left] > Key[Top.right]), LeftPicked PROVE SortInv'
  <2>1. PICK rest : rest = Call("merge", forward[Top.left], Top.lefts \ {Top.left}, Top.right, Top.rights)
    OBVIOUS
  <2>2. /\ rest \in Frames(Sorted) /\ rest.at = "merge"
        /\ rest.left = forward[Top.left] /\ rest.lefts = Top.lefts \ {Top.left}
        /\ rest.right = Top.right /\ rest.rights = Top.rights
    BY <1>5, <1>6, <1>8, <2>1 DEF Call, Frames, Places
  <2>3. Chain(KeyOrder, forward, backward, rest.left, rest.lefts)
    <3>1. Chain(KeyOrder, forward, backward, forward[Top.left], Top.lefts \ {Top.left})
      BY <1>1, <1>5, <1>8, RestOfChain
    <3> QED
      BY <2>2, <3>1
  <2>4. <<Top.left, Top.right>> \in KeyOrder
    <3>1. Key[Top.left] \in Int /\ Key[Top.right] \in Int
      BY <1>5, <1>6, <1>8, KeyAssumption
    <3>2. Place(Top.left) < Place(Top.right)
      BY <1>5, <1>6 DEF InFront, PlaceOrder
    <3>3. Before(Top.left, Top.right)
      BY <1>9, <3>1, <3>2 DEF Before
    <3> QED
      BY <1>5, <1>6, <3>3 DEF KeyOrder
  <2>5. \A m \in Own(rest) : <<Top.left, m>> \in KeyOrder
    BY <1>5, <1>6, <1>8, <2>2, <2>4 DEF Own, Ordered
  <2>6. /\ Own(Top) = Own(rest) \cup {Top.left} /\ Top.left \notin Own(rest) /\ Own(rest) # {}
        /\ rest.lefts \cap rest.rights = {}
    BY <1>5, <1>6, <2>2 DEF Own
  <2>7. InFront(PlaceOrder, rest.lefts, rest.rights)
    BY <1>5, <2>2 DEF InFront
  <2>8. Picks(Top.left, rest)
    BY <1>9, <2>1 DEF LeftPicked
  <2>9. Chain(KeyOrder, forward, backward, rest.right, rest.rights)
    BY <1>5, <2>2
  <2>10. Top.left \in Sorted
    BY <1>5, <1>6
  <2> QED
    BY <1>1, <1>2, <1>4, <1>7, <1>8, <2>2, <2>3, <2>5, <2>6, <2>7, <2>8, <2>9, <2>10, PickedKeepsSort
<1>10. ASSUME Key[Top.left] > Key[Top.right], RightPicked PROVE SortInv'
  <2>1. PICK rest : rest = Call("merge", Top.left, Top.lefts, forward[Top.right], Top.rights \ {Top.right})
    OBVIOUS
  <2>2. /\ rest \in Frames(Sorted) /\ rest.at = "merge"
        /\ rest.left = Top.left /\ rest.lefts = Top.lefts
        /\ rest.right = forward[Top.right] /\ rest.rights = Top.rights \ {Top.right}
    BY <1>5, <1>6, <1>8, <2>1 DEF Call, Frames, Places
  <2>3. Chain(KeyOrder, forward, backward, rest.right, rest.rights)
    <3>1. Chain(KeyOrder, forward, backward, forward[Top.right], Top.rights \ {Top.right})
      BY <1>1, <1>5, <1>8, RestOfChain
    <3> QED
      BY <2>2, <3>1
  <2>4. <<Top.right, Top.left>> \in KeyOrder
    <3>1. Key[Top.left] \in Int /\ Key[Top.right] \in Int
      BY <1>5, <1>6, <1>8, KeyAssumption
    <3>2. Before(Top.right, Top.left)
      BY <1>10, <3>1 DEF Before
    <3> QED
      BY <1>5, <1>6, <3>2 DEF KeyOrder
  <2>5. \A m \in Own(rest) : <<Top.right, m>> \in KeyOrder
    BY <1>5, <1>6, <1>8, <2>2, <2>4 DEF Own, Ordered
  <2>6. /\ Own(Top) = Own(rest) \cup {Top.right} /\ Top.right \notin Own(rest) /\ Own(rest) # {}
        /\ rest.lefts \cap rest.rights = {}
    BY <1>5, <1>6, <2>2 DEF Own
  <2>7. InFront(PlaceOrder, rest.lefts, rest.rights)
    BY <1>5, <2>2 DEF InFront
  <2>8. Picks(Top.right, rest)
    BY <1>10, <2>1 DEF RightPicked
  <2>9. Chain(KeyOrder, forward, backward, rest.left, rest.lefts)
    BY <1>5, <2>2
  <2>10. Top.right \in Sorted
    BY <1>5, <1>6
  <2> QED
    BY <1>1, <1>2, <1>4, <1>7, <1>8, <2>2, <2>3, <2>5, <2>6, <2>7, <2>8, <2>9, <2>10, PickedKeepsSort
<1> QED
  BY <1>9, <1>10 DEF MergePicks

LEMMA EndingKeepsSort ==
  ASSUME ItemsStand, SortInv, MergeEnds
  PROVE  SortInv'
<1>1. calls # <<>> /\ Top.at = "merge" /\ (Top.left = NULL \/ Top.right = NULL)
  BY DEF MergeEnds, At
<1>2. SortRuns
  BY <1>1, CallsRun
<1>3. Top \in Frames(Sorted) /\ Sound(PlaceOrder, KeyOrder, forward, backward, Top, Inner)
  BY <1>1, <1>2, TopIsSound
<1>4. PICK first : first = IF Top.left # NULL THEN Top.left ELSE Top.right
  OBVIOUS
<1>5. Returns(first, Own(Top)) /\ UNCHANGED <<listVars, sorting, single_step, twice_step, last>>
  BY <1>4 DEF MergeEnds, Own
<1>6. /\ forward' = forward /\ backward' = backward
      /\ forward' \in [Sorted -> Sorted \cup {NULL}] /\ backward' \in [Sorted -> Sorted \cup {NULL}]
  BY <1>2 DEF MergeEnds, heap, SortRuns
<1>7. /\ Chain(KeyOrder, forward, backward, Top.left, Top.lefts)
      /\ Chain(KeyOrder, forward, backward, Top.right, Top.rights)
  BY <1>1, <1>3 DEF Sound
<1>8. Chain(KeyOrder, forward', backward', first, Own(Top))
  <2>1. CASE Top.left # NULL
    <3>1. Top.rights = {} /\ first = Top.left
      BY <1>1, <1>4, <1>7, <2>1 DEF Chain
    <3>2. Own(Top) = Top.lefts
      BY <3>1 DEF Own
    <3> QED
      BY <1>6, <1>7, <3>1, <3>2
  <2>2. CASE Top.left = NULL
    <3>1. Top.lefts = {} /\ first = Top.right
      BY <1>4, <1>7, <2>2 DEF Chain
    <3>2. Own(Top) = Top.rights
      BY <3>1 DEF Own
    <3> QED
      BY <1>6, <1>7, <3>1, <3>2
  <2> QED
    BY <2>1, <2>2
<1>9. Len(calls) > 1 /\ calls[Len(calls) - 1].at = "link"
  BY <1>1, <1>3, <1>7 DEF Sound, Chain, Inner
<1> QED
  BY <1>1, <1>2, <1>5, <1>6, <1>8, <1>9, ReturningKeepsSort

LEMMA LinkingKeepsSort ==
  ASSUME ItemsStand, SortInv, MergeLinks
  PROVE  SortInv'
<1>1. calls # <<>> /\ Top.at = "link" /\ returned.done
  BY DEF MergeLinks, At
<1>2. SortRuns
  BY <1>1, CallsRun
<1>3. /\ Top \in Frames(Sorted) /\ Sound(PlaceOrder, KeyOrder, forward, backward, Top, Inner)
      /\ Chain(KeyOrder, forward, backward, returned.first, Handed(Top))
  BY <1>1, <1>2, TopIsSound
<1>4. /\ Top.left # NULL /\ Top.lefts = {Top.left} /\ Top.rights # {}
      /\ \A m \in Top.rights : <<Top.left, m>> \in KeyOrder
      /\ backward[Top.left] = NULL \/ (Len(calls) > 1 /\ calls[Len(calls) - 1].at = "link")
      /\ Top.left \notin Top.rights
      /\ Top.left \in Sorted /\ Top.rights \in SUBSET Sorted
  BY <1>1, <1>3 DEF Sound, Inner, Frames
<1>5. Handed(Top) = Top.rights /\ Own(Top) = Top.rights \cup {Top.left}
  BY <1>1, <1>4 DEF Handed, Own
<1>6. /\ Ordered(KeyOrder, Sorted) /\ NULL \notin Sorted
      /\ forward \in [Sorted -> Sorted \cup {NULL}] /\ backward \in [Sorted -> Sorted \cup {NULL}]
  BY <1>2, StrictOrders DEF SortRuns
<1>7. returned.first \in Top.rights /\ returned.first # NULL
  BY <1>3, <1>4, <1>5, <1>6 DEF Chain
<1>8. /\ forward' = [forward EXCEPT ![Top.left] = returned.first]
      /\ backward' = [backward EXCEPT ![returned.first] = Top.left]
      /\ Returns(Top.left, Own(Top)) /\ UNCHANGED <<listVars, sorting, single_step, twice_step, last>>
  BY <1>7 DEF MergeLinks, Own
<1>9. Chain(KeyOrder, forward', backward', Top.left, Own(Top))
  <2>1. Links(KeyOrder, Sorted, forward, backward, returned.first, Top.rights, Top.left, forward', backward')
    BY <1>3, <1>4, <1>5, <1>6, <1>7, <1>8 DEF Links
  <2>2. Chain(KeyOrder, forward', backward', Top.left, Top.rights \cup {Top.left})
    BY <2>1, LongerChain
  <2> QED
    BY <1>5, <2>2
<1>10. /\ forward' \in [Sorted -> Sorted \cup {NULL}] /\ backward' \in [Sorted -> Sorted \cup {NULL}]
       /\ \A n \in Sorted \ Own(Top) : forward'[n] = forward[n] /\ backward'[n] = backward[n]
       /\ backward'[Top.left] = NULL \/ (Len(calls) > 1 /\ calls[Len(calls) - 1].at = "link")
  BY <1>4, <1>5, <1>6, <1>7, <1>8
<1> QED
  BY <1>1, <1>2, <1>8, <1>9, <1>10, ReturningKeepsSort

\* The tail that the list had is somewhere in the sorted one.
LEMMA TailKeepsSort ==
  ASSUME ItemsStand, SortInv, TailMoves
  PROVE  SortInv'
<1>1. SortRuns
  BY DEF SortInv, SortInit, Nothing, TailMoves
<1>2. /\ UNCHANGED <<listVars, sorting>> /\ UNCHANGED <<forward, backward, calls, single_step, twice_step, returned>>
      /\ last # NULL /\ forward[last] # NULL /\ last' = forward[last]
  BY DEF TailMoves, LastMoves, heap
<1>3. last' \in Sorted /\ NULL \notin Sorted
  BY <1>1, <1>2, StrictOrders DEF SortRuns
<1>4. Sorted' = Sorted /\ sorting' = sorting
  BY <1>2 DEF listVars, links, Sorted, Members
<1>5. PlaceOrder' = PlaceOrder /\ KeyOrder' = KeyOrder
  <2>1. items' = items
    BY <1>2 DEF listVars
  <2> QED
    BY <1>4, <2>1, OrdersStay, Zenon
<1>6. sorting # NULL
  BY <1>1, ListAssumption DEF SortRuns
<1>7. SortRuns'
  BY <1>1, <1>2, <1>3, <1>4, <1>5 DEF SortRuns
<1> QED
  BY <1>4, <1>6, <1>7 DEF SortInv, Sorting

-----------------------------------------------------------------------------
(* The call, and the return.                                               *)

PlaceIn(s, n) == CHOOSE i \in DOMAIN s : s[i] = n

LEMMA PlaceInItems ==
  /\ \A n : Place(n) = PlaceIn(items[sorting], n)
  /\ \A n : Place(n)' = PlaceIn(items'[sorting'], n)
  /\ \A l, n : Sequence!PositionOf(l, n) = PlaceIn(items[l], n)
BY Zenon DEF Place, PlaceIn, Sequence!PositionOf

\* A list is a chain in the order of its sequence.
LEMMA ListIsChain ==
  ASSUME ItemsStand, NEW l \in Lists, NEW P, NEW fw, NEW bw,
         P = {p \in Members(l) \X Members(l) : PlaceIn(items[l], p[1]) < PlaceIn(items[l], p[2])},
         fw = [n \in Members(l) |-> next[n]], bw = [n \in Members(l) |-> previous[n]]
  PROVE  /\ fw \in [Members(l) -> Members(l) \cup {NULL}] /\ bw \in [Members(l) -> Members(l) \cup {NULL}]
         /\ Apart(P, fw, bw, head[l], Members(l))
         /\ head[l] \in Members(l) \cup {NULL} /\ tail[l] \in Members(l) \cup {NULL}
         /\ tail[l] = NULL <=> Members(l) = {}
<1> DEFINE M == Members(l)
<1>1. PICK s : s = items[l] /\ Stands(l, s)
  BY DEF ItemsStand
<1>2. Len(s) \in Nat /\ \A i \in 1 .. Len(s) : s[i] \in M /\ s[i] # NULL
  BY <1>1, MembersOfItems, ListAssumption DEF Members
<1>3. \A n \in M : PlaceIn(s, n) \in 1 .. Len(s) /\ s[PlaceIn(s, n)] = n
  BY <1>1, PositionInItems, PlaceInItems DEF Members
<1>4. \A i \in 1 .. Len(s) : PlaceIn(s, s[i]) = i
  BY <1>1, <1>2, <1>3 DEF Stands
<1>5. \A a, b \in M : <<a, b>> \in P <=> PlaceIn(s, a) < PlaceIn(s, b)
  BY <1>1
<1>6. /\ \A i \in 1 .. Len(s) : fw[s[i]] = IF i = Len(s) THEN NULL ELSE s[i + 1]
      /\ \A i \in 1 .. Len(s) : bw[s[i]] = IF i = 1 THEN NULL ELSE s[i - 1]
  BY <1>1, <1>2 DEF Stands
<1>7. /\ head[l] = IF Len(s) = 0 THEN NULL ELSE s[1]
      /\ tail[l] = IF Len(s) = 0 THEN NULL ELSE s[Len(s)]
  BY <1>1 DEF Stands
<1>8. Len(s) = 0 <=> M = {}
  BY <1>2, <1>3
<1> HIDE DEF M
<1>9. ASSUME NEW n \in M
      PROVE  /\ fw[n] = NULL => \A m \in M : m = n \/ <<m, n>> \in P
             /\ fw[n] # NULL => /\ fw[n] \in M /\ <<n, fw[n]>> \in P /\ bw[fw[n]] = n
                                /\ \A m \in M : m = n \/ <<m, n>> \in P \/ m = fw[n] \/ <<fw[n], m>> \in P
             /\ bw[n] \in M \cup {NULL}
  <2>1. PICK i : i = PlaceIn(s, n) /\ i \in 1 .. Len(s) /\ s[i] = n
    BY <1>3
  <2>2. bw[n] \in M \cup {NULL}
    BY <1>2, <1>6, <2>1
  <2>3. ASSUME NEW m \in M PROVE m = n \/ PlaceIn(s, m) < i \/ PlaceIn(s, m) > i
    BY <1>2, <1>3, <2>1
  <2>4. CASE i = Len(s)
    <3>1. fw[n] = NULL
      BY <1>6, <2>1, <2>4
    <3>2. ASSUME NEW m \in M PROVE m = n \/ <<m, n>> \in P
      <4>1. PlaceIn(s, m) \in 1 .. Len(s)
        BY <1>3
      <4>2. m = n \/ PlaceIn(s, m) < i
        BY <1>2, <2>1, <2>3, <2>4, <4>1
      <4> QED
        BY <1>5, <2>1, <4>2
    <3> QED
      BY <2>2, <3>1, <3>2
  <2>5. CASE i # Len(s)
    <3>1. i + 1 \in 1 .. Len(s) /\ fw[n] = s[i + 1] /\ i + 1 - 1 = i /\ i + 1 # 1
      BY <1>2, <1>6, <2>1, <2>5
    <3>2. fw[n] \in M /\ fw[n] # NULL /\ PlaceIn(s, fw[n]) = i + 1 /\ bw[fw[n]] = n
      BY <1>2, <1>4, <1>6, <2>1, <3>1
    <3>3. <<n, fw[n]>> \in P
      BY <1>2, <1>5, <2>1, <3>2
    <3>4. ASSUME NEW m \in M PROVE m = n \/ <<m, n>> \in P \/ m = fw[n] \/ <<fw[n], m>> \in P
      <4>1. PlaceIn(s, m) \in 1 .. Len(s) /\ s[PlaceIn(s, m)] = m
        BY <1>3
      <4>2. PlaceIn(s, m) <= i \/ PlaceIn(s, m) = i + 1 \/ PlaceIn(s, m) > i + 1
        BY <1>2, <2>1, <4>1
      <4>3. PlaceIn(s, m) = i + 1 => m = fw[n]
        BY <3>1, <4>1
      <4>4. PlaceIn(s, m) > i + 1 => <<fw[n], m>> \in P
        BY <1>5, <3>2
      <4>5. PlaceIn(s, m) <= i => m = n \/ <<m, n>> \in P
        BY <1>2, <1>5, <2>1, <2>3, <4>1
      <4> QED
        BY <4>2, <4>3, <4>4, <4>5
    <3> QED
      BY <2>2, <3>2, <3>3, <3>4
  <2> QED
    BY <2>4, <2>5
<1>10. head[l] # NULL => /\ head[l] \in M /\ bw[head[l]] = NULL
                         /\ \A m \in M : m = head[l] \/ <<head[l], m>> \in P
  <2> SUFFICES ASSUME head[l] # NULL
               PROVE  /\ head[l] \in M /\ bw[head[l]] = NULL
                      /\ \A m \in M : m = head[l] \/ <<head[l], m>> \in P
    OBVIOUS
  <2>1. Len(s) # 0 /\ 1 \in 1 .. Len(s) /\ head[l] = s[1] /\ PlaceIn(s, head[l]) = 1
    BY <1>2, <1>4, <1>7
  <2>2. head[l] \in M /\ bw[head[l]] = NULL
    BY <1>2, <1>6, <2>1
  <2>3. \A m \in M : m = head[l] \/ <<head[l], m>> \in P
    BY <1>2, <1>3, <1>5, <2>1, <2>2
  <2> QED
    BY <2>2, <2>3
<1>11. head[l] = NULL <=> M = {}
  BY <1>2, <1>7, <1>8
<1>12. Chain(P, fw, bw, head[l], M)
  BY <1>9, <1>10, <1>11 DEF Chain
<1>13. tail[l] \in M \cup {NULL} /\ (tail[l] = NULL <=> M = {})
  BY <1>2, <1>7, <1>8
<1>14. \A n \in M : fw[n] \in M \cup {NULL} /\ bw[n] \in M \cup {NULL}
  BY <1>9
<1>15. fw \in [M -> M \cup {NULL}] /\ bw \in [M -> M \cup {NULL}]
  BY <1>14 DEF M
<1> QED
  BY <1>10, <1>12, <1>13, <1>15 DEF Apart, M

LEMMA CallKeepsSort ==
  ASSUME ItemsStand, SortInv, NEW l \in Lists, SortCalled(l)
  PROVE  SortInv'
<1>1. /\ SortInit /\ sorting' = l /\ items' = items /\ owner' = owner
      /\ forward' = [n \in Members(l) |-> next[n]] /\ backward' = [n \in Members(l) |-> previous[n]]
      /\ calls' = <<Call("sort", head[l], Members(l), NULL, {})>>
      /\ last' = tail[l] /\ single_step' = NULL /\ twice_step' = NULL /\ returned' = Nothing
  BY DEF SortInv, SortCalled, SortInit, listVars, links
<1>2. Sorted' = Members(l)
  BY <1>1 DEF Sorted, Members
<1>3. PlaceOrder' = {p \in Members(l) \X Members(l) : PlaceIn(items[l], p[1]) < PlaceIn(items[l], p[2])}
  <2>1. \A n : Place(n)' = PlaceIn(items[l], n)
    BY <1>1, PlaceInItems, Zenon
  <2> QED
    BY <1>2, <2>1, Zenon DEF PlaceOrder
<1>4. /\ forward' \in [Members(l) -> Members(l) \cup {NULL}]
      /\ backward' \in [Members(l) -> Members(l) \cup {NULL}]
      /\ Apart(PlaceOrder', forward', backward', head[l], Members(l))
      /\ head[l] \in Members(l) \cup {NULL} /\ tail[l] \in Members(l) \cup {NULL}
      /\ tail[l] = NULL <=> Members(l) = {}
  BY <1>1, <1>3, ListIsChain
<1>5. PICK c : c = Call("sort", head[l], Members(l), NULL, {})
  OBVIOUS
<1>6. /\ c \in Frames(Members(l)) /\ c.at = "sort" /\ c.left = head[l] /\ c.lefts = Members(l)
      /\ c.right = NULL /\ c.rights = {}
  BY <1>4, <1>5 DEF Call, Frames, Places
<1>7. PICK s : s = calls'
  OBVIOUS
<1>8. s \in Seq(Frames(Members(l))) /\ Len(s) = 1 /\ s[1] = c
  BY <1>1, <1>5, <1>6, <1>7
<1>9. Nested(PlaceOrder', KeyOrder', Members(l), forward', backward', s)
  <2>1. Sound(PlaceOrder', KeyOrder', forward', backward', c, FALSE)
    BY <1>4, <1>6 DEF Sound
  <2>2. Own(s[1]) = Members(l)
    BY <1>6, <1>8 DEF Own
  <2>3. \A k \in 1 .. Len(s) : k = 1
    BY <1>8
  <2>4. \A k \in 1 .. Len(s) : Sound(PlaceOrder', KeyOrder', forward', backward', s[k], k > 1 /\ s[k - 1].at = "link")
    <3> SUFFICES ASSUME NEW k \in 1 .. Len(s)
                 PROVE  Sound(PlaceOrder', KeyOrder', forward', backward', s[k], k > 1 /\ s[k - 1].at = "link")
      OBVIOUS
    <3>1. s[k] = c /\ (k > 1 /\ s[k - 1].at = "link") = FALSE
      BY <1>8, <2>3
    <3> QED
      BY <2>1, <3>1
  <2>5. /\ \A j, k \in 1 .. Len(s) : j < k => s[j].at \in Waiting /\ Own(s[k]) \subseteq Handed(s[j])
        /\ \A k \in 2 .. Len(s) : Own(s[k]) = Handed(s[k - 1])
    BY <1>8, <2>3
  <2> QED
    BY <1>8, <2>2, <2>4, <2>5 DEF Nested
<1>10. Returned(KeyOrder', Members(l), forward', backward', s, returned')
  BY <1>1, <1>6, <1>8 DEF Returned, Nothing, Waiting
<1>11. Cursors(PlaceOrder', forward', s, single_step', twice_step')
  BY <1>1, <1>6, <1>8 DEF Cursors
<1>12. SortRuns'
  BY <1>1, <1>2, <1>4, <1>7, <1>9, <1>10, <1>11 DEF SortRuns
<1> QED
  BY <1>1, <1>12, ListAssumption DEF SortInv, Sorting

-----------------------------------------------------------------------------
(* The return: items is put in order beside the links.                     *)

\* The nodes of M, one after the other.
InOrder(R, M, s, N) ==
  /\ Ordered(R, M) /\ IsFiniteSet(M) /\ N = Cardinality(M)
  /\ s \in [1 .. N -> M]
  /\ \A i, j \in 1 .. N : i < j => <<s[i], s[j]>> \in R

\* As many nodes as there are, all different, are all of them.
LEMMA InOrderIsAll ==
  ASSUME NEW R, NEW M, NEW s, NEW N, InOrder(R, M, s, N)
  PROVE  /\ N \in Nat /\ (N = 0 <=> M = {})
         /\ \A i, j \in 1 .. N : s[i] = s[j] => i = j
         /\ \A m \in M : \E i \in 1 .. N : s[i] = m
         /\ \A i, j \in 1 .. N : <<s[i], s[j]>> \in R <=> i < j
<1> USE DEF InOrder
<1>1. N \in Nat /\ (N = 0 <=> M = {})
  BY FS_CardinalityType, FS_EmptySet
<1>2. \A i \in 1 .. N : s[i] \in M
  OBVIOUS
<1>3. ASSUME NEW i \in 1 .. N, NEW j \in 1 .. N
      PROVE  /\ s[i] = s[j] => i = j
             /\ <<s[i], s[j]>> \in R <=> i < j
  <2>1. i = j \/ i < j \/ j < i
    BY <1>1
  <2>2. i < j => <<s[i], s[j]>> \in R /\ s[i] # s[j] /\ <<s[j], s[i]>> \notin R
    BY <1>2 DEF Ordered
  <2>3. j < i => <<s[j], s[i]>> \in R /\ s[i] # s[j] /\ <<s[i], s[j]>> \notin R
    BY <1>2 DEF Ordered
  <2>4. i = j => <<s[i], s[j]>> \notin R
    BY <1>2 DEF Ordered
  <2>5. /\ i = j => ~(i < j)
        /\ j < i => ~(i < j)
    BY <1>1
  <2> QED
    BY <2>1, <2>2, <2>3, <2>4, <2>5
<1>4. s \in Injection(1 .. N, M)
  BY <1>3 DEF Injection, IsInjective
<1>5. IsFiniteSet(1 .. N) /\ Cardinality(1 .. N) = N
  BY <1>1, FS_Interval
<1>6. s \in Surjection(1 .. N, M)
  BY <1>4, <1>5, FS_Injection
<1>7. \A m \in M : \E i \in 1 .. N : s[i] = m
  BY <1>6 DEF Surjection
<1> QED
  BY <1>1, <1>3, <1>7

\* A chain from the first of its nodes to end.
Whole(R, fw, bw, first, end, M) ==
  /\ NULL \notin M /\ Apart(R, fw, bw, first, M)
  /\ end \in M \cup {NULL} /\ (end = NULL <=> M = {})
  /\ end # NULL => fw[end] = NULL

\* The links lead along s.
Along(s, N, fw, bw) ==
  \A i \in 1 .. N : /\ fw[s[i]] = IF i = N THEN NULL ELSE s[i + 1]
                    /\ bw[s[i]] = IF i = 1 THEN NULL ELSE s[i - 1]

\* The links of a chain lead along its nodes in order.
LEMMA ChainInOrder ==
  ASSUME NEW R, NEW M, NEW s, NEW N, InOrder(R, M, s, N),
         NEW fw, NEW bw, NEW first, NEW end, Whole(R, fw, bw, first, end, M)
  PROVE  /\ first = IF N = 0 THEN NULL ELSE s[1]
         /\ end = IF N = 0 THEN NULL ELSE s[N]
         /\ Along(s, N, fw, bw)
<1> USE DEF Whole
<1>1. /\ N \in Nat /\ (N = 0 <=> M = {})
      /\ \A i, j \in 1 .. N : s[i] = s[j] => i = j
      /\ \A m \in M : \E i \in 1 .. N : s[i] = m
      /\ \A i, j \in 1 .. N : <<s[i], s[j]>> \in R <=> i < j
  BY InOrderIsAll
<1>2. \A i \in 1 .. N : s[i] \in M /\ s[i] # NULL
  BY DEF InOrder
<1>3. Chain(R, fw, bw, first, M) /\ (first # NULL => bw[first] = NULL)
  BY DEF Apart
<1>4. CASE N = 0
  BY <1>1, <1>3, <1>4 DEF Chain, Along
<1>5. CASE N # 0
  <2>1. 1 \in 1 .. N /\ N \in 1 .. N
    BY <1>1, <1>5
  <2>2. first = s[1]
    <3>1. first \in M /\ (s[1] = first \/ <<first, s[1]>> \in R)
      BY <1>1, <1>2, <1>3, <1>5, <2>1 DEF Chain
    <3>2. PICK i \in 1 .. N : s[i] = first
      BY <1>1, <3>1
    <3>3. i = 1 \/ i < 1
      BY <1>1, <2>1, <3>1, <3>2
    <3> QED
      BY <1>1, <3>2, <3>3
  <2>3. ASSUME NEW i \in 1 .. N, i # N PROVE fw[s[i]] = s[i + 1] /\ bw[s[i + 1]] = s[i]
    <3>1. i + 1 \in 1 .. N /\ i < i + 1
      BY <1>1, <2>3
    <3>2. <<s[i], s[i + 1]>> \in R
      BY <1>1, <3>1
    <3>3. fw[s[i]] # NULL
      <4> SUFFICES ASSUME fw[s[i]] = NULL PROVE FALSE
        OBVIOUS
      <4>1. s[i + 1] = s[i] \/ <<s[i + 1], s[i]>> \in R
        BY <1>2, <1>3, <3>1 DEF Chain
      <4>2. i + 1 = i \/ i + 1 < i
        BY <1>1, <3>1, <4>1
      <4> QED
        BY <1>1, <4>2
    <3>4. /\ fw[s[i]] \in M /\ <<s[i], fw[s[i]]>> \in R /\ bw[fw[s[i]]] = s[i]
          /\ s[i + 1] = s[i] \/ <<s[i + 1], s[i]>> \in R \/ s[i + 1] = fw[s[i]] \/ <<fw[s[i]], s[i + 1]>> \in R
      BY <1>2, <1>3, <3>1, <3>3 DEF Chain
    <3>5. PICK j \in 1 .. N : s[j] = fw[s[i]]
      BY <1>1, <3>4
    <3>6. i < j
      BY <1>1, <3>4, <3>5
    <3>7. i + 1 = i \/ i + 1 < i \/ i + 1 = j \/ j < i + 1
      BY <1>1, <3>1, <3>4, <3>5
    <3>8. j = i + 1
      BY <1>1, <3>6, <3>7
    <3> QED
      BY <3>4, <3>5, <3>8
  <2>4. fw[s[N]] = NULL
    <3> SUFFICES ASSUME fw[s[N]] # NULL PROVE FALSE
      OBVIOUS
    <3>1. fw[s[N]] \in M /\ <<s[N], fw[s[N]]>> \in R
      BY <1>2, <1>3, <2>1 DEF Chain
    <3>2. PICK j \in 1 .. N : s[j] = fw[s[N]]
      BY <1>1, <3>1
    <3>3. N < j
      BY <1>1, <2>1, <3>1, <3>2
    <3> QED
      BY <1>1, <3>3
  <2>5. end = s[N]
    <3>1. end \in M /\ fw[end] = NULL
      BY <1>1, <1>5
    <3>2. PICK i \in 1 .. N : s[i] = end
      BY <1>1, <3>1
    <3>3. i = N
      BY <1>2, <2>1, <2>3, <3>1, <3>2, <1>1
    <3> QED
      BY <3>2, <3>3
  <2>6. ASSUME NEW i \in 1 .. N, i # 1 PROVE bw[s[i]] = s[i - 1]
    <3>1. i - 1 \in 1 .. N /\ i - 1 # N /\ (i - 1) + 1 = i
      BY <1>1, <2>6
    <3>2. bw[s[(i - 1) + 1]] = s[i - 1]
      BY <2>3, <3>1
    <3> QED
      BY <3>1, <3>2
  <2>7. bw[s[1]] = NULL
    BY <1>2, <1>3, <2>1, <2>2
  <2> QED
    BY <1>5, <2>2, <2>3, <2>4, <2>5, <2>6, <2>7 DEF Along
<1> QED
  BY <1>4, <1>5

\* Every finite set of nodes has such a sequence, so that StableSort is always possible.
LEMMA SomeOrder ==
  ASSUME NEW R, NEW M, Ordered(R, M), IsFiniteSet(M)
  PROVE  \E s : InOrder(R, M, s, Cardinality(M))
<1> DEFINE N == Cardinality(M)
           earlier(m) == {k \in M : <<k, m>> \in R}
           rank == [m \in M |-> Cardinality(earlier(m)) + 1]
<1>1. N \in Nat
  BY FS_CardinalityType
<1>2. ASSUME NEW m \in M
      PROVE  IsFiniteSet(earlier(m)) /\ Cardinality(earlier(m)) \in Nat
  BY FS_Subset, FS_CardinalityType
<1>3. ASSUME NEW m \in M PROVE rank[m] \in 1 .. N
  <2>1. m \notin earlier(m) /\ earlier(m) \cup {m} \in SUBSET M
    BY DEF Ordered
  <2>2. Cardinality(earlier(m) \cup {m}) = Cardinality(earlier(m)) + 1
    BY <1>2, <2>1, FS_AddElement
  <2>3. Cardinality(earlier(m) \cup {m}) <= N
    BY <2>1, FS_Subset
  <2> QED
    BY <1>1, <1>2, <2>2, <2>3
<1>4. ASSUME NEW a \in M, NEW b \in M, <<a, b>> \in R PROVE rank[a] < rank[b]
  <2>1. a \notin earlier(a) /\ earlier(a) \cup {a} \in SUBSET earlier(b)
    BY <1>4 DEF Ordered
  <2>2. Cardinality(earlier(a) \cup {a}) = Cardinality(earlier(a)) + 1
    BY <1>2, <2>1, FS_AddElement
  <2>3. Cardinality(earlier(a) \cup {a}) <= Cardinality(earlier(b))
    BY <1>2, <2>1, FS_Subset
  <2> QED
    BY <1>2, <2>2, <2>3
<1> HIDE DEF rank, earlier
<1>5. \A a, b \in M : rank[a] = rank[b] => a = b
  <2> SUFFICES ASSUME NEW a \in M, NEW b \in M, rank[a] = rank[b], a # b PROVE FALSE
    OBVIOUS
  <2>1. <<a, b>> \in R \/ <<b, a>> \in R
    BY DEF Ordered
  <2>2. rank[a] < rank[b] \/ rank[b] < rank[a]
    BY <1>4, <2>1
  <2> QED
    BY <1>1, <1>3, <2>2
<1>6. rank \in Injection(M, 1 .. N)
  BY <1>3, <1>5 DEF rank, Injection, IsInjective
<1>7. IsFiniteSet(1 .. N) /\ Cardinality(1 .. N) = N
  BY <1>1, FS_Interval
<1>8. rank \in Surjection(M, 1 .. N)
  BY <1>6, <1>7, FS_Injection
<1>9. PICK s : s = [i \in 1 .. N |-> CHOOSE m \in M : rank[m] = i]
  OBVIOUS
<1>10. \A i \in 1 .. N : s[i] \in M /\ rank[s[i]] = i
  BY <1>8, <1>9 DEF Surjection
<1>11. ASSUME NEW i \in 1 .. N, NEW j \in 1 .. N, i < j PROVE <<s[i], s[j]>> \in R
  <2>1. s[i] # s[j]
    BY <1>1, <1>10, <1>11
  <2>2. <<s[j], s[i]>> \notin R
    BY <1>1, <1>4, <1>10, <1>11
  <2> QED
    BY <1>10, <2>1, <2>2 DEF Ordered
<1> QED
  BY <1>9, <1>10, <1>11 DEF InOrder

OthersUnlinked == \A n \in Nodes : owner[n] = NULL => next[n] = NULL /\ previous[n] = NULL

\* Links that stand for the sequences are consistent.
LEMMA StandingAgrees == ItemsStand /\ TypeOK /\ OthersUnlinked => EndsAgree /\ NeighboursAgree
<1> SUFFICES ASSUME ItemsStand, TypeOK, OthersUnlinked PROVE EndsAgree /\ NeighboursAgree
  OBVIOUS
<1>1. ASSUME NEW l \in Lists
      PROVE  /\ (head[l] = NULL) <=> (tail[l] = NULL)
             /\ head[l] # NULL => owner[head[l]] = l /\ previous[head[l]] = NULL
             /\ tail[l] # NULL => owner[tail[l]] = l /\ next[tail[l]] = NULL
  <2>1. PICK s : s = items[l] /\ Stands(l, s)
    BY DEF ItemsStand
  <2>2. Len(s) \in Nat /\ \A i \in 1 .. Len(s) : s[i] \in Nodes /\ s[i] # NULL
    BY <2>1, MembersOfItems, ListAssumption
  <2> QED
    BY <2>1, <2>2 DEF Stands
<1>2. ASSUME NEW n \in Nodes, owner[n] # NULL
      PROVE  /\ next[n] # NULL => previous[next[n]] = n /\ owner[next[n]] = owner[n]
             /\ previous[n] # NULL => next[previous[n]] = n /\ owner[previous[n]] = owner[n]
             /\ next[n] = NULL => tail[owner[n]] = n
             /\ previous[n] = NULL => head[owner[n]] = n
  <2>1. PICK l \in Lists : l = owner[n]
    BY <1>2 DEF TypeOK
  <2>2. PICK s : s = items[l] /\ Stands(l, s)
    BY DEF ItemsStand
  <2>3. Len(s) \in Nat /\ \A i \in 1 .. Len(s) : s[i] \in Nodes /\ s[i] # NULL /\ owner[s[i]] = l
    BY <2>2, MembersOfItems, ListAssumption
  <2>4. PICK i \in 1 .. Len(s) : s[i] = n
    BY <2>1, <2>2 DEF Stands
  <2>5. /\ i # Len(s) => i + 1 \in 1 .. Len(s) /\ i + 1 # 1 /\ (i + 1) - 1 = i
        /\ i # 1 => i - 1 \in 1 .. Len(s) /\ i - 1 # Len(s) /\ (i - 1) + 1 = i
    BY <2>3
  <2>6. /\ i # Len(s) => next[n] = s[i + 1] /\ previous[s[i + 1]] = n
        /\ i # 1 => previous[n] = s[i - 1] /\ next[s[i - 1]] = n
        /\ i = Len(s) => next[n] = NULL /\ tail[l] = n
        /\ i = 1 => previous[n] = NULL /\ head[l] = n
    BY <2>2, <2>3, <2>4, <2>5 DEF Stands
  <2> QED
    BY <2>1, <2>3, <2>5, <2>6
<1> QED
  BY <1>1, <1>2 DEF EndsAgree, NeighboursAgree, OthersUnlinked

\* What f_list_sort leaves behind is the order of its keys.
LEMMA SortsItems ==
  ASSUME ItemsStand, NEW l \in Lists, l = sorting, Sequence!StableSort(l, Key)
  PROVE  \E s \in [1 .. Len(items[l]) -> Sorted] :
           /\ \A i, j \in 1 .. Len(items[l]) : i < j => <<s[i], s[j]>> \in KeyOrder
           /\ items' = [items EXCEPT ![l] = s]
<1>1. PICK s \in [1 .. Len(items[l]) -> Sequence!ToSet(items[l])] :
        /\ \A i, j \in DOMAIN s : i < j => Before(s[i], s[j])
        /\ items' = [items EXCEPT ![l] = s]
  BY ZenonT(60) DEF Sequence!StableSort, Before, Place
<1>2. \A n \in Sequence!ToSet(items[l]) : n \in Sorted
  <2>1. DOMAIN items[l] = 1 .. Len(items[l])
    BY LenProperties, MembersOfItems
  <2>2. \A i \in 1 .. Len(items[l]) : items[l][i] \in Sorted
    BY MembersOfItems DEF Sorted, Members
  <2> QED
    BY <2>1, <2>2 DEF Sequence!ToSet
<1>3. s \in [1 .. Len(items[l]) -> Sorted] /\ DOMAIN s = 1 .. Len(items[l])
  BY <1>2
<1>4. \A i, j \in 1 .. Len(items[l]) : i < j => <<s[i], s[j]>> \in KeyOrder
  <2> SUFFICES ASSUME NEW i \in 1 .. Len(items[l]), NEW j \in 1 .. Len(items[l]), i < j
               PROVE  <<s[i], s[j]>> \in KeyOrder
    OBVIOUS
  <2>1. Before(s[i], s[j])
    BY <1>1, <1>3
  <2>2. s[i] \in Sorted /\ s[j] \in Sorted
    BY <1>3
  <2> QED
    BY <2>1, <2>2 DEF KeyOrder
<1> QED
  BY <1>1, <1>3, <1>4

\* The links are put back, and items is put in order beside them.
LEMMA ReturnKeepsItems ==
  ASSUME ItemsInv, SortInv, SortReturns
  PROVE  ItemsInv' /\ SortInv'
<1>1. SortRuns
  BY DEF SortInv, SortInit, SortReturns, Nothing
<1>2. PICK l \in Lists : l = sorting
  BY <1>1 DEF SortRuns
<1>3. /\ Sorted = Members(l) /\ Sorted \subseteq Nodes /\ NULL \notin Sorted
      /\ \A n \in Nodes : n \in Sorted <=> owner[n] = l
      /\ Ordered(KeyOrder, Sorted)
  BY <1>2, StrictOrders DEF Sorted, Members, ItemsInv
<1>4. /\ Apart(KeyOrder, forward, backward, returned.first, Sorted)
      /\ forward \in [Sorted -> Sorted \cup {NULL}] /\ backward \in [Sorted -> Sorted \cup {NULL}]
      /\ last \in Sorted \cup {NULL} /\ (last = NULL <=> Sorted = {})
      /\ last # NULL => forward[last] = NULL
      /\ single_step = NULL /\ twice_step = NULL
  <2>1. calls = <<>> /\ Len(calls) = 0 /\ returned.done /\ ~LastMoves
    BY DEF SortReturns
  <2>2. Apart(KeyOrder, forward, backward, returned.first, Sorted)
    BY <1>1, <2>1 DEF SortRuns, Returned
  <2>3. single_step = NULL /\ twice_step = NULL
    BY <1>1, <2>1 DEF SortRuns, Cursors
  <2> QED
    BY <1>1, <2>1, <2>2, <2>3 DEF SortRuns, LastMoves
<1>5. PICK N : N = Cardinality(Sorted) /\ IsFiniteSet(Sorted) /\ N = entries[l] /\ N = Len(items[l])
  BY <1>2, <1>3 DEF ItemsInv, ListInv, LinksAgree, CountsAgree, ItemsStand, Stands
<1>6. PICK s \in [1 .. N -> Sorted] :
        /\ \A i, j \in 1 .. N : i < j => <<s[i], s[j]>> \in KeyOrder
        /\ items' = [items EXCEPT ![l] = s]
  BY <1>2, <1>5, SortsItems DEF SortReturns, ItemsInv
<1>7. InOrder(KeyOrder, Sorted, s, N)
  BY <1>3, <1>5, <1>6 DEF InOrder
<1>8. /\ N \in Nat /\ \A i, j \in 1 .. N : s[i] = s[j] => i = j
      /\ \A m \in Sorted : \E i \in 1 .. N : s[i] = m
  BY <1>7, InOrderIsAll
<1>9. /\ returned.first = IF N = 0 THEN NULL ELSE s[1]
      /\ last = IF N = 0 THEN NULL ELSE s[N]
      /\ \A i \in 1 .. N : /\ forward[s[i]] = IF i = N THEN NULL ELSE s[i + 1]
                           /\ backward[s[i]] = IF i = 1 THEN NULL ELSE s[i - 1]
  <2>1. Whole(KeyOrder, forward, backward, returned.first, last, Sorted)
    BY <1>3, <1>4 DEF Whole
  <2>2. /\ returned.first = IF N = 0 THEN NULL ELSE s[1]
        /\ last = IF N = 0 THEN NULL ELSE s[N]
        /\ Along(s, N, forward, backward)
    BY <1>7, <2>1, ChainInOrder
  <2> QED
    BY <2>2 DEF Along
<1>10. /\ head' = [head EXCEPT ![l] = returned.first] /\ tail' = [tail EXCEPT ![l] = last]
       /\ next' = [n \in Nodes |-> IF owner[n] = l THEN forward[n] ELSE next[n]]
       /\ previous' = [n \in Nodes |-> IF owner[n] = l THEN backward[n] ELSE previous[n]]
       /\ owner' = owner /\ entries' = entries
  BY <1>2 DEF SortReturns
<1>11. head \in [Lists -> Nodes \cup {NULL}] /\ tail \in [Lists -> Nodes \cup {NULL}]
  BY DEF ItemsInv, ListInv, TypeOK
<1>12. s \in Seq(Nodes) /\ Len(s) = N
  BY <1>3, <1>6, <1>8
<1>13. Stands(l, s)'
  <2>1. \A i \in 1 .. N : s[i] \in Sorted /\ s[i] \in Nodes /\ owner[s[i]] = l
    BY <1>3, <1>6
  <2>2. /\ head'[l] = IF Len(s) = 0 THEN NULL ELSE s[1]
        /\ tail'[l] = IF Len(s) = 0 THEN NULL ELSE s[Len(s)]
    BY <1>9, <1>10, <1>11, <1>12
  <2>3. \A i \in 1 .. N : /\ next'[s[i]] = forward[s[i]]
                          /\ previous'[s[i]] = backward[s[i]]
    BY <1>10, <2>1
  <2>4. /\ \A i \in 1 .. Len(s) : next'[s[i]] = IF i = Len(s) THEN NULL ELSE s[i + 1]
        /\ \A i \in 1 .. Len(s) : previous'[s[i]] = IF i = 1 THEN NULL ELSE s[i - 1]
    BY <1>9, <1>12, <2>3
  <2>5. entries'[l] = Len(s) /\ \A i \in 1 .. Len(s) : owner'[s[i]] = l
    BY <1>5, <1>10, <1>12, <2>1
  <2>6. \A n \in Nodes : owner'[n] = l => \E i \in 1 .. Len(s) : s[i] = n
    BY <1>3, <1>8, <1>10, <1>12
  <2> QED
    BY <1>8, <1>12, <2>2, <2>4, <2>5, <2>6 DEF Stands
<1>14. ASSUME NEW m \in Lists \ {l} PROVE Stands(m, items[m])'
  <2>1. Stands(m, items[m]) /\ items'[m] = items[m]
    BY <1>6 DEF ItemsInv, ItemsStand
  <2>2. head'[m] = head[m] /\ tail'[m] = tail[m] /\ entries'[m] = entries[m]
    BY <1>10, <1>11
  <2>3. \A n \in Nodes : owner[n] = m => next'[n] = next[n] /\ previous'[n] = previous[n]
    BY <1>10
  <2>4. \A t : t = items[m] => Stands(m, t)'
    BY <1>10, <2>1, <2>2, <2>3, UntouchedStands
  <2> QED
    BY <2>1, <2>4
<1>15. ItemsStand'
  BY <1>6, <1>12, <1>13, <1>14, OneListMoves DEF ItemsInv
<1>16. TypeOK'
  <2>1. /\ returned.first \in Nodes \cup {NULL} /\ last \in Nodes \cup {NULL}
    BY <1>3, <1>4 DEF Apart, Chain
  <2>2. \A n \in Nodes : owner[n] = l => forward[n] \in Nodes \cup {NULL} /\ backward[n] \in Nodes \cup {NULL}
    BY <1>3, <1>4
  <2>3. head' \in [Lists -> Nodes \cup {NULL}] /\ tail' \in [Lists -> Nodes \cup {NULL}]
    BY <1>10, <1>11, <2>1
  <2>4. next' \in [Nodes -> Nodes \cup {NULL}] /\ previous' \in [Nodes -> Nodes \cup {NULL}]
    BY <1>10, <2>2 DEF ItemsInv, ListInv, TypeOK
  <2> QED
    BY <1>10, <2>3, <2>4 DEF ItemsInv, ListInv, TypeOK
<1>17. OthersUnlinked'
  BY <1>10, ListAssumption DEF OthersUnlinked, ItemsInv, ListInv, LinksAgree, NeighboursAgree
<1>18. EndsAgree' /\ NeighboursAgree'
  BY <1>15, <1>16, <1>17, StandingAgrees, PTL
<1>19. CountsAgree'
  BY <1>10 DEF ItemsInv, ListInv, LinksAgree, CountsAgree, Members
<1>20. WalkInv'
  <2>1. WalkInv /\ walk' = [walk EXCEPT !.torn = @ \/ walk.over = l]
    BY <1>2 DEF ItemsInv, SortReturns
  <2>2. CASE walk.over = l
    <3>1. walk' = [walk EXCEPT !.torn = TRUE]
      BY <2>1, <2>2
    <3>2. WalkTyped' /\ walk'.torn /\ walk'.over = walk.over /\ walk'.node = walk.node
          /\ walk'.stayed = walk.stayed
      BY <2>1, <3>1 DEF WalkInv, WalkTyped
    <3> QED
      BY <1>10, <2>1, <3>2 DEF WalkInv, WalkSplits
  <2>3. CASE walk.over # l
    <3>1. (walk.torn \/ walk.over = l) = walk.torn
      BY <2>1, <2>3 DEF WalkInv, WalkTyped
    <3>2. walk' = walk
      BY <2>1, <3>1 DEF WalkInv, WalkTyped
    <3>3. walk.over # NULL => items'[walk.over] = items[walk.over]
      BY <1>6, <2>3 DEF ItemsInv, ItemsStand
    <3> QED
      BY <1>10, <2>1, <3>2, <3>3, UntouchedWalk
  <2> QED
    BY <2>2, <2>3
<1>21. SortInv'
  BY <1>4 DEF SortReturns, SortInv, SortInit, Sorting, heap
<1> QED
  BY <1>15, <1>16, <1>18, <1>19, <1>20, <1>21 DEF ItemsInv, ListInv, LinksAgree

-----------------------------------------------------------------------------
(* The whole of it.                                                        *)

LEMMA InnerStepKeepsSort ==
  ASSUME ItemsInv, SortInv, f_list_sort
  PROVE  ItemsInv' /\ SortInv'
<1>1. ItemsStand
  BY DEF ItemsInv
<1>2. SortInv'
  BY <1>1, EnteringKeepsSort, MovingKeepsSort, CuttingKeepsSort, HalvingKeepsSort, HalfKeepsSort,
     PickingKeepsSort, EndingKeepsSort, LinkingKeepsSort, TailKeepsSort DEF f_list_sort
<1>3. UNCHANGED listVars
  BY DEF f_list_sort, SortEntered, SplitMoves, SplitCuts, HalvesCalled, HalfReturned,
         MergePicks, MergeEnds, MergeLinks, TailMoves
<1>4. ItemsInv'
  BY <1>3, StepKeepsItems
<1> QED
  BY <1>2, <1>4

LEMMA SortStepKeepsInv == ItemsInv /\ SortInv /\ [SortNext]_<<listVars, sortVars>> => ItemsInv' /\ SortInv'
<1> SUFFICES ASSUME ItemsInv, SortInv, [SortNext]_<<listVars, sortVars>> PROVE ItemsInv' /\ SortInv'
  OBVIOUS
<1>1. CASE ~Sorting /\ ListNext /\ UNCHANGED sortVars
  BY <1>1, StepKeepsItems DEF SortInv, SortInit, Sorting, sortVars, heap
<1>2. ASSUME NEW l \in Lists, SortCalled(l) PROVE ItemsInv' /\ SortInv'
  <2>1. UNCHANGED listVars
    BY <1>2 DEF SortCalled
  <2>2. ItemsInv'
    BY <2>1, StepKeepsItems
  <2> QED
    BY <1>2, <2>2, CallKeepsSort DEF ItemsInv
<1>3. CASE f_list_sort
  BY <1>3, InnerStepKeepsSort
<1>4. CASE SortReturns
  BY <1>4, ReturnKeepsItems
<1>5. CASE UNCHANGED <<listVars, sortVars>>
  <2>1. /\ listVars' = listVars /\ sorting' = sorting /\ forward' = forward /\ backward' = backward
        /\ calls' = calls /\ single_step' = single_step /\ twice_step' = twice_step
        /\ returned' = returned /\ last' = last
    BY <1>5 DEF sortVars, heap
  <2>2. ItemsInv'
    BY <1>5, StepKeepsItems
  <2>3. CASE Sorting
    <3>1. SortRuns
      BY <2>3 DEF SortInv
    <3>2. UNCHANGED <<listVars, sorting, last>>
      BY <2>1
    <3>3. /\ Nested(PlaceOrder, KeyOrder, Sorted, forward', backward', calls')
          /\ Returned(KeyOrder, Sorted, forward', backward', calls', returned')
          /\ Cursors(PlaceOrder, forward', calls', single_step', twice_step')
      BY <2>1, <3>1 DEF SortRuns
    <3> QED
      BY <2>1, <2>2, <3>1, <3>2, <3>3, SortGoesOn DEF SortRuns
  <2>4. CASE ~Sorting
    BY <2>1, <2>2, <2>4 DEF SortInv, SortInit, Sorting
  <2> QED
    BY <2>2, <2>3, <2>4
<1> QED
  BY <1>1, <1>2, <1>3, <1>4, <1>5 DEF SortNext

LEMMA SortInvHolds == SortSpec => [](ItemsInv /\ SortInv)
<1>1. ListInit /\ SortInit => ItemsInv /\ SortInv
  BY InitEstablishesItems DEF SortInit, SortInv, Sorting
<1> QED
  BY <1>1, SortStepKeepsInv, PTL DEF SortSpec

LEMMA RunningIsEnough == ItemsInv /\ SortInv => MergeSortIsStable
<1> SUFFICES ASSUME ItemsInv, SortInv, Sorting, calls = <<>>
             PROVE  /\ Sorted # {} => /\ returned.first \in Sorted /\ backward[returned.first] = NULL
                                      /\ \A n \in Sorted : ~Before(n, returned.first)
                    /\ \A n \in Sorted :
                         IF forward[n] = NULL THEN \A m \in Sorted : ~Before(n, m)
                         ELSE /\ forward[n] \in Sorted /\ Before(n, forward[n]) /\ backward[forward[n]] = n
                              /\ \A m \in Sorted : ~(Before(n, m) /\ Before(m, forward[n]))
  BY DEF MergeSortIsStable, Sorted
<1>1. SortRuns /\ Len(calls) = 0
  BY DEF SortInv
<1>2. /\ Chain(KeyOrder, forward, backward, returned.first, Sorted)
      /\ returned.first # NULL => backward[returned.first] = NULL
  BY <1>1 DEF SortRuns, Returned, Apart
<1>3. Ordered(KeyOrder, Sorted)
  BY <1>1, StrictOrders DEF SortRuns, ItemsInv
<1>4. \A m, n \in Sorted : <<m, n>> \in KeyOrder <=> Before(m, n)
  BY DEF KeyOrder
<1>5. \A m, n \in Sorted : Before(m, n) => m # n /\ ~Before(n, m)
  BY <1>3, <1>4 DEF Ordered
<1>6. ASSUME Sorted # {}
      PROVE  /\ returned.first \in Sorted /\ backward[returned.first] = NULL
             /\ \A n \in Sorted : ~Before(n, returned.first)
  BY <1>2, <1>4, <1>5, <1>6 DEF Chain
<1>7. ASSUME NEW n \in Sorted, forward[n] = NULL PROVE \A m \in Sorted : ~Before(n, m)
  BY <1>2, <1>4, <1>5, <1>7 DEF Chain
<1>8. ASSUME NEW n \in Sorted, forward[n] # NULL
      PROVE  /\ forward[n] \in Sorted /\ Before(n, forward[n]) /\ backward[forward[n]] = n
             /\ \A m \in Sorted : ~(Before(n, m) /\ Before(m, forward[n]))
  <2>1. /\ forward[n] \in Sorted /\ <<n, forward[n]>> \in KeyOrder /\ backward[forward[n]] = n
        /\ \A m \in Sorted : m = n \/ <<m, n>> \in KeyOrder \/ m = forward[n] \/ <<forward[n], m>> \in KeyOrder
    BY <1>2, <1>8 DEF Chain
  <2>2. \A m \in Sorted : m = n \/ Before(m, n) \/ m = forward[n] \/ Before(forward[n], m)
    BY <1>4, <2>1
  <2> QED
    BY <1>4, <1>5, <2>1, <2>2
<1> QED
  BY <1>6, <1>7, <1>8

\* Whatever the length of a list and the keys of its nodes, and in whichever order the halves are
\* sorted, f_list_sort links the nodes of the list by key, those with the same key in the order
\* they had, forwards and backwards and none left out.
THEOREM SortIsStable == SortSpec => []MergeSortIsStable
BY RunningIsEnough, SortInvHolds, PTL

\* A list that is sorted between its other operations keeps what they rely on: consistent links,
\* which stand for the sequence, and walks that are complete unless it was their list.
THEOREM SortedListsStand == SortSpec => [](LinksAgree /\ StandsForItems /\ WalkIsComplete)
<1>1. ItemsInv => LinksAgree /\ StandsForItems /\ WalkIsComplete
  BY StandingIsEnough, SplittingIsEnough DEF ItemsInv, ListInv
<1> QED
  BY <1>1, SortInvHolds, PTL

\* There is a stable order of the nodes of every list that is sorted: so StableSort, beside which
\* the sort of list.c returns, never holds it back.
THEOREM SequencesAreSorted ==
  SortSpec =>
    [](Sorting => \E s \in [1 .. Len(items[sorting]) -> Sequence!ToSet(items[sorting])] :
                    \A i, j \in DOMAIN s : i < j => Before(s[i], s[j]))
<1> DEFINE Possible ==
      Sorting => \E s \in [1 .. Len(items[sorting]) -> Sequence!ToSet(items[sorting])] :
                   \A i, j \in DOMAIN s : i < j => Before(s[i], s[j])
<1>1. ItemsInv /\ SortInv => Possible
  <2> SUFFICES ASSUME ItemsInv, SortInv, Sorting
               PROVE  \E s \in [1 .. Len(items[sorting]) -> Sequence!ToSet(items[sorting])] :
                        \A i, j \in DOMAIN s : i < j => Before(s[i], s[j])
    OBVIOUS
  <2>1. sorting \in Lists /\ ItemsStand
    BY DEF SortInv, SortRuns, ItemsInv
  <2>2. Ordered(KeyOrder, Sorted) /\ Sorted \subseteq Nodes
    BY <2>1, StrictOrders
  <2>3. Sorted = Members(sorting)
    BY DEF Sorted
  <2>4. /\ IsFiniteSet(Sorted) /\ Len(items[sorting]) = Cardinality(Sorted)
        /\ \A n \in Sorted : \E i \in 1 .. Len(items[sorting]) : items[sorting][i] = n
    BY <2>1, <2>2, <2>3 DEF ItemsInv, ListInv, LinksAgree, CountsAgree, ItemsStand, Stands, Members
  <2>5. PICK s : InOrder(KeyOrder, Sorted, s, Cardinality(Sorted))
    BY <2>2, <2>4, SomeOrder
  <2>6. DOMAIN items[sorting] = 1 .. Len(items[sorting])
    BY <2>1, LenProperties, MembersOfItems
  <2>7. Sorted \subseteq Sequence!ToSet(items[sorting])
    BY <2>4, <2>6 DEF Sequence!ToSet
  <2>8. s \in [1 .. Len(items[sorting]) -> Sorted] /\ DOMAIN s = 1 .. Len(items[sorting])
    BY <2>4, <2>5 DEF InOrder
  <2>9. s \in [1 .. Len(items[sorting]) -> Sequence!ToSet(items[sorting])]
    BY <2>7, <2>8
  <2>10. \A i, j \in DOMAIN s : i < j => Before(s[i], s[j])
    BY <2>4, <2>5, <2>8 DEF InOrder, KeyOrder
  <2> QED
    BY <2>9, <2>10
<1> HIDE DEF Possible
<1>2. SortSpec => []Possible
  BY <1>1, SortInvHolds, PTL
<1> QED
  BY <1>2 DEF Possible
=============================================================================
