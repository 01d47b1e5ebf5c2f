-------------------------------- MODULE List --------------------------------
(***************************************************************************)
(* src/list.c: an intrusive doubly linked list.  The links live in the     *)
(* nodes, which belong to the caller.  Operations on one list are never    *)
(* concurrent: the list has no lock, its users bring their own.            *)
(*                                                                         *)
(* The ghost items is moved by the actions of ListSequence, the links by   *)
(* the code; StandsForItems says that they stay together.                  *)
(***************************************************************************)
EXTENDS Sequences, Integers, FiniteSets

CONSTANTS Lists,  \* s_list structures, zeroed by their owner
          Nodes,  \* s_list_node structures, zeroed before they are first appended
          NULL

ASSUME ListAssumption == Lists \cap Nodes = {} /\ NULL \notin Lists \cup Nodes

VARIABLES
  head, tail, entries,    \* the fields of s_list
  next, previous, owner,  \* the fields of s_list_node
  items,                  \* ghost: the sequence each list stands for
  walk                    \* a d_list_foreach of the user

links == <<head, tail, entries, next, previous, owner>>
listVars == <<links, items, walk>>

Sequence == INSTANCE ListSequence

NotWalking == [over |-> NULL, node |-> NULL, visited |-> {}, stayed |-> {}, torn |-> FALSE]

ListInit ==
  /\ head = [l \in Lists |-> NULL]
  /\ tail = [l \in Lists |-> NULL]
  /\ entries = [l \in Lists |-> 0]
  /\ next = [n \in Nodes |-> NULL]
  /\ previous = [n \in Nodes |-> NULL]
  /\ owner = [n \in Nodes |-> NULL]
  /\ Sequence!Init
  /\ walk = NotWalking

-----------------------------------------------------------------------------
(***************************************************************************)
(* The operations of list.c.                                               *)
(***************************************************************************)
Owned(l, n) ==
  /\ owner' = [owner EXCEPT ![n] = l]
  /\ entries' = [entries EXCEPT ![l] = @ + 1]

AppendHead(l, n) ==
  /\ previous' = IF head[l] = NULL THEN previous ELSE [previous EXCEPT ![head[l]] = n]
  /\ tail' = IF head[l] = NULL THEN [tail EXCEPT ![l] = n] ELSE tail
  /\ next' = [next EXCEPT ![n] = head[l]]
  /\ head' = [head EXCEPT ![l] = n]

AppendTailUnlinked(l, n) ==  \* mutant: the new node does not point back
  /\ next' = IF tail[l] = NULL THEN next ELSE [next EXCEPT ![tail[l]] = n]
  /\ head' = IF tail[l] = NULL THEN [head EXCEPT ![l] = n] ELSE head
  /\ tail' = [tail EXCEPT ![l] = n]
  /\ UNCHANGED previous

AppendTail(l, n) ==
  /\ next' = IF tail[l] = NULL THEN next ELSE [next EXCEPT ![tail[l]] = n]
  /\ head' = IF tail[l] = NULL THEN [head EXCEPT ![l] = n] ELSE head
  /\ previous' = [previous EXCEPT ![n] = tail[l]]
  /\ tail' = [tail EXCEPT ![l] = n]

\* d_assert stops the program unless the node is in no list.
f_list_append(l, n, kind) ==
  /\ owner[n] = NULL
  /\ \/ kind = "head" /\ AppendHead(l, n)
     \/ kind = "tail" /\ AppendTail(l, n)
  /\ Owned(l, n)

SpliceCuts(l, n, p) ==  \* mutant: the rest of the list is cut off behind the new node
  /\ owner[n] = NULL
  /\ next' = [next EXCEPT ![p] = n]
  /\ previous' = [previous EXCEPT ![next[p]] = n, ![n] = p]
  /\ Owned(l, n)
  /\ UNCHANGED <<head, tail>>

Splice(l, n, p) ==
  /\ owner[n] = NULL
  /\ next' = [next EXCEPT ![n] = next[p], ![p] = n]
  /\ previous' = [previous EXCEPT ![next[p]] = n, ![n] = p]
  /\ Owned(l, n)
  /\ UNCHANGED <<head, tail>>

f_list_insert_swapped(l, n, p) ==  \* mutant: behind the last node means in front of the first
  \/ p # NULL /\ next[p] # NULL /\ Splice(l, n, p)
  \/ p # NULL /\ next[p] = NULL /\ f_list_append(l, n, "head")
  \/ p = NULL /\ f_list_append(l, n, "head")

f_list_insert(l, n, p) ==
  \/ p # NULL /\ next[p] # NULL /\ Splice(l, n, p)
  \/ p # NULL /\ next[p] = NULL /\ f_list_append(l, n, "tail")
  \/ p = NULL /\ f_list_append(l, n, "head")

f_list_remove(l, n) ==
  /\ owner[n] = l
  /\ previous' = IF next[n] = NULL THEN [previous EXCEPT ![n] = NULL]
                 ELSE [previous EXCEPT ![next[n]] = previous[n], ![n] = NULL]
  /\ next' = IF previous[n] = NULL THEN [next EXCEPT ![n] = NULL]
             ELSE [next EXCEPT ![previous[n]] = next[n], ![n] = NULL]
  /\ tail' = IF next[n] = NULL THEN [tail EXCEPT ![l] = previous[n]] ELSE tail
  /\ head' = IF previous[n] = NULL THEN [head EXCEPT ![l] = next[n]] ELSE head
  /\ owner' = [owner EXCEPT ![n] = NULL]
  /\ entries' = [entries EXCEPT ![l] = @ - 1]

-----------------------------------------------------------------------------
(***************************************************************************)
(* The steps of a user, with what they mean for items and for the walk.    *)
(* A walk is torn when the node it stands on leaves the list.              *)
(***************************************************************************)
LeavesWalk(n) ==
  walk' = [walk EXCEPT !.stayed = @ \ {n}, !.torn = @ \/ walk.node = n]

AppendNode(l, n, kind) ==
  /\ f_list_append(l, n, kind)
  /\ IF kind = "head" THEN Sequence!Prepend(l, n) ELSE Sequence!AppendLast(l, n)
  /\ UNCHANGED walk

\* The caller passes a predecessor that is in the list it names; the code does not look.
Insert(l, n, p) ==
  /\ p # NULL => owner[p] = l
  /\ f_list_insert(l, n, p)
  /\ IF p = NULL THEN Sequence!Prepend(l, n) ELSE Sequence!InsertAfter(l, n, p)
  /\ UNCHANGED walk

RemoveNode(l, n) ==
  /\ f_list_remove(l, n)
  /\ Sequence!Take(l, n)
  /\ LeavesWalk(n)

\* d_list_foreach: the body runs between two steps, and may change the list.
WalkStart(l) ==
  /\ walk.over = NULL
  /\ walk' = [over |-> l, node |-> head[l], visited |-> {},
              stayed |-> {n \in Nodes : owner[n] = l}, torn |-> FALSE]
  /\ UNCHANGED <<links, items>>

WalkStep ==
  /\ walk.node # NULL
  /\ walk' = [walk EXCEPT !.visited = @ \cup {walk.node}, !.node = next[walk.node]]
  /\ UNCHANGED <<links, items>>

WalkEnd ==
  /\ walk.over # NULL
  /\ walk.node = NULL
  /\ walk' = NotWalking
  /\ UNCHANGED <<links, items>>

ListNext ==
  \/ \E l \in Lists, n \in Nodes, kind \in {"head", "tail"} : AppendNode(l, n, kind)
  \/ \E l \in Lists, n \in Nodes, p \in Nodes \cup {NULL} : Insert(l, n, p)
  \/ \E l \in Lists, n \in Nodes : RemoveNode(l, n)
  \/ \E l \in Lists : WalkStart(l)
  \/ WalkStep
  \/ WalkEnd

ListSpec == ListInit /\ [][ListNext]_listVars

-----------------------------------------------------------------------------
(***************************************************************************)
(* Properties.                                                             *)
(***************************************************************************)
TypeOK ==
  /\ head \in [Lists -> Nodes \cup {NULL}]
  /\ tail \in [Lists -> Nodes \cup {NULL}]
  /\ entries \in [Lists -> Nat]
  /\ next \in [Nodes -> Nodes \cup {NULL}]
  /\ previous \in [Nodes -> Nodes \cup {NULL}]
  /\ owner \in [Nodes -> Lists \cup {NULL}]

\* The ends of each list, and every pair of neighbours, agree about who is next to whom; a
\* node in no list has no neighbours, and entries counts the nodes of a list.  This is what lets
\* f_list_append and f_list_remove work on the neighbours of a node only.
EndsAgree ==
  \A l \in Lists :
    /\ (head[l] = NULL) <=> (tail[l] = NULL)
    /\ head[l] # NULL => owner[head[l]] = l /\ previous[head[l]] = NULL
    /\ tail[l] # NULL => owner[tail[l]] = l /\ next[tail[l]] = NULL

NeighboursAgree ==
  \A n \in Nodes :
    /\ next[n] # NULL => previous[next[n]] = n /\ owner[next[n]] = owner[n]
    /\ previous[n] # NULL => next[previous[n]] = n /\ owner[previous[n]] = owner[n]
    /\ owner[n] = NULL => next[n] = NULL /\ previous[n] = NULL
    /\ owner[n] # NULL /\ next[n] = NULL => tail[owner[n]] = n
    /\ owner[n] # NULL /\ previous[n] = NULL => head[owner[n]] = n

Members(l) == {n \in Nodes : owner[n] = l}

CountsAgree == \A l \in Lists : IsFiniteSet(Members(l)) /\ entries[l] = Cardinality(Members(l))

LinksAgree == EndsAgree /\ NeighboursAgree /\ CountsAgree

\* The links of every list, followed from either end, are the sequence that its operations
\* promise (append at an end, insert behind a node, take out, sort), entries is its length, and
\* the nodes of a list are those that name it as their owner.
StandsForItems ==
  \A l \in Lists :
    LET s == items[l]
    IN /\ head[l] = IF s = <<>> THEN NULL ELSE s[1]
       /\ tail[l] = IF s = <<>> THEN NULL ELSE s[Len(s)]
       /\ \A i \in 1 .. Len(s) :
            /\ next[s[i]] = IF i = Len(s) THEN NULL ELSE s[i + 1]
            /\ previous[s[i]] = IF i = 1 THEN NULL ELSE s[i - 1]
       /\ entries[l] = Len(s)
       /\ Members(l) = {s[i] : i \in 1 .. Len(s)}

\* A d_list_foreach whose body changes the list, but never takes out the node it stands on nor
\* sorts, visits every node that was there from its start to its end, and no such node twice.
WalkIsComplete ==
  ~walk.torn =>
    /\ walk.over # NULL /\ walk.node = NULL => walk.stayed \subseteq walk.visited
    /\ walk.node \in walk.stayed => walk.node \notin walk.visited
=============================================================================
