------------------------------ MODULE ListSort ------------------------------
(***************************************************************************)
(* f_list_sort (src/src/list.c): a merge sort on the links themselves, a   *)
(* turn of a loop, a call or a return of its recursion per step.           *)
(*                                                                         *)
(* The code relinks the nodes in place.  Nobody may look at a list while   *)
(* it is sorted, so here its links are in forward and backward from the    *)
(* call to the return, and next and previous get them then.                *)
(***************************************************************************)
EXTENDS List

CONSTANT Key  \* f_list_node_comparison(left, right) is Key[left] > Key[right]

ASSUME KeyAssumption == Key \in [Nodes -> Int]

VARIABLES
  sorting,            \* the list that is sorted, or NULL
  forward, backward,  \* the links of its nodes
  calls,              \* the calls of the recursion, the innermost one last
  single_step, twice_step,  \* the cursors of p_list_node_hard_split
  returned,           \* what the last call has returned
  last                \* list->tail

heap == <<forward, backward>>
sortVars == <<sorting, heap, calls, single_step, twice_step, returned, last>>

\* A call: where it is, the heads of the chains it has in hand, and, as ghosts, the nodes of each.
Call(at, left, lefts, right, rights) ==
  [at |-> at, left |-> left, lefts |-> lefts, right |-> right, rights |-> rights]

\* A returned chain, and its nodes.
Nothing == [done |-> FALSE, first |-> NULL, nodes |-> {}]
Chained(first, nodes) == [done |-> TRUE, first |-> first, nodes |-> nodes]

Sorting == sorting # NULL
Top == calls[Len(calls)]
At(place) == calls # <<>> /\ Top.at = place

Becomes(c) == calls' = [calls EXCEPT ![Len(calls)] = c] /\ returned' = Nothing

BecomesAndCalls(c, inner) ==
  calls' = Append([calls EXCEPT ![Len(calls)] = c], inner) /\ returned' = Nothing

Returns(first, nodes) ==
  calls' = SubSeq(calls, 1, Len(calls) - 1) /\ returned' = Chained(first, nodes)

SortInit ==
  /\ sorting = NULL /\ forward = <<>> /\ backward = <<>> /\ calls = <<>>
  /\ single_step = NULL /\ twice_step = NULL /\ returned = Nothing /\ last = NULL

\* The place of a node in the list as it was, and what the sort is to order the nodes by: the key,
\* and the place where it is the same.
Place(n) == Sequence!PositionOf(sorting, n)

Before(m, n) == Key[m] < Key[n] \/ (Key[m] = Key[n] /\ Place(m) < Place(n))

-----------------------------------------------------------------------------
(* f_list_sort calls p_list_node_merge_sort, and then looks for the tail.  *)

SortCalled(l) ==
  /\ ~Sorting /\ sorting' = l
  /\ forward' = [n \in Members(l) |-> next[n]]
  /\ backward' = [n \in Members(l) |-> previous[n]]
  /\ calls' = <<Call("sort", head[l], Members(l), NULL, {})>>
  /\ last' = tail[l]
  /\ UNCHANGED <<listVars, single_step, twice_step, returned>>

Divides == Top.left # NULL /\ forward[Top.left] # NULL

SortEntered ==
  /\ At("sort")
  /\ \/ /\ ~Divides
        /\ Returns(Top.left, Top.lefts)
        /\ UNCHANGED <<single_step, twice_step>>
     \/ /\ Divides
        /\ Becomes([Top EXCEPT !.at = "split"])
        /\ single_step' = Top.left /\ twice_step' = Top.left
  /\ UNCHANGED <<listVars, sorting, heap, last>>

\* p_list_node_hard_split: one cursor moves once while the other one moves twice.
TwiceMoves == twice_step # NULL /\ forward[twice_step] # NULL

SplitMoves ==
  /\ At("split") /\ TwiceMoves
  /\ twice_step' = forward[forward[twice_step]]
  /\ single_step' = IF twice_step' = NULL THEN single_step ELSE forward[single_step]
  /\ UNCHANGED <<listVars, sorting, heap, calls, returned, last>>

SplitCuts ==
  /\ At("split") /\ ~TwiceMoves
  /\ LET second == forward[single_step]
         lefts == {n \in Top.lefts : Place(n) <= Place(single_step)}
     IN /\ backward' = [backward EXCEPT ![second] = NULL]
        /\ forward' = [forward EXCEPT ![single_step] = NULL]
        /\ Becomes(Call("halves", Top.left, lefts, second, Top.lefts \ lefts))
  /\ single_step' = NULL /\ twice_step' = NULL
  /\ UNCHANGED <<listVars, sorting, last>>

\* The halves are sorted in either order: C does not say which argument is evaluated first.
Half(side) == IF side = "left" THEN Call("sort", Top.left, Top.lefts, NULL, {})
                               ELSE Call("sort", Top.right, Top.rights, NULL, {})

HalvesCalled ==
  /\ At("halves")
  /\ \E side \in {"left", "right"} : BecomesAndCalls([Top EXCEPT !.at = side], Half(side))
  /\ UNCHANGED <<listVars, sorting, heap, single_step, twice_step, last>>

HalfReturned ==
  /\ returned.done
  /\ \/ /\ At("left")
        /\ BecomesAndCalls([Top EXCEPT !.at = "right_last", !.left = returned.first], Half("right"))
     \/ /\ At("right")
        /\ BecomesAndCalls([Top EXCEPT !.at = "left_last", !.right = returned.first], Half("left"))
     \/ At("left_last") /\ Becomes([Top EXCEPT !.at = "merge", !.left = returned.first])
     \/ At("right_last") /\ Becomes([Top EXCEPT !.at = "merge", !.right = returned.first])
  /\ UNCHANGED <<listVars, sorting, heap, single_step, twice_step, last>>

-----------------------------------------------------------------------------
(* p_list_node_hard_merge: the smaller of the two heads is put in front of *)
(* what the merge of the rest returns.                                     *)

Picks(node, rest) ==
  BecomesAndCalls(Call("link", node, {node}, NULL, rest.lefts \cup rest.rights), rest)

LeftPicked ==
  Picks(Top.left, Call("merge", forward[Top.left], Top.lefts \ {Top.left}, Top.right, Top.rights))

RightPicked ==
  Picks(Top.right, Call("merge", Top.left, Top.lefts, forward[Top.right], Top.rights \ {Top.right}))

MergePicksUnstably ==  \* mutant: of two equal nodes the right one comes first
  /\ At("merge") /\ NULL \notin {Top.left, Top.right}
  /\ \/ Key[Top.left] < Key[Top.right] /\ LeftPicked
     \/ ~(Key[Top.left] < Key[Top.right]) /\ RightPicked
  /\ UNCHANGED <<listVars, sorting, heap, single_step, twice_step, last>>

MergePicks ==
  /\ At("merge") /\ NULL \notin {Top.left, Top.right}
  /\ \/ ~(Key[Top.left] > Key[Top.right]) /\ LeftPicked
     \/ Key[Top.left] > Key[Top.right] /\ RightPicked
  /\ UNCHANGED <<listVars, sorting, heap, single_step, twice_step, last>>

MergeEnds ==
  /\ At("merge") /\ NULL \in {Top.left, Top.right}
  /\ Returns(IF Top.left # NULL THEN Top.left ELSE Top.right, Top.lefts \cup Top.rights)
  /\ UNCHANGED <<listVars, sorting, heap, single_step, twice_step, last>>

MergeLinks ==
  /\ At("link") /\ returned.done
  /\ forward' = [forward EXCEPT ![Top.left] = returned.first]
  /\ backward' = IF returned.first = NULL THEN backward
                 ELSE [backward EXCEPT ![returned.first] = Top.left]
  /\ Returns(Top.left, Top.lefts \cup Top.rights)
  /\ UNCHANGED <<listVars, sorting, single_step, twice_step, last>>

-----------------------------------------------------------------------------
LastMoves == last # NULL /\ forward[last] # NULL

TailMoves ==
  /\ calls = <<>> /\ returned.done /\ LastMoves
  /\ last' = forward[last]
  /\ UNCHANGED <<listVars, sorting, heap, calls, single_step, twice_step, returned>>

\* The nodes of the list are its nodes in another order, and a walk over it has lost its place.
SortReturns ==
  /\ calls = <<>> /\ returned.done /\ ~LastMoves
  /\ head' = [head EXCEPT ![sorting] = returned.first]
  /\ tail' = [tail EXCEPT ![sorting] = last]
  /\ next' = [n \in Nodes |-> IF owner[n] = sorting THEN forward[n] ELSE next[n]]
  /\ previous' = [n \in Nodes |-> IF owner[n] = sorting THEN backward[n] ELSE previous[n]]
  /\ Sequence!StableSort(sorting, Key)
  /\ walk' = [walk EXCEPT !.torn = @ \/ walk.over = sorting]
  /\ sorting' = NULL /\ forward' = <<>> /\ backward' = <<>>
  /\ returned' = Nothing /\ last' = NULL
  /\ UNCHANGED <<entries, owner, calls, single_step, twice_step>>

\* The steps inside the call.
f_list_sort ==
  \/ SortEntered \/ SplitMoves \/ SplitCuts \/ HalvesCalled \/ HalfReturned
  \/ MergePicks \/ MergeEnds \/ MergeLinks \/ TailMoves

\* The lists of one owner, who does nothing else while he sorts.
SortNext ==
  \/ ~Sorting /\ ListNext /\ UNCHANGED sortVars
  \/ (\E l \in Lists : SortCalled(l)) \/ f_list_sort \/ SortReturns

SortSpec == ListInit /\ SortInit /\ [][SortNext]_<<listVars, sortVars>>

-----------------------------------------------------------------------------
\* When the sort has returned, each link leads to the node that comes next by key, and where the
\* keys are the same by its place before: forward and backward, from the first of all to the last,
\* and through every node.
MergeSortIsStable ==
  Sorting /\ calls = <<>> =>
    LET nodes == Members(sorting)
    IN /\ nodes # {} => /\ returned.first \in nodes /\ backward[returned.first] = NULL
                        /\ \A n \in nodes : ~Before(n, returned.first)
       /\ \A n \in nodes :
            IF forward[n] = NULL THEN \A m \in nodes : ~Before(n, m)
            ELSE /\ forward[n] \in nodes /\ Before(n, forward[n]) /\ backward[forward[n]] = n
                 /\ \A m \in nodes : ~(Before(n, m) /\ Before(m, forward[n]))
=============================================================================
