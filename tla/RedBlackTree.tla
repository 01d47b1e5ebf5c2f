---------------------------- MODULE RedBlackTree ----------------------------
(***************************************************************************)
(* src/red_black_tree.c: an intrusive search tree that balances itself.    *)
(* The code spells every case out twice, for left and for right; here the  *)
(* side is a parameter.  A step is one call of a recursion, or one turn of *)
(* the loop of p_red_black_tree_fix.                                       *)
(***************************************************************************)
EXTENDS Integers, Sequences, SequencesExt

CONSTANTS Nodes,   \* s_red_black_tree_node structures
          NULL,
          Values   \* what f_red_black_tree_evaluation may return

ASSUME RedBlackTreeAssumption == NULL \notin Nodes /\ Values \subseteq Int

Sides == {"left", "right"}
Other(side) == IF side = "left" THEN "right" ELSE "left"

VARIABLES
  root,
  child,     \* left and right of a node
  parent, color, value,
  node,      \* the node to insert, and then where p_red_black_tree_fix stands
  visiting,  \* where a descent from the root stands
  calls,     \* the calls of a recursion over the whole tree, the innermost one last
  pc,
  height,    \* ghost: the black nodes on the way down from a node to the bottom
  span       \* ghost: the values that may stand at a node and below it

treeVars == <<root, child, parent, color, value, node, visiting, calls, height, span>>

Bare == [s \in Sides |-> NULL]

All(v) == [n \in Nodes |-> v]

\* An s_red_black_tree that is zeroed; blocks that are not in use are zero, too.
EmptyTree ==
  /\ root = NULL /\ node = NULL /\ visiting = NULL /\ calls = <<>>
  /\ child = All(Bare) /\ parent = All(NULL) /\ color = All("black") /\ value = All(0)
  /\ height = All(0) /\ span = All({})

BecomesEmpty ==
  /\ root' = NULL /\ node' = NULL /\ visiting' = NULL /\ calls' = <<>>
  /\ child' = All(Bare) /\ parent' = All(NULL) /\ color' = All("black") /\ value' = All(0)
  /\ height' = All(0) /\ span' = All({})

-----------------------------------------------------------------------------
(***************************************************************************)
(* Insertion.                                                              *)
(***************************************************************************)
\* The part of some values that goes to one side of v.
Part(values, v, side) == {w \in values : IF side = "left" THEN w <= v ELSE w >= v}

\* Right of a smaller value, left of a greater or an equal one.
Way == IF value[node] > value[visiting] THEN "right" ELSE "left"

\* n is zeroed.
f_red_black_tree_insert(n, v) ==
  /\ value' = [value EXCEPT ![n] = v]
  /\ color' = [color EXCEPT ![n] = "red"]
  /\ child' = [child EXCEPT ![n] = Bare]
  /\ parent' = [parent EXCEPT ![n] = NULL]
  /\ node' = n
  /\ visiting' = root
  /\ pc' = "insert"
  /\ UNCHANGED <<root, calls, height, span>>

Descend ==
  /\ pc = "insert" /\ visiting # NULL /\ child[visiting][Way] # NULL
  /\ visiting' = child[visiting][Way]
  /\ parent' = [parent EXCEPT ![node] = visiting]
  /\ UNCHANGED <<root, child, color, value, node, calls, height, span, pc>>

AttachRoot ==
  /\ pc = "insert" /\ visiting = NULL
  /\ root' = node
  /\ span' = [span EXCEPT ![node] = Values]
  /\ height' = [height EXCEPT ![node] = 0]
  /\ pc' = "fix"
  /\ UNCHANGED <<child, parent, color, value, node, visiting, calls>>

Attach ==
  /\ pc = "insert" /\ visiting # NULL /\ child[visiting][Way] = NULL
  /\ child' = [child EXCEPT ![visiting][Way] = node]
  /\ parent' = [parent EXCEPT ![node] = visiting]
  /\ span' = [span EXCEPT ![node] = Part(span[visiting], value[visiting], Way)]
  /\ height' = [height EXCEPT ![node] = 0]
  /\ visiting' = NULL
  /\ pc' = "fix"
  /\ UNCHANGED <<root, color, value, node, calls>>

p_red_black_tree_insert_recursive == Descend \/ AttachRoot \/ Attach

-----------------------------------------------------------------------------
(***************************************************************************)
(* The loop that repairs the colours.                                      *)
(***************************************************************************)
\* p_red_black_tree_rotate_right when side is "left", p_red_black_tree_rotate_left when it is
\* "right": the child on that side takes the place of pivot.
Rotate(pivot, side) ==
  LET rising == child[pivot][side]
      inner  == child[rising][Other(side)]
      above  == parent[pivot]
      Moved(n, s) == IF n = pivot /\ s = side THEN inner
                     ELSE IF n = rising /\ s = Other(side) THEN pivot
                     ELSE IF n = above /\ child[n][s] = pivot THEN rising
                     ELSE child[n][s]
      Parent(n) == IF n = pivot THEN rising
                   ELSE IF n = rising THEN above
                   ELSE IF n = inner THEN pivot
                   ELSE parent[n]
  IN /\ root' = IF above = NULL THEN rising ELSE root
     /\ child' = [n \in Nodes |-> [s \in Sides |-> Moved(n, s)]]
     /\ parent' = [n \in Nodes |-> Parent(n)]
     /\ span' = [span EXCEPT ![rising] = span[pivot],
                             ![pivot] = Part(span[pivot], value[rising], Other(side))]

Red(n) == n # NULL /\ color[n] = "red"
grand_parent == parent[parent[node]]
SideOf(n) == IF child[parent[n]]["left"] = n THEN "left" ELSE "right"
uncle == child[grand_parent][Other(SideOf(parent[node]))]

\* The test of the loop.
Violated == node # root /\ color[node] # "black" /\ color[parent[node]] = "red"

RecolorRedUncle ==  \* mutant: the uncle stays red
  /\ pc = "fix" /\ Violated /\ Red(uncle)
  /\ color' = [color EXCEPT ![grand_parent] = "red", ![parent[node]] = "black"]
  /\ height' = [height EXCEPT ![parent[node]] = @ + 1, ![uncle] = @ + 1]
  /\ node' = grand_parent
  /\ UNCHANGED <<root, child, parent, value, visiting, calls, span, pc>>

\* A red uncle sends the red up.
Recolor ==
  /\ pc = "fix" /\ Violated /\ Red(uncle)
  /\ color' = [color EXCEPT ![grand_parent] = "red", ![parent[node]] = "black", ![uncle] = "black"]
  /\ height' = [height EXCEPT ![parent[node]] = @ + 1, ![uncle] = @ + 1]
  /\ node' = grand_parent
  /\ UNCHANGED <<root, child, parent, value, visiting, calls, span, pc>>

\* With a black one, a node on the inner side is first brought to the outer one.
Bend ==
  /\ pc = "fix" /\ Violated /\ ~Red(uncle) /\ SideOf(node) # SideOf(parent[node])
  /\ Rotate(parent[node], SideOf(node))
  /\ node' = parent[node]
  /\ pc' = "straight"
  /\ UNCHANGED <<color, value, visiting, calls, height>>

\* The parent takes the place and the colour of the grandparent.
Straighten ==
  /\ \/ pc = "straight"
     \/ pc = "fix" /\ Violated /\ ~Red(uncle) /\ SideOf(node) = SideOf(parent[node])
  /\ Rotate(grand_parent, SideOf(parent[node]))
  /\ color' = [color EXCEPT ![parent[node]] = color[grand_parent],
                            ![grand_parent] = color[parent[node]]]
  /\ height' = [height EXCEPT ![parent[node]] = @ + 1, ![grand_parent] = @ - 1]
  /\ node' = parent[node]
  /\ pc' = "fix"
  /\ UNCHANGED <<value, visiting, calls>>

Settle ==
  /\ pc = "fix" /\ ~Violated
  /\ color' = [color EXCEPT ![root] = "black"]
  /\ height' = [height EXCEPT ![root] = IF Red(root) THEN @ + 1 ELSE @]
  /\ node' = NULL
  /\ visiting' = NULL
  /\ pc' = "idle"
  /\ UNCHANGED <<root, child, parent, value, calls, span>>

p_red_black_tree_fix == Recolor \/ Bend \/ Straighten \/ Settle

-----------------------------------------------------------------------------
(***************************************************************************)
(* Recursions over the whole tree: first the left child, then the right    *)
(* one, then the call returns.                                             *)
(***************************************************************************)
Frames == [node : Nodes, todo : {"left", "right", "return"}]
Call(n) == IF n = NULL THEN <<>> ELSE <<[node |-> n, todo |-> "left"]>>

innermost == calls[Len(calls)]

Recurse(side) ==
  /\ calls # <<>> /\ innermost.todo = side
  /\ calls' = [calls EXCEPT ![Len(calls)].todo = IF side = "left" THEN "right" ELSE "return"]
                \o Call(child[innermost.node][side])

Return ==
  /\ calls # <<>> /\ innermost.todo = "return"
  /\ calls' = Front(calls)

-----------------------------------------------------------------------------
(***************************************************************************)
(* What a tree of the nodes N must be.                                     *)
(***************************************************************************)
TreeTypeOK ==
  /\ root \in Nodes \cup {NULL} /\ node \in Nodes \cup {NULL} /\ visiting \in Nodes \cup {NULL}
  /\ child \in [Nodes -> [Sides -> Nodes \cup {NULL}]]
  /\ parent \in [Nodes -> Nodes \cup {NULL}]
  /\ color \in [Nodes -> {"red", "black"}]
  /\ value \in [Nodes -> Int] /\ height \in [Nodes -> Int] /\ span \in [Nodes -> SUBSET Values]
  /\ calls \in Seq(Frames)

\* Parents and children agree, and every node but the root hangs on one side of one node.
Linked(N) ==
  /\ IF N = {} THEN root = NULL ELSE root \in N /\ parent[root] = NULL
  /\ \A n \in N : \A s \in Sides : child[n][s] # NULL =>
       child[n][s] \in N \ {root} /\ parent[child[n][s]] = n
  /\ \A n \in N \ {root} :
       parent[n] \in N /\ \E s \in Sides : /\ child[parent[n]][s] = n
                                           /\ child[parent[n]][Other(s)] # n

\* Every way up leads to the root.
Rooted(N) ==
  \A S \in SUBSET N :
    (S # {} /\ \A n \in S : n = root \/ parent[n] \in S) => root \in S

\* What stands below a node, however deep, is on the right side of it.
Ordered(N) ==
  /\ root # NULL => span[root] = Values
  /\ \A n \in N : /\ value[n] \in span[n]
                  /\ \A s \in Sides : child[n][s] # NULL =>
                       span[child[n][s]] = Part(span[n], value[n], s)

\* Every way down meets as many black nodes.
Balanced(N) ==
  \A n \in N : \A s \in Sides :
    height[n] = (IF child[n][s] = NULL THEN 0 ELSE height[child[n][s]])
              + (IF color[n] = "black" THEN 1 ELSE 0)

\* The root is black and no red node has a red child, but for the place the loop repairs.
Colored(N) ==
  LET repairing == IF pc \in {"fix", "straight"} THEN {node} ELSE {}
  IN /\ Red(root) => root \in repairing
     /\ \A n \in N : \A s \in Sides :
          Red(n) /\ Red(child[n][s]) => child[n][s] \in repairing
=============================================================================
