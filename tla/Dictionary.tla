----------------------------- MODULE Dictionary -----------------------------
(***************************************************************************)
(* src/dictionary.c: entries with a key, in a red-black tree ordered by a  *)
(* hash of the key.  One thread uses a dictionary; it has no lock.         *)
(***************************************************************************)
EXTENDS RedBlackTree

CONSTANTS Keys,
          p_dictionary_evaluate_string(_)  \* the hash of a key

ASSUME DictionaryAssumption ==
  NULL \notin Keys /\ \A k \in Keys : p_dictionary_evaluate_string(k) \in Values

VARIABLES
  key,     \* the key of a node, a block of its own, or NULL
  blocks,  \* the node blocks that are allocated
  asked,   \* the key of the call in progress
  result,  \* what the last call returned
  met      \* how often the visitor of f_dictionary_foreach was called on a node

dictionaryVars == <<key, blocks, asked, result, met>>
vars == <<treeVars, dictionaryVars, pc>>

Init ==
  /\ EmptyTree /\ pc = "idle"
  /\ key = All(NULL) /\ blocks = {} /\ asked = NULL /\ result = NULL /\ met = All(0)

-----------------------------------------------------------------------------
(***************************************************************************)
(* f_dictionary_get_if_exists and f_dictionary_get_or_create.              *)
(***************************************************************************)
Get(k) ==
  /\ pc = "idle"
  /\ asked' = k /\ result' = NULL
  /\ visiting' = root
  /\ pc' = "get"
  /\ UNCHANGED <<root, child, parent, color, value, node, calls, height, span, key, blocks, met>>

evaluation == p_dictionary_evaluate_string(asked)
Matches(n) == value[n] = evaluation /\ key[n] = asked

Found ==
  /\ pc = "get" /\ visiting # NULL /\ Matches(visiting)
  /\ result' = visiting
  /\ visiting' = NULL /\ asked' = NULL
  /\ pc' = "idle"
  /\ UNCHANGED <<root, child, parent, color, value, node, calls, height, span, key, blocks, met>>

LooksOnMirrored ==  \* mutant: the sides are swapped
  /\ pc = "get" /\ visiting # NULL /\ ~Matches(visiting)
  /\ visiting' = child[visiting][IF evaluation > value[visiting] THEN "left" ELSE "right"]
  /\ UNCHANGED <<root, child, parent, color, value, node, calls, height, span, pc, dictionaryVars>>

LooksOn ==
  /\ pc = "get" /\ visiting # NULL /\ ~Matches(visiting)
  /\ visiting' = child[visiting][IF evaluation < value[visiting] THEN "left" ELSE "right"]
  /\ UNCHANGED <<root, child, parent, color, value, node, calls, height, span, pc, dictionaryVars>>

p_dictionary_get_recursive == Found \/ LooksOn

\* The key is not there and none is to be created, or there is no memory for it: without memory
\* for the key the node is given back.
Missing ==
  /\ pc = "get" /\ visiting = NULL
  /\ asked' = NULL
  /\ pc' = "idle"
  /\ UNCHANGED <<treeVars, key, blocks, result, met>>

CreateLeaks(n) ==  \* mutant: without memory for the key the node is not given back
  /\ pc = "get" /\ visiting = NULL
  /\ blocks' = blocks \cup {n}
  /\ asked' = NULL /\ pc' = "idle"
  /\ UNCHANGED <<treeVars, key, result, met>>

Create(n) ==
  /\ pc = "get" /\ visiting = NULL
  /\ blocks' = blocks \cup {n}
  /\ key' = [key EXCEPT ![n] = asked]
  /\ result' = n
  /\ asked' = NULL
  /\ f_red_black_tree_insert(n, evaluation)
  /\ UNCHANGED met

-----------------------------------------------------------------------------
(***************************************************************************)
(* Visits and deletion.                                                    *)
(***************************************************************************)
Visited(n) == IF n = NULL THEN met ELSE [met EXCEPT ![n] = @ + 1]

f_dictionary_foreach ==
  /\ pc = "idle"
  /\ calls' = Call(root)
  /\ met' = Visited(root)
  /\ result' = NULL
  /\ pc' = "foreach"
  /\ UNCHANGED <<root, child, parent, color, value, node, visiting, height, span,
                 key, blocks, asked>>

\* The visitor leaves the dictionary alone.
p_dictionary_foreach_pre_order ==
  /\ pc = "foreach"
  /\ \/ \E side \in Sides : Recurse(side) /\ met' = Visited(child[innermost.node][side])
     \/ Return /\ UNCHANGED met
  /\ UNCHANGED <<root, child, parent, color, value, node, visiting, height, span,
                 key, blocks, asked, result, pc>>

ForeachEnds ==
  /\ pc = "foreach" /\ calls = <<>>
  /\ met' = All(0)
  /\ pc' = "idle"
  /\ UNCHANGED <<treeVars, key, blocks, asked, result>>

f_dictionary_free ==
  /\ pc = "idle"
  /\ calls' = Call(root)
  /\ result' = NULL
  /\ pc' = "free"
  /\ UNCHANGED <<root, child, parent, color, value, node, visiting, height, span,
                 key, blocks, asked, met>>

\* The node is deleted with its key when the calls for its children have returned.
p_red_black_tree_free_recursive ==
  /\ pc = "free"
  /\ \/ (\E side \in Sides : Recurse(side)) /\ UNCHANGED <<key, blocks>>
     \/ /\ Return
        /\ key' = [key EXCEPT ![innermost.node] = NULL]
        /\ blocks' = blocks \ {innermost.node}
  /\ UNCHANGED <<root, child, parent, color, value, node, visiting, height, span,
                 asked, result, met, pc>>

\* The root is left as it was, so the next use of the structure is f_dictionary_initialize, which
\* is part of the step.
FreeEnds ==
  /\ pc = "free" /\ calls = <<>>
  /\ BecomesEmpty /\ pc' = "idle"
  /\ UNCHANGED dictionaryVars

Next ==
  \/ \E k \in Keys : Get(k)
  \/ p_dictionary_get_recursive \/ Missing \/ \E n \in Nodes \ blocks : Create(n)
  \/ p_red_black_tree_insert_recursive /\ UNCHANGED dictionaryVars
  \/ p_red_black_tree_fix /\ UNCHANGED dictionaryVars
  \/ f_dictionary_foreach \/ p_dictionary_foreach_pre_order \/ ForeachEnds
  \/ f_dictionary_free \/ p_red_black_tree_free_recursive \/ FreeEnds

Spec == Init /\ [][Next]_vars

-----------------------------------------------------------------------------
(***************************************************************************)
(* Properties.                                                             *)
(***************************************************************************)
TypeOK ==
  /\ TreeTypeOK
  /\ key \in [Nodes -> Keys \cup {NULL}] /\ blocks \subseteq Nodes
  /\ asked \in Keys \cup {NULL} /\ result \in Nodes \cup {NULL} /\ met \in [Nodes -> Nat]
  /\ pc \in {"idle", "get", "insert", "fix", "straight", "foreach", "free"}

\* The nodes that hang in the tree.
Hanging == IF pc = "insert" THEN blocks \ {node} ELSE blocks

\* Through every rotation the tree holds the nodes that were created, with parents and children
\* that agree and each below the root, and between two calls it is a red-black tree: the root is
\* black, a red node has black children, every way down meets as many black nodes, so it never
\* gets deeper than twice the logarithm of its size, and each node is on its side of every node
\* above it.
TreeIsRedBlack ==
  /\ TypeOK
  /\ pc # "free" =>
       /\ Linked(Hanging) /\ Rooted(Hanging) /\ Ordered(Hanging)
       /\ Balanced(Hanging) /\ Colored(Hanging)

\* Every block that is allocated has a key of its own.  f_dictionary_foreach visits each exactly
\* once; f_dictionary_free never reads or deletes one that it has deleted, and leaves none.
NothingLeaks ==
  /\ {n \in Nodes : key[n] # NULL} = blocks
  /\ pc = "foreach" =>
       /\ \A n \in Nodes : met[n] <= 1
       /\ calls = <<>> => {n \in Nodes : met[n] = 1} = blocks
  /\ \A i \in 1 .. Len(calls) : calls[i].node \in blocks
  /\ pc = "free" /\ calls = <<>> => blocks = {}

\* The node that holds a key.
Entry(k) ==
  IF pc # "free" /\ \E n \in blocks : key[n] = k THEN CHOOSE n \in blocks : key[n] = k ELSE NULL

Map == INSTANCE DictionaryMap WITH entries <- [k \in Keys |-> Entry(k)]

\* Lookups and creations see a map: a new entry is found from then on, and hides no other.
ImplementsMap == Map!Spec

\* What README.md says of the dictionary: for a given key there is one associated object, which is
\* created only if it does not exist yet.
KeysAreUnique == \A m, n \in blocks : key[m] = key[n] => m = n
=============================================================================
