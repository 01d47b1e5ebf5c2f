-------------------------- MODULE DictionaryProofs --------------------------
(***************************************************************************)
(* The tree of dictionary.c stays a red-black tree, no entry leaks, and,   *)
(* where no two keys share a hash, a dictionary is a map: for any nodes,   *)
(* any keys and any hash.                                                  *)
(*                                                                         *)
(* What carries the proof.  That a tree is all of its nodes is said by     *)
(* Rooted, which is the induction on the depth of a node: a set that is    *)
(* closed upwards holds the root.  That it is ordered and balanced is said *)
(* by the ghosts, span and height, one node at a time.  A rotation keeps   *)
(* all four; what the loop finds around a red node with a red parent       *)
(* (RepairPlaces) makes the four rotations and the recolouring one case    *)
(* each.  A recursion is a walk (Walked).                                  *)
(***************************************************************************)
EXTENDS Dictionary, SequenceTheorems, TLAPS

\* The two sides.
LEMMA TwoSides ==
  /\ "left" \in Sides /\ "right" \in Sides /\ "left" # "right"
  /\ Other("left") = "right" /\ Other("right") = "left"
  /\ \A s \in Sides : Other(s) \in Sides /\ Other(s) # s /\ Other(Other(s)) = s
  /\ \A s, t \in Sides : t # s => t = Other(s)
BY DEF Sides, Other

\* A child is another node, and not its own parent's parent.
LEMMA NoLoops ==
  ASSUME NEW N \in SUBSET Nodes, Linked(N), Rooted(N),
         NEW n \in N, NEW s \in Sides, child[n][s] # NULL
  PROVE  /\ child[n][s] \in N \ {root} /\ parent[child[n][s]] = n
         /\ child[n][s] # n /\ parent[n] # child[n][s]
         /\ \A t \in Sides : child[child[n][s]][t] # n
<1>1. PICK c : c = child[n][s]
  OBVIOUS
<1>2. c \in N \ {root} /\ parent[c] = n
  BY <1>1 DEF Linked
<1>3. root \in N /\ parent[root] = NULL /\ n # NULL /\ c # NULL
  BY <1>2, RedBlackTreeAssumption DEF Linked
<1>4. c # n
  <2>1. SUFFICES ASSUME c = n PROVE FALSE
    OBVIOUS
  <2>2. {n} \in SUBSET N /\ \A m \in {n} : parent[m] \in {n}
    BY <1>2, <2>1
  <2>3. root \in {n}
    BY <2>2 DEF Rooted
  <2> QED
    BY <1>2, <2>1, <2>3
<1>5. parent[n] # c
  <2>1. SUFFICES ASSUME parent[n] = c PROVE FALSE
    OBVIOUS
  <2>2. {n, c} \in SUBSET N /\ \A m \in {n, c} : parent[m] \in {n, c}
    BY <1>2, <2>1
  <2>3. root \in {n, c}
    BY <2>2 DEF Rooted
  <2> QED
    BY <1>2, <1>3, <2>1, <2>3
<1>6. \A t \in Sides : child[c][t] # n
  BY <1>2, <1>3, <1>5 DEF Linked
<1> QED
  BY <1>1, <1>2, <1>4, <1>5, <1>6

\* What a rotation does to the links.
LEMMA RotationMoves ==
  ASSUME TreeTypeOK, NEW N \in SUBSET Nodes, Linked(N), Rooted(N),
         NEW p \in N, NEW s \in Sides, NEW r, r = child[p][s], r # NULL, Rotate(p, s)
  PROVE  /\ r \in N \ {p, root} /\ parent[r] = p /\ parent[p] # r
         /\ root' = IF p = root THEN r ELSE root
         /\ child' \in [Nodes -> [Sides -> Nodes \cup {NULL}]]
         /\ parent' \in [Nodes -> Nodes \cup {NULL}]
         /\ child'[p][s] = child[r][Other(s)] /\ child'[p][Other(s)] = child[p][Other(s)]
         /\ child'[r][Other(s)] = p /\ child'[r][s] = child[r][s]
         /\ \A n \in N \ {p, r} : \A t \in Sides :
              child'[n][t] = IF child[n][t] = p THEN r ELSE child[n][t]
         /\ parent'[p] = r /\ parent'[r] = parent[p]
         /\ \A n \in N \ {p, r} : parent'[n] = IF n = child[r][Other(s)] THEN p ELSE parent[n]
<1>1. /\ r \in N \ {p, root} /\ parent[r] = p /\ parent[p] # r
      /\ \A t \in Sides : child[r][t] # p
  BY NoLoops
<1>2. /\ child \in [Nodes -> [Sides -> Nodes \cup {NULL}]]
      /\ parent \in [Nodes -> Nodes \cup {NULL}] /\ N \subseteq Nodes
  BY DEF TreeTypeOK
<1>3. \A n \in Nodes : \A t \in Sides :
        child'[n][t] = IF n = p /\ t = s THEN child[r][Other(s)]
                       ELSE IF n = r /\ t = Other(s) THEN p
                       ELSE IF n = parent[p] /\ child[n][t] = p THEN r
                       ELSE child[n][t]
  BY <1>2 DEF Rotate
<1>4. \A n \in Nodes :
        parent'[n] = IF n = p THEN r ELSE IF n = r THEN parent[p]
                     ELSE IF n = child[r][Other(s)] THEN p ELSE parent[n]
  BY <1>2 DEF Rotate
<1>5. child' \in [Nodes -> [Sides -> Nodes \cup {NULL}]]
  <2>1. child' = [n \in Nodes |-> [t \in Sides |-> child'[n][t]]]
    BY <1>2 DEF Rotate
  <2>2. \A n \in Nodes : \A t \in Sides : child'[n][t] \in Nodes \cup {NULL}
    BY <1>1, <1>2, <1>3, TwoSides
  <2> QED
    BY <2>1, <2>2
<1>6. parent' \in [Nodes -> Nodes \cup {NULL}]
  <2>1. parent' = [n \in Nodes |-> parent'[n]]
    BY <1>2 DEF Rotate
  <2>2. \A n \in Nodes : parent'[n] \in Nodes \cup {NULL}
    BY <1>1, <1>2, <1>4
  <2> QED
    BY <2>1, <2>2
<1>7. root' = IF p = root THEN r ELSE root
  <2>1. root' = IF parent[p] = NULL THEN r ELSE root
    BY DEF Rotate
  <2>2. parent[p] = NULL <=> p = root
    BY RedBlackTreeAssumption DEF Linked
  <2> QED
    BY <2>1, <2>2
<1>8. child'[p][s] = child[r][Other(s)]
  BY <1>2, <1>3
<1>9. child'[p][Other(s)] = child[p][Other(s)]
  <2>1. Other(s) \in Sides /\ Other(s) # s
    BY TwoSides
  <2>2. child[p][Other(s)] # p
    BY <2>1, NoLoops, RedBlackTreeAssumption
  <2> QED
    BY <1>1, <1>2, <1>3, <2>1, <2>2
<1>10. child'[r][Other(s)] = p
  BY <1>1, <1>2, <1>3, TwoSides
<1>11. child'[r][s] = child[r][s]
  <2>1. Other(s) # s
    BY TwoSides
  <2> QED
    BY <1>1, <1>2, <1>3, <2>1
<1>12. ASSUME NEW n \in N \ {p, r}, NEW t \in Sides
       PROVE  child'[n][t] = IF child[n][t] = p THEN r ELSE child[n][t]
  <2>1. child[n][t] = p => n = parent[p]
    BY RedBlackTreeAssumption DEF Linked
  <2> QED
    BY <1>2, <1>3, <2>1
<1>13. parent'[p] = r /\ parent'[r] = parent[p]
  BY <1>1, <1>2, <1>4
<1>14. \A n \in N \ {p, r} : parent'[n] = IF n = child[r][Other(s)] THEN p ELSE parent[n]
  BY <1>2, <1>4
<1> QED
  BY <1>1, <1>5, <1>6, <1>7, <1>8, <1>9, <1>10, <1>11, <1>12, <1>13, <1>14

\* A rotation keeps the links in both directions.
LEMMA RotationKeepsLinks ==
  ASSUME TreeTypeOK, NEW N \in SUBSET Nodes, Linked(N), Rooted(N),
         NEW p \in N, NEW s \in Sides, child[p][s] # NULL, Rotate(p, s)
  PROVE  Linked(N)'
<1>0. PICK r : r = child[p][s]
  OBVIOUS
<1>1. /\ r \in N \ {p, root} /\ parent[r] = p /\ parent[p] # r
      /\ root' = IF p = root THEN r ELSE root
      /\ child'[p][s] = child[r][Other(s)] /\ child'[p][Other(s)] = child[p][Other(s)]
      /\ child'[r][Other(s)] = p /\ child'[r][s] = child[r][s]
      /\ \A n \in N \ {p, r} : \A t \in Sides :
           child'[n][t] = IF child[n][t] = p THEN r ELSE child[n][t]
      /\ parent'[p] = r /\ parent'[r] = parent[p]
      /\ \A n \in N \ {p, r} : parent'[n] = IF n = child[r][Other(s)] THEN p ELSE parent[n]
  BY <1>0, RotationMoves
<1>2. PICK o \in Sides : o = Other(s) /\ o # s /\ Other(o) = s /\ \A t \in Sides : t \in {s, o}
  BY TwoSides
<1>3. /\ root \in N /\ parent[root] = NULL
      /\ \A n \in N : \A t \in Sides : child[n][t] # NULL =>
           child[n][t] \in N \ {root} /\ parent[child[n][t]] = n
      /\ \A n \in N \ {root} :
           parent[n] \in N /\ \E t \in Sides : /\ child[parent[n]][t] = n
                                               /\ child[parent[n]][Other(t)] # n
  BY DEF Linked
<1>4. PICK i : i = child[r][o]
  OBVIOUS
<1>5. i # NULL => i \in N \ {p, r, root} /\ parent[i] = r
  BY <1>1, <1>2, <1>4, NoLoops
<1>6. root' \in N /\ parent'[root'] = NULL
  <2>1. CASE p = root
    BY <1>1, <1>3, <2>1
  <2>2. CASE p # root
    <3>1. root' = root /\ root \in N \ {p, r}
      BY <1>1, <1>3, <2>2
    <3>2. root # i
      BY <1>3, <1>5, RedBlackTreeAssumption
    <3> QED
      BY <1>1, <1>2, <1>3, <1>4, <3>1, <3>2
  <2> QED
    BY <2>1, <2>2
<1>7. ASSUME NEW n \in N, NEW t \in Sides, child'[n][t] # NULL
      PROVE  child'[n][t] \in N \ {root'} /\ parent'[child'[n][t]] = n
  <2>1. CASE n = p /\ t = s
    <3>1. child'[n][t] = i
      BY <1>1, <1>2, <1>4, <2>1
    <3> QED
      BY <1>1, <1>2, <1>4, <1>5, <1>7, <2>1, <3>1
  <2>2. CASE n = p /\ t = o
    <3>1. PICK c : c = child[p][o]
      OBVIOUS
    <3>2. child'[n][t] = c
      BY <1>1, <1>2, <2>2, <3>1
    <3>3. c \in N \ {root} /\ parent[c] = p /\ c # p
      BY <1>2, <1>7, <3>1, <3>2, NoLoops
    <3>4. c # r
      <4>1. SUFFICES ASSUME c = r PROVE FALSE
        OBVIOUS
      <4>2. PICK t1 \in Sides : child[parent[r]][t1] = r /\ child[parent[r]][Other(t1)] # r
        BY <1>1, <1>3
      <4> QED
        BY <1>0, <1>1, <1>2, <3>1, <4>1, <4>2
    <3>5. c # i
      BY <1>1, <1>5, <1>7, <3>2, <3>3
    <3> QED
      BY <1>1, <1>2, <1>4, <2>2, <3>2, <3>3, <3>4, <3>5
  <2>3. CASE n = r /\ t = o
    BY <1>1, <1>2, <2>3
  <2>4. CASE n = r /\ t = s
    <3>1. PICK c : c = child[r][s]
      OBVIOUS
    <3>2. child'[n][t] = c
      BY <1>1, <2>4, <3>1
    <3>3. c \in N \ {root} /\ parent[c] = r /\ c # r /\ c # p
      BY <1>1, <1>7, <3>1, <3>2, NoLoops
    <3>4. c # i
      <4>1. SUFFICES ASSUME c = i PROVE FALSE
        OBVIOUS
      <4>2. PICK t1 \in Sides : child[parent[c]][t1] = c /\ child[parent[c]][Other(t1)] # c
        BY <1>3, <3>3
      <4> QED
        BY <1>2, <1>4, <3>1, <3>3, <4>1, <4>2
    <3> QED
      BY <1>1, <1>2, <1>4, <2>4, <3>2, <3>3, <3>4
  <2>5. CASE n \notin {p, r}
    <3>1. PICK c : c = child[n][t]
      OBVIOUS
    <3>2. CASE c = p
      <4>1. child[n][t] = p /\ child[n][t] # NULL
        BY <3>1, <3>2, RedBlackTreeAssumption
      <4>2. child[n][t] \in N \ {root} /\ parent[child[n][t]] = n
        BY <1>3, <4>1
      <4>3. parent[p] = n /\ p # root
        BY <4>1, <4>2
      <4>4. child'[n][t] = IF child[n][t] = p THEN r ELSE child[n][t]
        BY <1>1, <2>5
      <4>5. child'[n][t] = r
        BY <4>1, <4>4
      <4> QED
        BY <1>1, <4>3, <4>5
    <3>3. CASE c # p
      <4>1. child'[n][t] = c
        BY <1>1, <2>5, <3>1, <3>3
      <4>2. c \in N \ {root} /\ parent[c] = n
        BY <1>3, <1>7, <3>1, <4>1
      <4>3. c # r /\ c # i
        BY <1>1, <1>5, <1>7, <2>5, <4>1, <4>2
      <4> QED
        BY <1>1, <1>2, <1>4, <3>3, <4>1, <4>2, <4>3
    <3> QED
      BY <3>2, <3>3
  <2> QED
    BY <1>2, <2>1, <2>2, <2>3, <2>4, <2>5
<1>8. ASSUME NEW n \in N \ {root'}
      PROVE  parent'[n] \in N /\ \E t \in Sides : /\ child'[parent'[n]][t] = n
                                                  /\ child'[parent'[n]][Other(t)] # n
  <2>1. CASE n = p
    <3>1. parent'[n] = r /\ child'[r][o] = p /\ child'[r][s] # p
      BY <1>0, <1>1, <1>2, <2>1, NoLoops
    <3> QED
      BY <1>1, <1>2, <2>1, <3>1
  <2>2. CASE n = r
    <3>1. p # root /\ parent'[n] = parent[p]
      BY <1>1, <1>8, <2>2
    <3>2. PICK t \in Sides : child[parent[p]][t] = p /\ child[parent[p]][Other(t)] # p
      BY <1>3, <3>1
    <3>3. parent[p] \in N \ {p, r}
      BY <1>1, <1>3, <3>1, <3>2, NoLoops, RedBlackTreeAssumption
    <3>4. child'[parent[p]][t] = r
      BY <1>1, <3>2, <3>3
    <3>5. child'[parent[p]][Other(t)] # r
      <4>1. Other(t) \in Sides
        BY TwoSides
      <4>2. child[parent[p]][Other(t)] # r
        BY <1>1, <1>3, <3>3, <4>1, RedBlackTreeAssumption
      <4> QED
        BY <1>1, <3>2, <3>3, <4>1, <4>2
    <3> QED
      BY <2>2, <3>1, <3>3, <3>4, <3>5
  <2>3. CASE n = i
    <3>1. n \in N \ {p, r, root} /\ parent'[n] = p
      BY <1>1, <1>2, <1>4, <1>5, <2>3, RedBlackTreeAssumption
    <3>2. child'[p][s] = n
      BY <1>1, <1>2, <1>4, <2>3
    <3>3. child'[p][o] # n
      BY <1>1, <1>2, <1>3, <1>5, <2>3, <3>1, RedBlackTreeAssumption
    <3> QED
      BY <1>2, <3>1, <3>2, <3>3
  <2>4. CASE n \notin {p, r, i}
    <3>1. n # root
      BY <1>1, <1>8, <2>4
    <3>2. parent'[n] = parent[n]
      BY <1>1, <1>2, <1>4, <2>4
    <3>3. PICK t \in Sides : child[parent[n]][t] = n /\ child[parent[n]][Other(t)] # n
      BY <1>3, <3>1
    <3>4. parent[n] \in N
      BY <1>3, <3>1
    <3>5. Other(t) \in Sides
      BY TwoSides
    <3>6. CASE parent[n] = p
      <4>1. t = o
        BY <1>0, <1>2, <2>4, <3>3, <3>6
      <4>2. child'[p][o] = n /\ child'[p][s] # n
        BY <1>1, <1>2, <1>4, <2>4, <3>3, <3>6, <4>1
      <4> QED
        BY <1>2, <3>2, <3>4, <3>6, <4>2
    <3>7. CASE parent[n] = r
      <4>1. t = s
        BY <1>2, <1>4, <2>4, <3>3, <3>7
      <4>2. child'[r][s] = n /\ child'[r][o] # n
        BY <1>1, <1>2, <2>4, <3>3, <3>7, <4>1
      <4> QED
        BY <1>2, <3>2, <3>4, <3>7, <4>2
    <3>8. CASE parent[n] \notin {p, r}
      <4>1. child'[parent[n]][t] = n /\ child'[parent[n]][Other(t)] # n
        BY <1>1, <2>4, <3>3, <3>4, <3>5, <3>8
      <4> QED
        BY <3>2, <3>4, <4>1
    <3> QED
      BY <3>6, <3>7, <3>8
  <2> QED
    BY <2>1, <2>2, <2>3, <2>4
<1> QED
  BY <1>3, <1>6, <1>7, <1>8 DEF Linked

\* A rotation keeps every node below the root.
LEMMA RotationKeepsRoot ==
  ASSUME TreeTypeOK, NEW N \in SUBSET Nodes, Linked(N), Rooted(N),
         NEW p \in N, NEW s \in Sides, child[p][s] # NULL, Rotate(p, s)
  PROVE  Rooted(N)'
<1>0. PICK r : r = child[p][s]
  OBVIOUS
<1>1. PICK i : i = child[r][Other(s)]
  OBVIOUS
<1>2. /\ r \in N \ {p, root} /\ parent[r] = p
      /\ root' = IF p = root THEN r ELSE root
      /\ parent'[p] = r /\ parent'[r] = parent[p]
      /\ \A n \in N \ {p, r} : parent'[n] = IF n = i THEN p ELSE parent[n]
  BY <1>0, <1>1, RotationMoves
<1>3. i # NULL => parent[i] = r
  BY <1>1, <1>2, TwoSides, NoLoops
<1>4. SUFFICES ASSUME NEW S \in SUBSET N, S # {},
                      \A n \in S : n = root' \/ parent'[n] \in S, root' \notin S
               PROVE  FALSE
  BY DEF Rooted
<1>5. \A n \in S : parent'[n] \in S
  BY <1>4
<1>6. p \in S => r \in S
  BY <1>2, <1>5
<1>7. PICK T : T = IF r \in S THEN S \cup {p} ELSE S
  OBVIOUS
<1>8. ASSUME NEW n \in T PROVE parent[n] \in T
  <2>1. CASE n = p
    <3>1. r \in S
      BY <1>6, <1>7, <1>8, <2>1
    <3> QED
      BY <1>2, <1>5, <1>7, <2>1, <3>1
  <2>2. CASE n = r
    BY <1>2, <1>6, <1>7, <1>8, <2>2
  <2>3. CASE n = i /\ n \notin {p, r}
    <3>1. n \in S /\ parent'[n] = p
      BY <1>2, <1>7, <1>8, <2>3
    <3>2. r \in S
      BY <1>5, <1>6, <3>1
    <3>3. n # NULL
      BY <3>1, RedBlackTreeAssumption
    <3> QED
      BY <1>3, <1>7, <2>3, <3>2, <3>3
  <2>4. CASE n \notin {p, r, i}
    BY <1>2, <1>5, <1>7, <1>8, <2>4
  <2> QED
    BY <2>1, <2>2, <2>3, <2>4
<1>9. T \in SUBSET N /\ T # {}
  BY <1>4, <1>7
<1>10. root \in T
  BY <1>8, <1>9 DEF Rooted
<1> QED
  BY <1>2, <1>4, <1>6, <1>7, <1>10

-----------------------------------------------------------------------------
\* How the parts of a set of values on both sides of v and w fit together.
LEMMA Parts ==
  ASSUME NEW A \in SUBSET Int, NEW v \in A, NEW s \in Sides, NEW w \in Part(A, v, s)
  PROVE  /\ w \in A /\ v \in Part(A, w, Other(s))
         /\ Part(Part(A, v, s), w, Other(s)) = Part(Part(A, w, Other(s)), v, s)
         /\ Part(A, v, Other(s)) = Part(Part(A, w, Other(s)), v, Other(s))
         /\ Part(Part(A, v, s), w, s) = Part(A, w, s)
<1>0. PICK o : o = Other(s)
  OBVIOUS
<1>1. w \in A /\ v \in Int /\ w \in Int
  BY DEF Part
<1>2. \A B : \A u : \A t \in Sides :
        Part(B, u, t) = {x \in B : IF t = "left" THEN x <= u ELSE x >= u}
  BY DEF Part
<1>3. CASE s = "left"
  <2>1. o = "right" /\ o # "left" /\ o \in Sides
    BY <1>0, <1>3, TwoSides
  <2>2. w <= v
    BY <1>1, <1>3 DEF Part
  <2>3. v \in Part(A, w, o)
    BY <1>1, <2>1, <2>2 DEF Part
  <2>4. Part(Part(A, v, s), w, o) = Part(Part(A, w, o), v, s)
    BY <1>1, <1>3, <2>1 DEF Part
  <2>5. Part(A, v, o) = Part(Part(A, w, o), v, o)
    <3>1. \A x \in A : x >= v => x >= w
      BY <1>1, <2>2
    <3> QED
      BY <2>1, <3>1 DEF Part
  <2>6. Part(Part(A, v, s), w, s) = Part(A, w, s)
    <3>1. \A x \in A : x <= w => x <= v
      BY <1>1, <2>2
    <3> QED
      BY <1>3, <2>1, <3>1 DEF Part
  <2> QED
    BY <1>0, <1>1, <2>3, <2>4, <2>5, <2>6
<1>4. CASE s = "right"
  <2>1. o = "left" /\ s # "left" /\ o \in Sides
    BY <1>0, <1>4, TwoSides
  <2>2. w >= v
    BY <1>1, <1>4 DEF Part
  <2>3. v \in Part(A, w, o)
    BY <1>1, <2>1, <2>2 DEF Part
  <2>4. Part(Part(A, v, s), w, o) = Part(Part(A, w, o), v, s)
    BY <1>1, <1>4, <2>1 DEF Part
  <2>5. Part(A, v, o) = Part(Part(A, w, o), v, o)
    <3>1. \A x \in A : x <= v => x <= w
      BY <1>1, <2>2
    <3> QED
      BY <2>1, <3>1 DEF Part
  <2>6. Part(Part(A, v, s), w, s) = Part(A, w, s)
    <3>1. \A x \in A : x >= w => x >= v
      BY <1>1, <2>2
    <3> QED
      BY <1>4, <2>1, <3>1 DEF Part
  <2> QED
    BY <1>0, <1>1, <2>3, <2>4, <2>5, <2>6
<1> QED
  BY <1>3, <1>4 DEF Sides

\* A rotation keeps the order.
LEMMA RotationKeepsOrder ==
  ASSUME TreeTypeOK, NEW N \in SUBSET Nodes, Linked(N), Rooted(N), Ordered(N), UNCHANGED value,
         NEW p \in N, NEW s \in Sides, child[p][s] # NULL, Rotate(p, s)
  PROVE  Ordered(N)' /\ span' \in [Nodes -> SUBSET Values]
<1>0. PICK r : r = child[p][s]
  OBVIOUS
<1>1. PICK o \in Sides : o = Other(s) /\ o # s /\ \A t \in Sides : t \in {s, o}
  BY TwoSides
<1>2. /\ r \in N \ {p, root} /\ parent[r] = p
      /\ root' = IF p = root THEN r ELSE root
      /\ child'[p][s] = child[r][o] /\ child'[p][o] = child[p][o]
      /\ child'[r][o] = p /\ child'[r][s] = child[r][s]
      /\ \A n \in N \ {p, r} : \A t \in Sides :
           child'[n][t] = IF child[n][t] = p THEN r ELSE child[n][t]
  BY <1>0, <1>1, RotationMoves
<1>3. /\ span \in [Nodes -> SUBSET Values] /\ p \in Nodes /\ r \in Nodes
      /\ span' = [span EXCEPT ![r] = span[p], ![p] = Part(span[p], value[r], o)]
  BY <1>0, <1>1, <1>2 DEF TreeTypeOK, Rotate
<1>4. PICK A : A = span[p]
  OBVIOUS
<1>5. PICK v : v = value[p]
  OBVIOUS
<1>6. PICK w : w = value[r]
  OBVIOUS
<1>7. /\ span'[r] = A /\ span'[p] = Part(A, w, o)
      /\ \A n \in N \ {p, r} : span'[n] = span[n]
  BY <1>2, <1>3, <1>4, <1>6
<1>8. /\ root # NULL /\ span[root] = Values
      /\ \A n \in N : value[n] \in span[n]
      /\ \A n \in N : \A t \in Sides : child[n][t] # NULL =>
           span[child[n][t]] = Part(span[n], value[n], t)
  <2>1. root # NULL
    BY RedBlackTreeAssumption DEF Linked
  <2> QED
    BY <2>1 DEF Ordered
<1>9. A \in SUBSET Int /\ v \in A /\ span[r] = Part(A, v, s) /\ w \in Part(A, v, s)
  <2>1. A \in SUBSET Int
    BY <1>3, <1>4, RedBlackTreeAssumption
  <2>2. v \in A
    BY <1>4, <1>5, <1>8
  <2>3. span[r] = Part(A, v, s)
    BY <1>0, <1>2, <1>4, <1>5, <1>8, RedBlackTreeAssumption
  <2>4. w \in span[r]
    BY <1>2, <1>6, <1>8
  <2> QED
    BY <2>1, <2>2, <2>3, <2>4
<1>10. /\ w \in A /\ v \in Part(A, w, o)
       /\ Part(Part(A, v, s), w, o) = Part(Part(A, w, o), v, s)
       /\ Part(A, v, o) = Part(Part(A, w, o), v, o)
       /\ Part(Part(A, v, s), w, s) = Part(A, w, s)
  BY <1>1, <1>9, Parts
<1>11. span'[root'] = Values
  <2>1. CASE p = root
    BY <1>2, <1>4, <1>7, <1>8, <2>1
  <2>2. CASE p # root
    <3>1. root' = root /\ root \in N \ {p, r}
      BY <1>2, <2>2 DEF Linked
    <3> QED
      BY <1>7, <1>8, <3>1
  <2> QED
    BY <2>1, <2>2
<1>12. ASSUME NEW n \in N PROVE value'[n] \in span'[n]
  <2>1. CASE n = p
    BY <1>5, <1>7, <1>10, <2>1
  <2>2. CASE n = r
    BY <1>6, <1>7, <1>10, <2>2
  <2>3. CASE n \notin {p, r}
    BY <1>7, <1>8, <2>3
  <2> QED
    BY <2>1, <2>2, <2>3
<1>13. ASSUME NEW n \in N, NEW t \in Sides, child'[n][t] # NULL
       PROVE  span'[child'[n][t]] = Part(span'[n], value'[n], t)
  <2>0. PICK c : c = child'[n][t]
    OBVIOUS
  <2>1. CASE n = p /\ t = s
    <3>1. c = child[r][o] /\ c # NULL
      BY <1>2, <1>13, <2>0, <2>1
    <3>2. c \in N \ {p, r}
      BY <1>0, <1>1, <1>2, <3>1, NoLoops
    <3>3. span[c] = Part(span[r], value[r], o)
      BY <1>1, <1>2, <1>8, <3>1
    <3>4. span'[c] = Part(Part(A, w, o), v, s)
      BY <1>6, <1>7, <1>9, <1>10, <3>2, <3>3
    <3> QED
      BY <1>5, <1>7, <2>0, <2>1, <3>4
  <2>2. CASE n = p /\ t = o
    <3>1. c = child[p][o] /\ c # NULL
      BY <1>2, <1>13, <2>0, <2>2
    <3>2. c \in N \ {p}
      BY <1>1, <3>1, NoLoops
    <3>3. c # r
      <4>1. SUFFICES ASSUME c = r PROVE FALSE
        OBVIOUS
      <4>2. PICK t1 \in Sides : child[parent[r]][t1] = r /\ child[parent[r]][Other(t1)] # r
        BY <1>2 DEF Linked
      <4>3. Other(o) = s
        BY <1>1, TwoSides
      <4> QED
        BY <1>0, <1>1, <1>2, <3>1, <4>1, <4>2, <4>3
    <3>4. span[c] = Part(span[p], value[p], o)
      BY <1>8, <3>1
    <3>5. span'[c] = Part(Part(A, w, o), v, o)
      BY <1>4, <1>5, <1>7, <1>10, <3>2, <3>3, <3>4
    <3> QED
      BY <1>5, <1>7, <2>0, <2>2, <3>5
  <2>3. CASE n = r /\ t = o
    BY <1>2, <1>6, <1>7, <2>0, <2>3
  <2>4. CASE n = r /\ t = s
    <3>1. c = child[r][s] /\ c # NULL
      BY <1>2, <1>13, <2>0, <2>4
    <3>2. c \in N \ {p, r}
      BY <1>0, <1>2, <3>1, NoLoops
    <3>3. span[c] = Part(span[r], value[r], s)
      BY <1>2, <1>8, <3>1
    <3>4. span'[c] = Part(A, w, s)
      BY <1>6, <1>7, <1>9, <1>10, <3>2, <3>3
    <3> QED
      BY <1>6, <1>7, <2>0, <2>4, <3>4
  <2>5. CASE n \notin {p, r}
    <3>1. span'[n] = span[n] /\ c = IF child[n][t] = p THEN r ELSE child[n][t]
      BY <1>2, <1>7, <2>0, <2>5
    <3>2. CASE child[n][t] = p
      <4>1. p # NULL
        BY RedBlackTreeAssumption
      <4>2. span[child[n][t]] = Part(span[n], value[n], t)
        BY <1>8, <3>2, <4>1
      <4>3. span'[r] = Part(span[n], value[n], t)
        BY <1>4, <1>7, <3>2, <4>2
      <4> QED
        BY <2>0, <3>1, <3>2, <4>3
    <3>3. CASE child[n][t] # p
      <4>1. c = child[n][t] /\ c # NULL
        BY <1>13, <2>0, <3>1, <3>3
      <4>2. c \in N /\ parent[c] = n
        BY <4>1 DEF Linked
      <4>3. c \notin {p, r}
        BY <1>2, <2>5, <3>3, <4>1, <4>2
      <4>4. span[c] = Part(span[n], value[n], t)
        BY <1>8, <4>1
      <4> QED
        BY <1>7, <2>0, <3>1, <4>2, <4>3, <4>4
    <3> QED
      BY <3>2, <3>3
  <2> QED
    BY <1>1, <2>1, <2>2, <2>3, <2>4, <2>5
<1>14. span' \in [Nodes -> SUBSET Values]
  <2>1. A \subseteq Values /\ Part(A, w, o) \subseteq Values
    BY <1>3, <1>4 DEF Part
  <2> QED
    BY <1>3, <1>4, <1>6, <2>1
<1> QED
  BY <1>11, <1>12, <1>13, <1>14 DEF Ordered

\* Where the calls stand: the node to insert is bare and goes where its value may stand; the loop
\* repairs a node of the tree, and before the last rotation the node is on the outer side.
PlaceInv ==
  /\ pc \notin {"foreach", "free"} => calls = <<>>
  /\ pc = "get" => asked \in Keys /\ visiting \in blocks \cup {NULL}
  /\ pc = "insert" =>
       /\ node \in blocks /\ child[node] = Bare /\ color[node] = "red"
       /\ value[node] \in Values
       /\ IF visiting = NULL THEN blocks = {node} /\ parent[node] = NULL
          ELSE visiting \in blocks \ {node} /\ value[node] \in span[visiting]
  /\ pc \in {"fix", "straight"} => node \in blocks
  /\ pc = "straight" => Violated /\ ~Red(uncle) /\ SideOf(node) = SideOf(parent[node])

\* What TreeIsRedBlack says of the nodes N.
TreeInv(N) == Linked(N) /\ Rooted(N) /\ Ordered(N) /\ Balanced(N) /\ Colored(N)

\* The shape of a tree depends on the fields of its own nodes only.
LEMMA ShapeStays ==
  ASSUME NEW N \in SUBSET Nodes, TreeInv(N), root' = root,
         pc \notin {"fix", "straight"}, pc' \notin {"fix", "straight"},
         \A n \in N : /\ child'[n] = child[n] /\ parent'[n] = parent[n] /\ color'[n] = color[n]
                      /\ value'[n] = value[n] /\ height'[n] = height[n] /\ span'[n] = span[n]
  PROVE  TreeInv(N)'
<1>0. /\ root # NULL => root \in N
      /\ \A n \in N : \A s \in Sides : child[n][s] # NULL => child[n][s] \in N
  BY DEF TreeInv, Linked
<1>1. Linked(N)'
  BY <1>0 DEF TreeInv, Linked
<1>2. Rooted(N)'
  BY <1>0 DEF TreeInv, Rooted
<1>3. Ordered(N)'
  <2>1. root' # NULL => span'[root'] = Values
    BY <1>0 DEF TreeInv, Ordered
  <2>2. \A n \in N : value'[n] \in span'[n]
    BY DEF TreeInv, Ordered
  <2>3. ASSUME NEW n \in N, NEW s \in Sides, child'[n][s] # NULL
        PROVE  span'[child'[n][s]] = Part(span'[n], value'[n], s)
    <3>1. child'[n][s] = child[n][s] /\ child[n][s] \in N
      BY <1>0, <2>3
    <3>2. span[child[n][s]] = Part(span[n], value[n], s)
      BY <2>3, <3>1 DEF TreeInv, Ordered
    <3> QED
      BY <3>1, <3>2
  <2> QED
    BY <2>1, <2>2, <2>3 DEF Ordered
<1>4. Balanced(N)'
  BY <1>0 DEF TreeInv, Balanced
<1>5. Colored(N)'
  <2>1. ~Red(root) /\ \A n \in N : \A s \in Sides : ~(Red(n) /\ Red(child[n][s]))
    BY DEF TreeInv, Colored
  <2>2. \A n \in N \cup {NULL} : Red(n)' = Red(n)
    BY DEF Red
  <2>3. ~Red(root)'
    BY <1>0, <2>1 DEF Red
  <2>4. \A n \in N : \A s \in Sides : ~(Red(n)' /\ Red(child[n][s])')
    BY <1>0, <2>1 DEF Red
  <2> QED
    BY <2>3, <2>4 DEF Colored
<1> QED
  BY <1>1, <1>2, <1>3, <1>4, <1>5 DEF TreeInv

\* A value goes to the part it is meant for.
LEMMA WayIsRight ==
  ASSUME NEW A \in SUBSET Int, value[node] \in A, value[visiting] \in Int
  PROVE  Way \in Sides /\ value[node] \in Part(A, value[visiting], Way)
<1>0. value[node] \in Int /\ value[visiting] \in Int
  OBVIOUS
<1>1. CASE value[node] > value[visiting]
  <2>1. Way = "right" /\ Way # "left" /\ value[node] >= value[visiting]
    BY <1>0, <1>1 DEF Way
  <2> QED
    BY <2>1, TwoSides DEF Part
<1>2. CASE ~(value[node] > value[visiting])
  <2>1. Way = "left" /\ value[node] <= value[visiting]
    BY <1>0, <1>2 DEF Way
  <2> QED
    BY <2>1, TwoSides DEF Part
<1> QED
  BY <1>1, <1>2

\* The new node goes down to where its value may stand; it does not hang in the tree yet.
LEMMA DescendKeepsTree ==
  ASSUME TypeOK, PlaceInv, NEW N, N = blocks \ {node}, TreeInv(N), Descend,
         UNCHANGED dictionaryVars
  PROVE  TypeOK' /\ PlaceInv' /\ TreeInv(N)'
<1>1. /\ pc = "insert" /\ pc' = "insert" /\ visiting # NULL /\ child[visiting][Way] # NULL
      /\ visiting' = child[visiting][Way]
      /\ parent' = [parent EXCEPT ![node] = visiting]
      /\ UNCHANGED <<root, child, color, value, node, calls, height, span>>
      /\ UNCHANGED <<key, blocks, asked, result, met>>
  BY DEF Descend, dictionaryVars
<1>2. /\ N \in SUBSET Nodes /\ node \in blocks /\ visiting \in N /\ blocks \subseteq Nodes
      /\ value[node] \in span[visiting]
      /\ parent \in [Nodes -> Nodes \cup {NULL}]
      /\ child \in [Nodes -> [Sides -> Nodes \cup {NULL}]]
      /\ value \in [Nodes -> Int] /\ span \in [Nodes -> SUBSET Values]
  BY <1>1 DEF PlaceInv, TypeOK, TreeTypeOK
<1>3. TreeInv(N)'
  <2>1. \A n \in N : parent'[n] = parent[n]
    BY <1>1, <1>2
  <2> QED
    BY <1>1, <1>2, <2>1, ShapeStays
<1>4. Way \in Sides /\ value[node] \in Part(span[visiting], value[visiting], Way)
  BY <1>2, WayIsRight, RedBlackTreeAssumption
<1>5. visiting' \in N /\ value[node] \in span[visiting']
  BY <1>1, <1>2, <1>4 DEF TreeInv, Linked, Ordered
<1>6. TypeOK'
  <2>1. parent' \in [Nodes -> Nodes \cup {NULL}] /\ visiting' \in Nodes \cup {NULL}
    BY <1>1, <1>2, <1>5
  <2> QED
    BY <1>1, <2>1 DEF TypeOK, TreeTypeOK
<1>7. PlaceInv'
  <2>1. visiting' \in blocks \ {node} /\ visiting' # NULL
    BY <1>1, <1>2, <1>5
  <2> QED
    BY <1>1, <1>5, <2>1 DEF PlaceInv
<1> QED
  BY <1>3, <1>6, <1>7

\* The first node becomes the root, red until the loop has settled.
LEMMA AttachRootKeepsTree ==
  ASSUME TypeOK, PlaceInv, NEW N, N = blocks \ {node}, TreeInv(N), AttachRoot,
         UNCHANGED dictionaryVars
  PROVE  TypeOK' /\ PlaceInv' /\ TreeInv({node})' /\ blocks' = {node}
<1>1. /\ pc = "insert" /\ pc' = "fix" /\ visiting = NULL /\ root' = node
      /\ span' = [span EXCEPT ![node] = Values] /\ height' = [height EXCEPT ![node] = 0]
      /\ UNCHANGED <<child, parent, color, value, node, visiting, calls>>
      /\ UNCHANGED <<key, blocks, asked, result, met>>
  BY DEF AttachRoot, dictionaryVars
<1>2. /\ blocks = {node} /\ node \in Nodes /\ child[node] = Bare /\ color[node] = "red"
      /\ value[node] \in Values /\ parent[node] = NULL /\ calls = <<>>
  BY <1>1 DEF PlaceInv, TypeOK
<1>3. span'[node] = Values /\ height'[node] = 0 /\ \A s \in Sides : child'[node][s] = NULL
  BY <1>1, <1>2 DEF TypeOK, TreeTypeOK, Bare
<1>4. Linked({node})'
  BY <1>1, <1>2, <1>3 DEF Linked
<1>5. Rooted({node})'
  BY <1>1 DEF Rooted
<1>6. Ordered({node})'
  BY <1>1, <1>2, <1>3 DEF Ordered
<1>7. Balanced({node})'
  BY <1>1, <1>2, <1>3 DEF Balanced
<1>8. Colored({node})'
  BY <1>1, <1>3 DEF Colored, Red
<1>9. TypeOK'
  <2>1. /\ span \in [Nodes -> SUBSET Values] /\ height \in [Nodes -> Int]
        /\ Values \in SUBSET Values
    BY DEF TypeOK, TreeTypeOK
  <2>2. span' \in [Nodes -> SUBSET Values]
    BY <1>1, <1>2, <2>1
  <2>3. height' \in [Nodes -> Int]
    BY <1>1, <1>2, <2>1
  <2> QED
    BY <1>1, <1>2, <2>2, <2>3 DEF TypeOK, TreeTypeOK
<1>10. PlaceInv'
  BY <1>1, <1>2 DEF PlaceInv
<1> QED
  BY <1>1, <1>2, <1>4, <1>5, <1>6, <1>7, <1>8, <1>9, <1>10 DEF TreeInv

\* The new node hangs on a free side of the node it was sent to, red: only that place may now
\* have two reds in a row.
LEMMA AttachKeepsTree ==
  ASSUME TypeOK, PlaceInv, NEW N, N = blocks \ {node}, TreeInv(N), Attach,
         UNCHANGED dictionaryVars
  PROVE  TypeOK' /\ PlaceInv' /\ TreeInv(N \cup {node})' /\ blocks' = N \cup {node}
<1>0. PICK v, s, k : v = visiting /\ s = Way /\ k = node
  OBVIOUS
<1>1. /\ pc = "insert" /\ pc' = "fix" /\ v # NULL /\ child[v][s] = NULL
      /\ child' = [child EXCEPT ![v][s] = k]
      /\ parent' = [parent EXCEPT ![k] = v]
      /\ span' = [span EXCEPT ![k] = Part(span[v], value[v], s)]
      /\ height' = [height EXCEPT ![k] = 0] /\ visiting' = NULL
      /\ UNCHANGED <<root, color, value, node, calls>>
      /\ UNCHANGED <<key, blocks, asked, result, met>>
  BY <1>0 DEF Attach, dictionaryVars
<1>2. /\ N \in SUBSET Nodes /\ k \in blocks /\ v \in N /\ blocks \subseteq Nodes
      /\ value[k] \in span[v] /\ child[k] = Bare /\ color[k] = "red" /\ value[k] \in Values
      /\ calls = <<>>
      /\ parent \in [Nodes -> Nodes \cup {NULL}]
      /\ child \in [Nodes -> [Sides -> Nodes \cup {NULL}]]
      /\ value \in [Nodes -> Int] /\ span \in [Nodes -> SUBSET Values]
      /\ height \in [Nodes -> Int] /\ color \in [Nodes -> {"red", "black"}]
  BY <1>0, <1>1 DEF PlaceInv, TypeOK, TreeTypeOK
<1>3. s \in Sides /\ value[k] \in Part(span[v], value[v], s)
  BY <1>0, <1>2, WayIsRight, RedBlackTreeAssumption
<1>4. PICK M : M = N \cup {k}
  OBVIOUS
<1>5. /\ blocks = M /\ k \notin N /\ v # k /\ k # NULL /\ M \in SUBSET Nodes
      /\ root \in N /\ root # k /\ root # NULL
  BY <1>0, <1>2, <1>4, RedBlackTreeAssumption DEF TreeInv, Linked
<1>6. /\ \A n \in N : \A t \in Sides : child'[n][t] = IF n = v /\ t = s THEN k ELSE child[n][t]
      /\ \A t \in Sides : child'[k][t] = NULL
      /\ \A n \in N : parent'[n] = parent[n] /\ span'[n] = span[n] /\ height'[n] = height[n]
      /\ parent'[k] = v /\ span'[k] = Part(span[v], value[v], s) /\ height'[k] = 0
  <2>1. child'[k] = child[k]
    BY <1>1, <1>2, <1>5
  <2> QED
    BY <1>1, <1>2, <1>3, <1>5, <2>1 DEF Bare
<1>7. \A n \in N : \A t \in Sides : child[n][t] # NULL =>
        child[n][t] \in N \ {root} /\ parent[child[n][t]] = n
  BY DEF TreeInv, Linked
<1>8. Linked(M)'
  <2>1. root' \in M /\ parent'[root'] = NULL
    BY <1>1, <1>4, <1>5, <1>6 DEF TreeInv, Linked
  <2>2. ASSUME NEW n \in M, NEW t \in Sides, child'[n][t] # NULL
        PROVE  child'[n][t] \in M \ {root'} /\ parent'[child'[n][t]] = n
    <3>1. n \in N
      BY <1>4, <1>6, <2>2
    <3>2. CASE n = v /\ t = s
      BY <1>1, <1>4, <1>5, <1>6, <3>1, <3>2
    <3>3. CASE ~(n = v /\ t = s)
      BY <1>1, <1>4, <1>6, <1>7, <2>2, <3>1, <3>3
    <3> QED
      BY <3>2, <3>3
  <2>3. ASSUME NEW n \in M \ {root'}
        PROVE  parent'[n] \in M /\ \E t \in Sides : /\ child'[parent'[n]][t] = n
                                                    /\ child'[parent'[n]][Other(t)] # n
    <3>1. CASE n = k
      <4>1. child'[v][s] = k /\ Other(s) \in Sides /\ Other(s) # s
        BY <1>2, <1>3, <1>6, TwoSides
      <4>2. child[v][Other(s)] # k
        BY <1>2, <1>5, <1>7, <4>1
      <4> QED
        BY <1>2, <1>3, <1>4, <1>6, <3>1, <4>1, <4>2
    <3>2. CASE n # k
      <4>1. n \in N \ {root}
        BY <1>1, <1>4, <2>3, <3>2
      <4>2. PICK t \in Sides : /\ parent[n] \in N /\ child[parent[n]][t] = n
                               /\ child[parent[n]][Other(t)] # n
        BY <4>1 DEF TreeInv, Linked
      <4>3. Other(t) \in Sides
        BY TwoSides
      <4>4. n # NULL
        BY <1>2, <4>1, RedBlackTreeAssumption
      <4>5. child'[parent[n]][t] = n
        BY <1>1, <1>6, <4>2, <4>4
      <4>6. child'[parent[n]][Other(t)] # n
        BY <1>6, <3>2, <4>2, <4>3
      <4> QED
        BY <1>4, <1>6, <4>1, <4>2, <4>5, <4>6
    <3> QED
      BY <3>1, <3>2
  <2> QED
    BY <1>4, <2>1, <2>2, <2>3 DEF Linked
<1>9. Rooted(M)'
  <2>1. SUFFICES ASSUME NEW S \in SUBSET M, S # {}, \A n \in S : n = root' \/ parent'[n] \in S
                 PROVE  root' \in S
    BY DEF Rooted
  <2>2. PICK T : T = S \ {k}
    OBVIOUS
  <2>3. k \in S => v \in T
    BY <1>1, <1>2, <1>5, <1>6, <2>1, <2>2
  <2>4. T \in SUBSET N /\ T # {}
    BY <1>4, <2>1, <2>2, <2>3
  <2>5. ASSUME NEW n \in T PROVE n = root \/ parent[n] \in T
    <3>1. n \in N /\ (n = root \/ parent[n] \in S)
      BY <1>1, <1>6, <2>1, <2>2, <2>4, <2>5
    <3>2. n # root => parent[n] \in N
      BY <3>1 DEF TreeInv, Linked
    <3> QED
      BY <1>5, <2>2, <3>1, <3>2
  <2>6. root \in T
    BY <2>4, <2>5 DEF TreeInv, Rooted
  <2> QED
    BY <1>1, <2>2, <2>6
<1>10. Ordered(M)'
  <2>0. /\ span[root] = Values /\ \A n \in N : value[n] \in span[n]
        /\ \A n \in N : \A t \in Sides : child[n][t] # NULL =>
             span[child[n][t]] = Part(span[n], value[n], t)
    BY <1>5 DEF TreeInv, Ordered
  <2>1. span'[root'] = Values
    BY <1>1, <1>5, <1>6, <2>0
  <2>2. \A n \in M : value'[n] \in span'[n]
    BY <1>1, <1>3, <1>4, <1>6, <2>0
  <2>3. ASSUME NEW n \in M, NEW t \in Sides, child'[n][t] # NULL
        PROVE  span'[child'[n][t]] = Part(span'[n], value'[n], t)
    <3>1. n \in N
      BY <1>4, <1>6, <2>3
    <3>2. CASE n = v /\ t = s
      BY <1>1, <1>6, <3>1, <3>2
    <3>3. CASE ~(n = v /\ t = s)
      <4>1. child'[n][t] = child[n][t] /\ child[n][t] \in N
        BY <1>6, <1>7, <2>3, <3>1, <3>3
      <4>2. span[child[n][t]] = Part(span[n], value[n], t)
        BY <2>0, <2>3, <3>1, <4>1
      <4> QED
        BY <1>1, <1>6, <3>1, <4>1, <4>2
    <3> QED
      BY <3>2, <3>3
  <2> QED
    BY <2>1, <2>2, <2>3 DEF Ordered
<1>11. Balanced(M)'
  <2>1. ASSUME NEW n \in M, NEW t \in Sides
        PROVE  height'[n] = (IF child'[n][t] = NULL THEN 0 ELSE height'[child'[n][t]])
                          + (IF color'[n] = "black" THEN 1 ELSE 0)
    <3>0. \A m \in N : height[m] = (IF child[m][t] = NULL THEN 0 ELSE height[child[m][t]])
                                 + (IF color[m] = "black" THEN 1 ELSE 0)
      BY DEF TreeInv, Balanced
    <3>1. CASE n = k
      BY <1>1, <1>2, <1>6, <3>1
    <3>2. CASE n # k /\ n = v /\ t = s
      BY <1>1, <1>2, <1>5, <1>6, <3>0, <3>2
    <3>3. CASE n # k /\ ~(n = v /\ t = s)
      <4>1. n \in N /\ child'[n][t] = child[n][t]
        BY <1>4, <1>6, <3>3
      <4>2. child[n][t] # NULL => height'[child[n][t]] = height[child[n][t]]
        BY <1>6, <1>7, <4>1
      <4> QED
        BY <1>1, <1>6, <3>0, <4>1, <4>2
    <3> QED
      BY <3>1, <3>2, <3>3
  <2> QED
    BY <2>1 DEF Balanced
<1>12. Colored(M)'
  <2>1. ~Red(root) /\ \A n \in N : \A t \in Sides : ~(Red(n) /\ Red(child[n][t]))
    BY <1>1 DEF TreeInv, Colored
  <2>2. ~Red(root)'
    BY <1>1, <2>1 DEF Red
  <2>3. ASSUME NEW n \in M, NEW t \in Sides, Red(n)', Red(child[n][t])' PROVE child'[n][t] = k
    <3>1. n \in N /\ child'[n][t] # NULL
      BY <1>4, <1>6, <2>3 DEF Red
    <3>2. CASE n = v /\ t = s
      BY <1>6, <3>1, <3>2
    <3>3. CASE ~(n = v /\ t = s)
      <4>1. child'[n][t] = child[n][t]
        BY <1>6, <3>1, <3>3
      <4> QED
        BY <1>1, <2>1, <2>3, <3>1, <4>1 DEF Red
    <3> QED
      BY <3>2, <3>3
  <2> QED
    BY <1>0, <1>1, <2>2, <2>3 DEF Colored
<1>13. TypeOK'
  <2>1. Part(span[v], value[v], s) \in SUBSET Values
    BY <1>2 DEF Part
  <2>2. k \in Nodes /\ v \in Nodes
    BY <1>2
  <2>3. child' \in [Nodes -> [Sides -> Nodes \cup {NULL}]]
    BY <1>1, <1>2, <1>3, <2>2
  <2>4. parent' \in [Nodes -> Nodes \cup {NULL}]
    BY <1>1, <1>2, <2>2
  <2>5. span' \in [Nodes -> SUBSET Values]
    BY <1>1, <1>2, <2>1, <2>2
  <2>6. height' \in [Nodes -> Int]
    BY <1>1, <1>2, <2>2
  <2> QED
    BY <1>1, <2>3, <2>4, <2>5, <2>6 DEF TypeOK, TreeTypeOK
<1>14. PlaceInv'
  BY <1>0, <1>1, <1>2 DEF PlaceInv
<1> QED
  BY <1>0, <1>1, <1>4, <1>5, <1>8, <1>9, <1>10, <1>11, <1>12, <1>13, <1>14 DEF TreeInv

\* A node hangs on the side the code finds it on, and not on the other one.
LEMMA SideIsRight ==
  ASSUME NEW N \in SUBSET Nodes, Linked(N), NEW n \in N \ {root}
  PROVE  /\ SideOf(n) \in Sides /\ parent[n] \in N
         /\ child[parent[n]][SideOf(n)] = n /\ child[parent[n]][Other(SideOf(n))] # n
         /\ \A s \in Sides : child[parent[n]][s] = n => SideOf(n) = s
<1>1. PICK t \in Sides : /\ parent[n] \in N
                         /\ child[parent[n]][t] = n /\ child[parent[n]][Other(t)] # n
  BY DEF Linked
<1>2. SideOf(n) = t
  <2>1. CASE t = "left"
    BY <1>1, <2>1 DEF SideOf
  <2>2. CASE t = "right"
    <3>1. child[parent[n]]["left"] # n
      BY <1>1, <2>2, TwoSides
    <3> QED
      BY <2>2, <3>1 DEF SideOf
  <2> QED
    BY <2>1, <2>2 DEF Sides
<1>3. \A s \in Sides : s # t => s = Other(t)
  BY TwoSides
<1> QED
  BY <1>1, <1>2, <1>3

\* What the loop finds around a node it has to repair.
LEMMA RepairPlaces ==
  ASSUME TypeOK, NEW N \in SUBSET Nodes, TreeInv(N), pc \in {"fix", "straight"},
         node \in N, Violated,
         NEW k, NEW p, NEW g, NEW s, NEW t, NEW u,
         k = node, p = parent[k], g = parent[p], s = SideOf(p), t = SideOf(k), u = uncle
  PROVE  /\ p \in N \ {root, k} /\ g \in N \ {p, k} /\ k \in N \ {root}
         /\ s \in Sides /\ t \in Sides
         /\ child[g][s] = p /\ child[g][Other(s)] = u /\ u # p
         /\ child[p][t] = k /\ child[p][Other(t)] # k
         /\ color[k] = "red" /\ color[p] = "red" /\ color[g] = "black"
         /\ ~Red(root)
         /\ \A n \in N : \A x \in Sides : Red(n) /\ Red(child[n][x]) => n = p /\ child[n][x] = k
         /\ \A n \in N : color[n] \in {"red", "black"}
<1>1. /\ Linked(N) /\ Rooted(N) /\ k \in N \ {root} /\ color[k] = "red" /\ color[p] = "red"
      /\ \A n \in N : color[n] \in {"red", "black"} /\ n # NULL
  BY RedBlackTreeAssumption DEF TreeInv, Violated, TypeOK, TreeTypeOK
<1>2. /\ t \in Sides /\ p \in N /\ child[p][t] = k /\ child[p][Other(t)] # k /\ k # p
      /\ \A x \in Sides : child[k][x] # p
  BY <1>1, SideIsRight, NoLoops
<1>3. /\ Red(root) => root = k
      /\ \A n \in N : \A x \in Sides : Red(n) /\ Red(child[n][x]) => child[n][x] = k
  BY DEF TreeInv, Colored
<1>4. ~Red(root)
  BY <1>1, <1>3
<1>5. p # root
  BY <1>1, <1>2, <1>4 DEF Red
<1>6. /\ s \in Sides /\ g \in N /\ child[g][s] = p /\ child[g][Other(s)] # p /\ g # p
  BY <1>1, <1>2, <1>5, SideIsRight, NoLoops
<1>7. g # k
  BY <1>2, <1>6
<1>8. color[g] = "black"
  BY <1>1, <1>2, <1>3, <1>6 DEF Red
<1>9. u = child[g][Other(s)]
  BY DEF uncle, grand_parent
<1>10. ASSUME NEW n \in N, NEW x \in Sides, Red(n), Red(child[n][x])
       PROVE  n = p /\ child[n][x] = k
  BY <1>1, <1>3, <1>10 DEF Linked
<1> QED
  BY <1>1, <1>2, <1>4, <1>5, <1>6, <1>7, <1>8, <1>9, <1>10

\* Recolouring keeps every count of black nodes and moves the two reds up to the grandparent.
LEMMA RecolorKeepsTree ==
  ASSUME TypeOK, PlaceInv, NEW N, N = blocks, TreeInv(N), Recolor, UNCHANGED dictionaryVars
  PROVE  TypeOK' /\ PlaceInv' /\ TreeInv(N)' /\ blocks' = N
<1>0. PICK k, p, g, s, t, u :
        k = node /\ p = parent[k] /\ g = parent[p] /\ s = SideOf(p) /\ t = SideOf(k) /\ u = uncle
  OBVIOUS
<1>1. /\ pc = "fix" /\ pc' = "fix" /\ Violated /\ Red(u)
      /\ color' = [color EXCEPT ![g] = "red", ![p] = "black", ![u] = "black"]
      /\ height' = [height EXCEPT ![p] = @ + 1, ![u] = @ + 1]
      /\ node' = g
      /\ UNCHANGED <<root, child, parent, value, visiting, calls, span>>
      /\ UNCHANGED <<key, blocks, asked, result, met>>
  BY <1>0 DEF Recolor, grand_parent, dictionaryVars
<1>2. /\ N \in SUBSET Nodes /\ node \in N /\ calls = <<>>
      /\ color \in [Nodes -> {"red", "black"}] /\ height \in [Nodes -> Int]
  BY <1>1 DEF PlaceInv, TypeOK, TreeTypeOK
<1>3. /\ p \in N \ {root, k} /\ g \in N \ {p, k} /\ k \in N \ {root}
      /\ s \in Sides /\ t \in Sides
      /\ child[g][s] = p /\ child[g][Other(s)] = u /\ u # p
      /\ child[p][t] = k /\ child[p][Other(t)] # k
      /\ color[k] = "red" /\ color[p] = "red" /\ color[g] = "black"
      /\ ~Red(root)
      /\ \A n \in N : \A x \in Sides : Red(n) /\ Red(child[n][x]) => n = p /\ child[n][x] = k
      /\ \A n \in N : color[n] \in {"red", "black"}
  BY <1>0, <1>1, <1>2, RepairPlaces
<1>4. PICK o \in Sides : o = Other(s) /\ \A x \in Sides : x \in {s, o}
  BY <1>3, TwoSides
<1>5. u \in N \ {root, p, g} /\ parent[u] = g /\ color[u] = "red"
  <2>1. u # NULL /\ color[u] = "red"
    BY <1>1 DEF Red
  <2>2. Linked(N) /\ Rooted(N) /\ g \in N /\ o \in Sides /\ child[g][o] = u
    BY <1>3, <1>4 DEF TreeInv
  <2>3. u \in N \ {root} /\ parent[u] = g /\ u # g
    BY <1>2, <2>1, <2>2, NoLoops
  <2> QED
    BY <1>3, <2>1, <2>3
<1>6. /\ color'[g] = "red" /\ color'[p] = "black" /\ color'[u] = "black"
      /\ \A n \in N \ {g, p, u} : color'[n] = color[n]
      /\ height'[p] = height[p] + 1 /\ height'[u] = height[u] + 1
      /\ \A n \in N \ {p, u} : height'[n] = height[n]
  BY <1>1, <1>2, <1>3, <1>5
<1>7. \A n \in N : \A x \in Sides : child[n][x] # NULL =>
        child[n][x] \in N \ {root} /\ parent[child[n][x]] = n
  BY DEF TreeInv, Linked
<1>8. Linked(N)' /\ Rooted(N)'
  BY <1>1 DEF TreeInv, Linked, Rooted
<1>9. Ordered(N)'
  BY <1>1 DEF TreeInv, Ordered
<1>10. Balanced(N)'
  <2>1. ASSUME NEW n \in N, NEW x \in Sides
        PROVE  height'[n] = (IF child'[n][x] = NULL THEN 0 ELSE height'[child'[n][x]])
                          + (IF color'[n] = "black" THEN 1 ELSE 0)
    <3>0. PICK c : c = child[n][x]
      OBVIOUS
    <3>1. /\ child'[n][x] = c
          /\ height[n] = (IF c = NULL THEN 0 ELSE height[c])
                       + (IF color[n] = "black" THEN 1 ELSE 0)
      BY <1>1, <3>0 DEF TreeInv, Balanced
    <3>2. height[n] \in Int /\ (c # NULL => c \in N /\ height[c] \in Int /\ parent[c] = n)
      BY <1>2, <1>7, <3>0
    <3>3. CASE n = g
      <4>1. c \in {p, u} /\ c # NULL
        BY <1>3, <1>4, <1>5, <1>2, <3>0, <3>3, RedBlackTreeAssumption
      <4>2. height'[c] = height[c] + 1 /\ height'[n] = height[n]
        BY <1>3, <1>5, <1>6, <3>3, <4>1
      <4>3. color'[n] # "black" /\ color[n] = "black"
        BY <1>3, <1>6, <3>3
      <4> QED
        BY <3>1, <3>2, <4>1, <4>2, <4>3
    <3>4. CASE n \in {p, u}
      <4>1. c # NULL => height'[c] = height[c]
        BY <1>0, <1>3, <1>5, <1>6, <3>2, <3>4
      <4>2. height'[n] = height[n] + 1 /\ color'[n] = "black" /\ color[n] # "black"
        BY <1>3, <1>5, <1>6, <3>4
      <4> QED
        BY <3>1, <3>2, <4>1, <4>2
    <3>5. CASE n \notin {g, p, u}
      <4>1. c # NULL => height'[c] = height[c]
        BY <1>0, <1>3, <1>5, <1>6, <3>2, <3>5
      <4>2. height'[n] = height[n] /\ color'[n] = color[n]
        BY <1>6, <3>5
      <4> QED
        BY <3>1, <3>2, <4>1, <4>2
    <3> QED
      BY <3>3, <3>4, <3>5
  <2> QED
    BY <2>1 DEF Balanced
<1>11. Colored(N)'
  <2>1. Red(root)' => root' = g
    <3>1. root \in N
      BY <1>3 DEF TreeInv, Linked
    <3> QED
      BY <1>1, <1>3, <1>5, <1>6, <3>1 DEF Red
  <2>2. ASSUME NEW n \in N, NEW x \in Sides, Red(n)', Red(child[n][x])' PROVE child'[n][x] = g
    <3>0. PICK c : c = child[n][x]
      OBVIOUS
    <3>1. c \in N /\ parent[c] = n /\ color'[n] = "red" /\ color'[c] = "red"
      BY <1>1, <1>7, <2>2, <3>0 DEF Red
    <3>2. SUFFICES ASSUME c # g PROVE FALSE
      BY <1>1, <3>0
    <3>3. c \notin {p, u} /\ n \notin {p, u} /\ color[c] = "red"
      BY <1>6, <3>1, <3>2
    <3>4. n # g
      BY <1>3, <1>4, <3>0, <3>3
    <3>5. color[n] = "red"
      BY <1>6, <3>1, <3>3, <3>4
    <3> QED
      BY <1>2, <1>3, <3>0, <3>1, <3>3, <3>5, RedBlackTreeAssumption DEF Red
  <2> QED
    BY <1>1, <2>1, <2>2 DEF Colored
<1>12. TypeOK'
  <2>1. color' \in [Nodes -> {"red", "black"}]
    BY <1>1, <1>2
  <2>2. height' \in [Nodes -> Int]
    BY <1>1, <1>2, <1>3, <1>5
  <2> QED
    BY <1>1, <1>2, <1>3, <2>1, <2>2 DEF TypeOK, TreeTypeOK
<1>13. PlaceInv'
  BY <1>1, <1>2, <1>3 DEF PlaceInv
<1> QED
  BY <1>1, <1>8, <1>9, <1>10, <1>11, <1>12, <1>13 DEF TreeInv

\* When the loop ends, a red root is the only fault left, and it is painted black.
LEMMA SettleKeepsTree ==
  ASSUME TypeOK, PlaceInv, NEW N, N = blocks, TreeInv(N), Settle, UNCHANGED dictionaryVars
  PROVE  TypeOK' /\ PlaceInv' /\ TreeInv(N)' /\ blocks' = N
<1>0. PICK r : r = root
  OBVIOUS
<1>1. /\ pc = "fix" /\ pc' = "idle" /\ ~Violated
      /\ color' = [color EXCEPT ![r] = "black"]
      /\ height' = [height EXCEPT ![r] = IF Red(r) THEN @ + 1 ELSE @]
      /\ node' = NULL /\ visiting' = NULL
      /\ UNCHANGED <<root, child, parent, value, calls, span>>
      /\ UNCHANGED <<key, blocks, asked, result, met>>
  BY <1>0 DEF Settle, dictionaryVars
<1>2. /\ N \in SUBSET Nodes /\ node \in N /\ calls = <<>>
      /\ color \in [Nodes -> {"red", "black"}] /\ height \in [Nodes -> Int]
  BY <1>1 DEF PlaceInv, TypeOK, TreeTypeOK
<1>3. /\ r \in N /\ r # NULL
      /\ \A n \in N : \A x \in Sides : child[n][x] # NULL =>
           child[n][x] \in N \ {r} /\ parent[child[n][x]] = n
  BY <1>0, <1>2, RedBlackTreeAssumption DEF TreeInv, Linked
<1>4. /\ color'[r] = "black" /\ \A n \in N \ {r} : color'[n] = color[n]
      /\ height'[r] = IF color[r] = "red" THEN height[r] + 1 ELSE height[r]
      /\ \A n \in N \ {r} : height'[n] = height[n]
  BY <1>1, <1>2, <1>3 DEF Red
<1>5. Linked(N)' /\ Rooted(N)'
  BY <1>1 DEF TreeInv, Linked, Rooted
<1>6. Ordered(N)'
  BY <1>1 DEF TreeInv, Ordered
<1>7. Balanced(N)'
  <2>1. ASSUME NEW n \in N, NEW x \in Sides
        PROVE  height'[n] = (IF child'[n][x] = NULL THEN 0 ELSE height'[child'[n][x]])
                          + (IF color'[n] = "black" THEN 1 ELSE 0)
    <3>0. PICK c : c = child[n][x]
      OBVIOUS
    <3>1. /\ child'[n][x] = c
          /\ height[n] = (IF c = NULL THEN 0 ELSE height[c])
                       + (IF color[n] = "black" THEN 1 ELSE 0)
      BY <1>1, <3>0 DEF TreeInv, Balanced
    <3>2. height[n] \in Int /\ (c # NULL => height'[c] = height[c] /\ height[c] \in Int)
      BY <1>2, <1>3, <1>4, <3>0
    <3>3. color[n] \in {"red", "black"} /\ "red" # "black"
      BY <1>2
    <3>4. CASE n = r
      BY <1>4, <3>1, <3>2, <3>3, <3>4
    <3>5. CASE n # r
      BY <1>4, <3>1, <3>2, <3>5
    <3> QED
      BY <3>4, <3>5
  <2> QED
    BY <2>1 DEF Balanced
<1>8. Colored(N)'
  <2>1. ~Red(root)'
    BY <1>0, <1>1, <1>4 DEF Red
  <2>2. ASSUME NEW n \in N, NEW x \in Sides, Red(n)', Red(child[n][x])' PROVE FALSE
    <3>0. PICK c : c = child[n][x]
      OBVIOUS
    <3>1. c \in N \ {r} /\ parent[c] = n /\ color'[n] = "red" /\ color'[c] = "red"
      BY <1>1, <1>3, <2>2, <3>0 DEF Red
    <3>2. n # r /\ color[n] = "red" /\ color[c] = "red"
      BY <1>4, <3>1
    <3>3. Red(n) /\ Red(c)
      BY <1>2, <3>1, <3>2, RedBlackTreeAssumption DEF Red
    <3>4. c = node
      BY <1>1, <3>0, <3>3 DEF TreeInv, Colored
    <3> QED
      BY <1>0, <1>1, <3>1, <3>2, <3>4 DEF Violated
  <2> QED
    BY <2>1, <2>2 DEF Colored
<1>9. TypeOK'
  <2>1. color' \in [Nodes -> {"red", "black"}]
    BY <1>1, <1>2
  <2>2. height' \in [Nodes -> Int]
    BY <1>1, <1>2, <1>3
  <2> QED
    BY <1>1, <2>1, <2>2 DEF TypeOK, TreeTypeOK
<1>10. PlaceInv'
  BY <1>1, <1>2 DEF PlaceInv
<1> QED
  BY <1>1, <1>5, <1>6, <1>7, <1>8, <1>9, <1>10 DEF TreeInv

\* The test of the code for a side, in any state.
LEMMA FoundOnSide ==
  ASSUME NEW f, NEW n, NEW s \in Sides, f[s] = n, f[Other(s)] # n
  PROVE  (IF f["left"] = n THEN "left" ELSE "right") = s
<1>1. CASE s = "left"
  BY <1>1
<1>2. CASE s = "right"
  <2>1. f["left"] # n
    BY <1>2, TwoSides
  <2> QED
    BY <1>2, <2>1
<1> QED
  BY <1>1, <1>2 DEF Sides

\* A rotation of two red nodes changes no count of black nodes, and leaves the lower one on the
\* outer side.
LEMMA BendKeepsTree ==
  ASSUME TypeOK, PlaceInv, NEW N, N = blocks, TreeInv(N), Bend, UNCHANGED dictionaryVars
  PROVE  TypeOK' /\ PlaceInv' /\ TreeInv(N)' /\ blocks' = N
<1>0. PICK k, p, g, s, t, u :
        k = node /\ p = parent[k] /\ g = parent[p] /\ s = SideOf(p) /\ t = SideOf(k) /\ u = uncle
  OBVIOUS
<1>1. /\ pc = "fix" /\ pc' = "straight" /\ Violated /\ ~Red(u) /\ t # s
      /\ Rotate(p, t)
      /\ node' = p
      /\ UNCHANGED <<color, value, visiting, calls, height>>
      /\ UNCHANGED <<key, blocks, asked, result, met>>
  BY <1>0 DEF Bend, dictionaryVars
<1>2. /\ N \in SUBSET Nodes /\ node \in N /\ calls = <<>>
      /\ color \in [Nodes -> {"red", "black"}] /\ height \in [Nodes -> Int]
      /\ Linked(N) /\ Rooted(N) /\ Ordered(N)
  BY <1>1 DEF PlaceInv, TypeOK, TreeTypeOK, TreeInv
<1>3. /\ p \in N \ {root, k} /\ g \in N \ {p, k} /\ k \in N \ {root}
      /\ s \in Sides /\ t \in Sides
      /\ child[g][s] = p /\ child[g][Other(s)] = u /\ u # p
      /\ child[p][t] = k /\ child[p][Other(t)] # k
      /\ color[k] = "red" /\ color[p] = "red" /\ color[g] = "black"
      /\ ~Red(root)
      /\ \A n \in N : \A x \in Sides : Red(n) /\ Red(child[n][x]) => n = p /\ child[n][x] = k
      /\ \A n \in N : color[n] \in {"red", "black"}
  BY <1>0, <1>1, <1>2, RepairPlaces
<1>4. PICK o \in Sides : /\ o = Other(t) /\ o # t /\ o = s /\ Other(s) = t
                       /\ \A x \in Sides : x \in {t, o}
  BY <1>1, <1>3, TwoSides
<1>5. k # NULL /\ p # NULL
  BY <1>2, <1>3, RedBlackTreeAssumption
<1>6. /\ root' = root
      /\ child' \in [Nodes -> [Sides -> Nodes \cup {NULL}]]
      /\ parent' \in [Nodes -> Nodes \cup {NULL}]
      /\ child'[p][t] = child[k][o] /\ child'[p][o] = child[p][o]
      /\ child'[k][o] = p /\ child'[k][t] = child[k][t]
      /\ \A n \in N \ {p, k} : \A x \in Sides :
           child'[n][x] = IF child[n][x] = p THEN k ELSE child[n][x]
      /\ parent'[p] = k /\ parent'[k] = g
  <2>1. /\ TreeTypeOK /\ N \in SUBSET Nodes /\ p \in N /\ t \in Sides
        /\ k = child[p][t] /\ k # NULL /\ Rotate(p, t) /\ Linked(N) /\ Rooted(N)
    BY <1>1, <1>2, <1>3, <1>5 DEF TypeOK
  <2>2. /\ root' = IF p = root THEN k ELSE root
        /\ child' \in [Nodes -> [Sides -> Nodes \cup {NULL}]]
        /\ parent' \in [Nodes -> Nodes \cup {NULL}]
        /\ child'[p][t] = child[k][Other(t)] /\ child'[p][Other(t)] = child[p][Other(t)]
        /\ child'[k][Other(t)] = p /\ child'[k][t] = child[k][t]
        /\ \A n \in N \ {p, k} : \A x \in Sides :
             child'[n][x] = IF child[n][x] = p THEN k ELSE child[n][x]
        /\ parent'[p] = k /\ parent'[k] = parent[p]
    BY <2>1, RotationMoves
  <2>3. p # root /\ parent[p] = g /\ o = Other(t)
    BY <1>0, <1>3, <1>4
  <2> QED
    BY <2>2, <2>3
<1>7. Linked(N)' /\ Rooted(N)' /\ Ordered(N)' /\ span' \in [Nodes -> SUBSET Values]
  BY <1>1, <1>2, <1>3, <1>5, RotationKeepsLinks, RotationKeepsRoot, RotationKeepsOrder DEF TypeOK
<1>8. \A n \in N : \A x \in Sides : child[n][x] # NULL =>
        child[n][x] \in N \ {root} /\ parent[child[n][x]] = n
  BY DEF TreeInv, Linked
<1>9. \A n \in N : \A x \in Sides :
        height[n] = (IF child[n][x] = NULL THEN 0 ELSE height[child[n][x]])
                  + (IF color[n] = "black" THEN 1 ELSE 0)
  BY DEF TreeInv, Balanced
<1>10. Balanced(N)'
  <2>1. height[p] = height[k] /\ height[k] \in Int
    <3>1. height[p] = (IF child[p][t] = NULL THEN 0 ELSE height[child[p][t]])
                    + (IF color[p] = "black" THEN 1 ELSE 0)
      BY <1>3, <1>9
    <3>2. height[k] \in Int
      BY <1>2, <1>3
    <3> QED
      BY <1>3, <1>5, <3>1, <3>2
  <2>2. ASSUME NEW n \in N, NEW x \in Sides
        PROVE  height[n] = (IF child'[n][x] = NULL THEN 0 ELSE height[child'[n][x]])
                         + (IF color[n] = "black" THEN 1 ELSE 0)
    <3>1. CASE n = p /\ x = t
      <4>1. height[k] = (IF child[k][o] = NULL THEN 0 ELSE height[child[k][o]])
                      + (IF color[k] = "black" THEN 1 ELSE 0)
        BY <1>3, <1>4, <1>9
      <4> QED
        BY <1>3, <1>6, <2>1, <3>1, <4>1
    <3>2. CASE n = k /\ x = o
      <4>1. color[k] # "black"
        BY <1>3
      <4> QED
        BY <1>5, <1>6, <2>1, <3>2, <4>1
    <3>3. CASE (n = p /\ x = o) \/ (n = k /\ x = t)
      <4>1. child'[n][x] = child[n][x]
        BY <1>6, <3>3
      <4> QED
        BY <1>9, <4>1
    <3>4. CASE n # p /\ n # k
      <4>1. child'[n][x] = IF child[n][x] = p THEN k ELSE child[n][x]
        BY <1>6, <3>4
      <4>2. height[n] = (IF child[n][x] = NULL THEN 0 ELSE height[child[n][x]])
                      + (IF color[n] = "black" THEN 1 ELSE 0)
        BY <1>9
      <4> QED
        BY <1>5, <2>1, <4>1, <4>2
    <3>5. x = t \/ x = o
      BY <1>4
    <3> QED
      BY ONLY <3>1, <3>2, <3>3, <3>4, <3>5
  <2> QED
    BY <1>1, <2>2 DEF Balanced
<1>11. Colored(N)'
  <2>1. ~Red(root)'
    BY <1>1, <1>3, <1>6 DEF Red
  <2>2. ASSUME NEW n \in N, NEW x \in Sides, Red(n)', Red(child[n][x])' PROVE child'[n][x] = p
    <3>0. PICK c : c = child'[n][x]
      OBVIOUS
    <3>1. SUFFICES ASSUME c # p PROVE FALSE
      BY <3>0
    <3>2. c # NULL /\ color[c] = "red" /\ color[n] = "red" /\ Red(c) /\ Red(n) /\ n # NULL
      BY <1>1, <2>2, <3>0 DEF Red
    <3>3. CASE n = p /\ x = t
      <4>1. Red(k) /\ child[k][o] = c
        BY <1>3, <1>5, <1>6, <3>0, <3>3 DEF Red
      <4> QED
        BY <1>3, <1>4, <3>2, <4>1
    <3>4. CASE n = p /\ x = o
      <4>1. child[p][o] = c
        BY <1>6, <3>0, <3>4
      <4> QED
        BY <1>3, <1>4, <3>2, <3>4, <4>1
    <3>5. CASE n = k /\ x = o
      BY <1>6, <3>0, <3>1, <3>5
    <3>6. CASE n = k /\ x = t
      <4>1. child[k][t] = c
        BY <1>6, <3>0, <3>6
      <4> QED
        BY <1>3, <3>2, <3>6, <4>1
    <3>7. CASE n \notin {p, k}
      <4>1. c = IF child[n][x] = p THEN k ELSE child[n][x]
        BY <1>6, <3>0, <3>7
      <4>2. CASE child[n][x] = p
        <5>1. Red(child[n][x])
          BY <1>3, <1>5, <4>2 DEF Red
        <5> QED
          BY <1>3, <3>2, <3>7, <5>1
      <4>3. CASE child[n][x] # p
        BY <1>3, <3>2, <3>7, <4>1, <4>3
      <4> QED
        BY <4>2, <4>3
    <3> QED
      BY <1>4, <3>3, <3>4, <3>5, <3>6, <3>7
  <2> QED
    BY <1>1, <2>1, <2>2 DEF Colored
<1>12. TypeOK'
  <2>1. p \in Nodes
    BY <1>2, <1>3
  <2>2. root' \in Nodes \cup {NULL}
    BY <1>6 DEF TypeOK, TreeTypeOK
  <2> QED
    BY <1>1, <1>6, <1>7, <2>1, <2>2 DEF TypeOK, TreeTypeOK
<1>13. PlaceInv'
  <2>1. node' \in blocks' /\ calls' = <<>>
    BY <1>1, <1>2, <1>3
  <2>2. parent'[node'] = k /\ (grand_parent)' = g
    BY <1>1, <1>6 DEF grand_parent
  <2>3. Violated'
    <3>1. /\ node' = p /\ root' # p /\ "red" # "black"
          /\ color'[p] = "red" /\ color'[parent'[p]] = "red"
      BY <1>1, <1>3, <1>6
    <3> QED
      BY <3>1 DEF Violated
  <2>4. SideOf(k)' = s
    <3>1. child'[g][s] = k /\ parent'[k] = g
      BY <1>3, <1>6
    <3>2. child'[g][Other(s)] # k
      <4>1. Other(s) \in Sides /\ child[g][Other(s)] # p /\ g \in N \ {p, k}
        BY <1>3, TwoSides
      <4>2. child'[g][Other(s)] = child[g][Other(s)]
        BY <1>6, <4>1
      <4>3. child[g][Other(s)] # k
        BY <1>0, <1>5, <1>8, <4>1
      <4> QED
        BY <4>2, <4>3
    <3>3. (IF child'[g]["left"] = k THEN "left" ELSE "right") = s
      BY <1>3, <3>1, <3>2, FoundOnSide
    <3> QED
      BY <3>1, <3>3 DEF SideOf
  <2>5. SideOf(p)' = s
    <3>1. child'[k][s] = p /\ parent'[p] = k
      BY <1>4, <1>6
    <3>2. child'[k][Other(s)] # p
      <4>1. child'[k][Other(s)] = child[k][t]
        BY <1>4, <1>6
      <4>2. child[k][t] # p
        BY <1>0, <1>3, <1>5, <1>8
      <4> QED
        BY <4>1, <4>2
    <3>3. (IF child'[k]["left"] = p THEN "left" ELSE "right") = s
      BY <1>3, <3>1, <3>2, FoundOnSide
    <3> QED
      BY <3>1, <3>3 DEF SideOf
  <2>6. uncle' = u
    <3>1. uncle' = child'[g][Other(SideOf(k)')]
      BY <2>2 DEF uncle
    <3>2. Other(SideOf(k)') = t
      BY <1>4, <2>4
    <3>3. child[g][t] = u
      BY <1>3, <1>4
    <3> QED
      BY <1>3, <1>6, <3>1, <3>2, <3>3
  <2>7. ~Red(uncle)'
    BY <1>1, <2>6 DEF Red
  <2>8. SideOf(node)' = SideOf(parent[node])'
    BY <1>1, <2>2, <2>4, <2>5
  <2> QED
    BY <1>1, <2>1, <2>3, <2>7, <2>8 DEF PlaceInv
<1> QED
  BY <1>1, <1>7, <1>10, <1>11, <1>12, <1>13 DEF TreeInv

\* The parent takes the place and the colour of the grandparent: the tree is red-black below it.
LEMMA StraightenKeepsTree ==
  ASSUME TypeOK, PlaceInv, NEW N, N = blocks, TreeInv(N), Straighten, UNCHANGED dictionaryVars
  PROVE  TypeOK' /\ PlaceInv' /\ TreeInv(N)' /\ blocks' = N
<1>0. PICK k, p, g, s, t, u :
        k = node /\ p = parent[k] /\ g = parent[p] /\ s = SideOf(p) /\ t = SideOf(k) /\ u = uncle
  OBVIOUS
<1>1. /\ pc \in {"fix", "straight"} /\ pc' = "fix" /\ Violated /\ ~Red(u) /\ t = s
      /\ Rotate(g, s)
      /\ color' = [color EXCEPT ![p] = color[g], ![g] = color[p]]
      /\ height' = [height EXCEPT ![p] = @ + 1, ![g] = @ - 1]
      /\ node' = p
      /\ UNCHANGED <<value, visiting, calls>>
      /\ UNCHANGED <<key, blocks, asked, result, met>>
  BY <1>0 DEF Straighten, PlaceInv, grand_parent, dictionaryVars
<1>2. /\ N \in SUBSET Nodes /\ node \in N /\ calls = <<>>
      /\ color \in [Nodes -> {"red", "black"}] /\ height \in [Nodes -> Int]
      /\ Linked(N) /\ Rooted(N) /\ Ordered(N)
  BY <1>1 DEF PlaceInv, TypeOK, TreeTypeOK, TreeInv
<1>3a. pc \in {"fix", "straight"} /\ TreeInv(N) /\ Violated /\ node \in N /\ N \in SUBSET Nodes
  BY <1>1, <1>2
<1>3b. p = parent[k] /\ g = parent[p] /\ s = SideOf(p) /\ t = SideOf(k) /\ u = uncle /\ k = node
  BY <1>0
<1>3. /\ p \in N \ {root, k} /\ g \in N \ {p, k} /\ k \in N \ {root}
      /\ s \in Sides /\ t \in Sides
      /\ child[g][s] = p /\ child[g][Other(s)] = u /\ u # p
      /\ child[p][t] = k /\ child[p][Other(t)] # k
      /\ color[k] = "red" /\ color[p] = "red" /\ color[g] = "black"
      /\ ~Red(root)
      /\ \A n \in N : \A x \in Sides : Red(n) /\ Red(child[n][x]) => n = p /\ child[n][x] = k
      /\ \A n \in N : color[n] \in {"red", "black"}
  BY <1>3a, <1>3b, RepairPlaces
<1>4. PICK o \in Sides : o = Other(s) /\ o # s /\ \A x \in Sides : x \in {s, o}
  BY <1>3, TwoSides
<1>5. k # NULL /\ p # NULL /\ g # NULL
  BY <1>2, <1>3, RedBlackTreeAssumption
<1>6. /\ root' = IF g = root THEN p ELSE root
      /\ child' \in [Nodes -> [Sides -> Nodes \cup {NULL}]]
      /\ parent' \in [Nodes -> Nodes \cup {NULL}]
      /\ child'[g][s] = child[p][o] /\ child'[g][o] = child[g][o]
      /\ child'[p][o] = g /\ child'[p][s] = child[p][s]
      /\ \A n \in N \ {g, p} : \A x \in Sides :
           child'[n][x] = IF child[n][x] = g THEN p ELSE child[n][x]
  <2>1. /\ TreeTypeOK /\ N \in SUBSET Nodes /\ g \in N /\ s \in Sides
        /\ p = child[g][s] /\ p # NULL /\ Rotate(g, s) /\ Linked(N) /\ Rooted(N)
    BY <1>1, <1>2, <1>3, <1>5 DEF TypeOK
  <2>2. /\ root' = IF g = root THEN p ELSE root
        /\ child' \in [Nodes -> [Sides -> Nodes \cup {NULL}]]
        /\ parent' \in [Nodes -> Nodes \cup {NULL}]
        /\ child'[g][s] = child[p][Other(s)] /\ child'[g][Other(s)] = child[g][Other(s)]
        /\ child'[p][Other(s)] = g /\ child'[p][s] = child[p][s]
        /\ \A n \in N \ {g, p} : \A x \in Sides :
             child'[n][x] = IF child[n][x] = g THEN p ELSE child[n][x]
    BY <2>1, RotationMoves
  <2>3. o = Other(s)
    BY <1>4
  <2> QED
    BY <2>2, <2>3
<1>7. Linked(N)' /\ Rooted(N)' /\ Ordered(N)' /\ span' \in [Nodes -> SUBSET Values]
  BY <1>1, <1>2, <1>3, <1>5, RotationKeepsLinks, RotationKeepsRoot, RotationKeepsOrder DEF TypeOK
<1>8. \A n \in N : \A x \in Sides : child[n][x] # NULL =>
        child[n][x] \in N \ {root} /\ parent[child[n][x]] = n
  BY DEF TreeInv, Linked
<1>9. /\ color'[p] = "black" /\ color'[g] = "red"
      /\ \A n \in N \ {g, p} : color'[n] = color[n]
      /\ height'[p] = height[p] + 1 /\ height'[g] = height[g] - 1
      /\ \A n \in N \ {g, p} : height'[n] = height[n]
  BY <1>1, <1>2, <1>3
\* The children that change their parent, or keep one that changes its colour.
<1>10. PICK i : i = child[p][o]
  OBVIOUS
<1>11. /\ child[p][s] = k /\ i # k /\ child[g][o] = u
       /\ i # NULL => i \in N \ {g, p, root}
       /\ u # NULL => u \in N \ {g, p, root}
  <2>1. child[p][s] = k /\ i # k /\ child[g][o] = u
    BY <1>1, <1>3, <1>4, <1>10
  <2>2. i # NULL => i \in N \ {g, p, root}
    BY <1>0, <1>2, <1>3, <1>4, <1>10, NoLoops
  <2>3. u # NULL => u \in N \ {g, p, root}
    BY <1>2, <1>3, <1>4, <2>1, NoLoops
  <2> QED
    BY <2>1, <2>2, <2>3
<1>12. \A n \in N : \A x \in Sides :
         height[n] = (IF child[n][x] = NULL THEN 0 ELSE height[child[n][x]])
                   + (IF color[n] = "black" THEN 1 ELSE 0)
  BY DEF TreeInv, Balanced
<1>13. Balanced(N)'
  <2>1. \A n \in N : height[n] \in Int
    BY <1>2
  <2>2. height[g] = height[p] + 1 /\ height[p] = height[k]
    <3>1. height[g] = (IF child[g][s] = NULL THEN 0 ELSE height[child[g][s]])
                    + (IF color[g] = "black" THEN 1 ELSE 0)
      BY <1>3, <1>12
    <3>2. height[p] = (IF child[p][s] = NULL THEN 0 ELSE height[child[p][s]])
                    + (IF color[p] = "black" THEN 1 ELSE 0)
      BY <1>3, <1>12
    <3>3. color[p] # "black" /\ height[k] \in Int
      BY <1>3, <2>1
    <3> QED
      BY <1>3, <1>5, <1>11, <2>1, <3>1, <3>2, <3>3
  <2>3. height[p] = IF i = NULL THEN 0 ELSE height'[i]
    <3>1. height[p] = (IF i = NULL THEN 0 ELSE height[i]) + (IF color[p] = "black" THEN 1 ELSE 0)
      BY <1>3, <1>4, <1>10, <1>12
    <3>2. i # NULL => height'[i] = height[i] /\ height[i] \in Int
      BY <1>9, <1>11, <2>1
    <3>3. color[p] # "black"
      BY <1>3
    <3> QED
      BY <3>1, <3>2, <3>3
  <2>4. height[g] = (IF u = NULL THEN 0 ELSE height'[u]) + 1
    <3>1. height[g] = (IF u = NULL THEN 0 ELSE height[u]) + (IF color[g] = "black" THEN 1 ELSE 0)
      BY <1>3, <1>4, <1>11, <1>12
    <3>2. u # NULL => height'[u] = height[u]
      BY <1>9, <1>11
    <3> QED
      BY <1>3, <3>1, <3>2
  <2>5. /\ height[g] \in Int /\ height[p] \in Int
        /\ (IF u = NULL THEN 0 ELSE height'[u]) \in Int
    BY <1>3, <1>9, <1>11, <2>1
  <2>6. height'[g] = height[p] /\ height'[g] = IF u = NULL THEN 0 ELSE height'[u]
    BY <1>9, <2>2, <2>4, <2>5
  <2>7. color'[g] # "black" /\ color'[p] = "black"
    BY <1>9
  <2>8. ASSUME NEW n \in N, NEW x \in Sides
        PROVE  height'[n] = (IF child'[n][x] = NULL THEN 0 ELSE height'[child'[n][x]])
                          + (IF color'[n] = "black" THEN 1 ELSE 0)
    <3>1. CASE n = g /\ x = s
      <4>1. child'[n][x] = i
        BY <1>6, <1>10, <3>1
      <4> QED
        BY <2>3, <2>5, <2>6, <2>7, <3>1, <4>1
    <3>2. CASE n = g /\ x = o
      <4>1. child'[n][x] = u
        BY <1>6, <1>11, <3>2
      <4> QED
        BY <2>5, <2>6, <2>7, <3>2, <4>1
    <3>3. CASE n = p /\ x = o
      <4>1. child'[n][x] = g
        BY <1>6, <3>3
      <4> QED
        BY <1>5, <1>9, <2>6, <2>7, <3>3, <4>1
    <3>4. CASE n = p /\ x = s
      <4>1. child'[n][x] = k /\ height'[k] = height[k]
        BY <1>3, <1>6, <1>9, <1>11, <3>4
      <4> QED
        BY <1>5, <1>9, <2>2, <2>7, <3>4, <4>1
    <3>5. CASE n \notin {g, p}
      <4>0. PICK c : c = child[n][x]
        OBVIOUS
      <4>1. child'[n][x] = IF c = g THEN p ELSE c
        BY <1>6, <3>5, <4>0
      <4>2. height[n] = (IF c = NULL THEN 0 ELSE height[c])
                      + (IF color[n] = "black" THEN 1 ELSE 0)
        BY <1>12, <4>0
      <4>3. height'[n] = height[n] /\ color'[n] = color[n]
        BY <1>9, <3>5
      <4>4. CASE c = g
        <5>1. child'[n][x] = p /\ height'[p] = height[g]
          BY <1>9, <2>2, <4>1, <4>4
        <5> QED
          BY <1>5, <4>2, <4>3, <4>4, <5>1
      <4>5. CASE c # g
        <5>1. c # NULL => c \in N /\ parent[c] = n
          BY <1>8, <4>0
        <5>2. c # p
          BY <1>0, <1>5, <3>5, <5>1
        <5>3. c # NULL => height'[c] = height[c]
          BY <1>9, <4>5, <5>1, <5>2
        <5> QED
          BY <4>1, <4>2, <4>3, <4>5, <5>3
      <4> QED
        BY <4>4, <4>5
    <3> QED
      BY <1>4, <3>1, <3>2, <3>3, <3>4, <3>5
  <2> QED
    BY <2>8 DEF Balanced
<1>14. Colored(N)'
  <2>1. Red(root)' => root' = p
    <3>1. root \in N
      BY <1>3 DEF TreeInv, Linked
    <3>2. CASE g = root
      BY <1>6, <3>2
    <3>3. CASE g # root
      BY <1>3, <1>6, <1>9, <3>1, <3>3 DEF Red
    <3> QED
      BY <3>2, <3>3
  <2>2. ASSUME NEW n \in N, NEW x \in Sides, Red(n)', Red(child[n][x])' PROVE child'[n][x] = p
    <3>0. PICK c : c = child'[n][x]
      OBVIOUS
    <3>1. c # NULL /\ color'[c] = "red" /\ color'[n] = "red"
      BY <2>2, <3>0 DEF Red
    <3>2. n # p
      BY <1>9, <3>1
    <3>3. CASE n = g /\ x = s
      <4>1. c = i
        BY <1>6, <1>10, <3>0, <3>3
      <4>2. Red(i)
        BY <1>9, <1>11, <3>1, <4>1 DEF Red
      <4>3. Red(p)
        BY <1>3, <1>5 DEF Red
      <4> QED
        BY <1>3, <1>4, <1>10, <1>11, <4>2, <4>3
    <3>4. CASE n = g /\ x = o
      <4>1. c = u
        BY <1>6, <1>11, <3>0, <3>4
      <4>2. Red(u)
        BY <1>9, <1>11, <3>1, <4>1 DEF Red
      <4> QED
        BY <1>1, <4>2
    <3>5. CASE n \notin {g, p}
      <4>0. PICK d : d = child[n][x]
        OBVIOUS
      <4>1. c = IF d = g THEN p ELSE d
        BY <1>6, <3>0, <3>5, <4>0
      <4>2. CASE d = g
        BY <3>0, <4>1, <4>2
      <4>3. CASE d # g
        <5>1. c = d /\ c \in N /\ parent[c] = n
          BY <1>8, <3>1, <4>0, <4>1, <4>3
        <5>2. c # p
          BY <1>0, <3>5, <5>1
        <5>3. color[c] = "red" /\ color[n] = "red" /\ n # NULL
          BY <1>2, <1>9, <3>1, <3>5, <4>3, <5>1, <5>2, RedBlackTreeAssumption
        <5>4. Red(n) /\ Red(child[n][x])
          BY <3>1, <4>0, <5>1, <5>3 DEF Red
        <5> QED
          BY <1>3, <3>2, <5>4
      <4> QED
        BY <4>2, <4>3
    <3> QED
      BY <1>4, <3>2, <3>3, <3>4, <3>5
  <2> QED
    BY <1>1, <2>1, <2>2 DEF Colored
<1>15. TypeOK'
  <2>1. p \in Nodes /\ g \in Nodes
    BY <1>2, <1>3
  <2>2. root' \in Nodes \cup {NULL}
    BY <1>6, <2>1 DEF TypeOK, TreeTypeOK
  <2>3. color' \in [Nodes -> {"red", "black"}]
    BY <1>1, <1>2, <1>3, <2>1
  <2>4. height' \in [Nodes -> Int]
    BY <1>1, <1>2, <2>1
  <2> QED
    BY <1>1, <1>6, <1>7, <2>1, <2>2, <2>3, <2>4 DEF TypeOK, TreeTypeOK
<1>16. PlaceInv'
  BY <1>1, <1>2, <1>3 DEF PlaceInv
<1> QED
  BY <1>1, <1>7, <1>13, <1>14, <1>15, <1>16 DEF TreeInv

\* The nodes whose calls are open.
Trail == {calls[i].node : i \in 1 .. Len(calls)}

\* The call for one child of a frame has returned, or is the frame above it.
Over(i, s, D) ==
  \/ child[calls[i].node][s] \in D \cup {NULL}
  \/ i < Len(calls) /\ child[calls[i].node][s] = calls[i + 1].node

\* Each frame is for the child the one below it has turned to, so no node has two.
Chained ==
  /\ calls # <<>> => calls[1].node = root
  /\ \A i, j \in 1 .. Len(calls) : calls[i].node = calls[j].node => i = j
  /\ \A i \in 1 .. Len(calls) - 1 :
       /\ calls[i].todo # "left"
       /\ calls[i + 1].node =
            child[calls[i].node][IF calls[i].todo = "right" THEN "left" ELSE "right"]

\* A walk over N that is done with D: what is done is done to the bottom, and what is not yet
\* met has nothing done below it.
Walked(N, D) ==
  /\ Trail \subseteq N \ D /\ D \subseteq N
  /\ calls = <<>> => root \in D \cup {NULL}
  /\ Chained
  /\ \A n \in N \ (D \cup Trail) : \A s \in Sides : child[n][s] \notin D
  /\ \A n \in D : \A s \in Sides : child[n][s] \in D \cup {NULL}
  /\ \A i \in 1 .. Len(calls) :
       LET n == calls[i].node
       IN /\ calls[i].todo = "left" => child[n]["left"] \notin D /\ child[n]["right"] \notin D
          /\ calls[i].todo = "right" => Over(i, "left", D) /\ child[n]["right"] \notin D
          /\ calls[i].todo = "return" => Over(i, "left", D) /\ Over(i, "right", D)

\* A set of nodes that holds the root and the children of its nodes holds the whole tree.
LEMMA ClosedIsAll ==
  ASSUME NEW N \in SUBSET Nodes, Linked(N), Rooted(N), NEW S \in SUBSET N, root \in S \cup {NULL},
         \A n \in S : \A s \in Sides : child[n][s] \in S \cup {NULL}
  PROVE  S = N
<1>1. SUFFICES ASSUME N \ S # {} PROVE FALSE
  OBVIOUS
<1>2. root \in N
  BY <1>1 DEF Linked
<1>3. root \in S
  BY <1>2, RedBlackTreeAssumption
<1>4. ASSUME NEW n \in N \ S PROVE n = root \/ parent[n] \in N \ S
  <2>1. SUFFICES ASSUME n # root, parent[n] \in S PROVE FALSE
    BY DEF Linked
  <2>2. PICK s \in Sides : child[parent[n]][s] = n
    BY <1>4, <2>1 DEF Linked
  <2> QED
    BY <1>4, <2>1, <2>2, RedBlackTreeAssumption
<1>5. root \in N \ S
  BY <1>1, <1>4 DEF Rooted
<1> QED
  BY <1>3, <1>5

\* A walk that has no calls left has been at every node.
LEMMA WalkEnds ==
  ASSUME NEW N \in SUBSET Nodes, Linked(N), Rooted(N), NEW D, Walked(N, D), calls = <<>>
  PROVE  D = N /\ Trail = {}
<1>1. D = N
  BY ClosedIsAll DEF Walked
<1>2. Len(calls) = 0
  OBVIOUS
<1>3. Trail = {}
  BY <1>2 DEF Trail
<1> QED
  BY <1>1, <1>3

\* The calls after a step.
LEMMA CallsOfRecurse ==
  ASSUME calls \in Seq(Frames), NEW side \in Sides, Recurse(side), NEW L, L = Len(calls),
         NEW c, c = child[innermost.node][side],
         c \in Nodes \cup {NULL}
  PROVE  /\ L \in Nat \ {0} /\ calls[L].todo = side
         /\ calls' \in Seq(Frames)
         /\ \A i \in 1 .. L - 1 : calls'[i] = calls[i]
         /\ calls'[L].node = calls[L].node
         /\ calls'[L].todo = IF side = "left" THEN "right" ELSE "return"
         /\ c = NULL => Len(calls') = L
         /\ c # NULL => /\ Len(calls') = L + 1
                        /\ calls'[L + 1].node = c /\ calls'[L + 1].todo = "left"
<1>1. PICK w : w = IF side = "left" THEN "right" ELSE "return"
  OBVIOUS
<1>2. PICK d : d = [calls EXCEPT ![L].todo = w]
  OBVIOUS
<1>3. calls # <<>> /\ calls[L].todo = side /\ calls' = d \o Call(c)
  BY <1>1, <1>2 DEF Recurse, innermost
<1>4. L \in Nat \ {0} /\ L \in 1 .. Len(calls)
  BY <1>3, EmptySeq
<1>5. w \in {"left", "right", "return"}
  BY <1>1
<1>6. calls[L] \in Frames
  BY <1>4, ElementOfSeq
<1>7. PICK e : e = [calls[L] EXCEPT !.todo = w]
  OBVIOUS
<1>8. e \in Frames /\ e.node = calls[L].node /\ e.todo = w
  BY <1>5, <1>6, <1>7 DEF Frames
<1>9. d = [calls EXCEPT ![L] = e]
  BY <1>2, <1>7
<1>10. d \in Seq(Frames) /\ Len(d) = L /\ d[L] = e /\ \A i \in 1 .. L - 1 : d[i] = calls[i]
  BY <1>4, <1>8, <1>9, ExceptSeq
<1>11. CASE c = NULL
  <2>1. Call(c) = <<>>
    BY <1>11 DEF Call
  <2>2. calls' = d
    BY <1>3, <1>10, <2>1, ConcatEmptySeq
  <2> QED
    BY <1>1, <1>3, <1>4, <1>8, <1>10, <1>11, <2>2
<1>12. CASE c # NULL
  <2>1. PICK f : f = [node |-> c, todo |-> "left"]
    OBVIOUS
  <2>2. f \in Frames /\ f.node = c /\ f.todo = "left"
    BY <1>12, <2>1 DEF Frames
  <2>3. Call(c) = <<f>>
    BY <1>12, <2>1 DEF Call
  <2>4. calls' = Append(d, f)
    BY <1>3, <1>10, <2>2, <2>3, AppendIsConcat
  <2>5. /\ calls' \in Seq(Frames) /\ Len(calls') = L + 1 /\ calls'[L + 1] = f
        /\ \A i \in 1 .. L : calls'[i] = d[i]
    BY <1>4, <1>10, <2>2, <2>4, AppendProperties
  <2>6. L \in 1 .. L /\ \A i \in 1 .. L - 1 : i \in 1 .. L
    BY <1>4
  <2> QED
    BY <1>1, <1>3, <1>4, <1>8, <1>10, <1>12, <2>2, <2>5, <2>6
<1> QED
  BY <1>11, <1>12

\* The calls after a return.
LEMMA CallsOfReturn ==
  ASSUME calls \in Seq(Frames), Return, NEW L, L = Len(calls)
  PROVE  /\ L \in Nat \ {0} /\ calls[L].todo = "return"
         /\ calls' \in Seq(Frames) /\ Len(calls') = L - 1
         /\ \A i \in 1 .. L - 1 : calls'[i] = calls[i]
<1>1. calls # <<>> /\ calls[L].todo = "return" /\ calls' = Front(calls)
  BY DEF Return, innermost
<1>2. L \in Nat \ {0}
  BY <1>1, EmptySeq
<1>3. /\ calls' \in Seq(Frames) /\ Len(calls') = L - 1
      /\ \A i \in 1 .. L - 1 : calls'[i] = calls[i]
  <2>1. calls' = SubSeq(calls, 1, L - 1)
    BY <1>1 DEF Front
  <2> QED
    BY <1>2, <2>1, SubSeqProperties
<1> QED
  BY <1>1, <1>2, <1>3

\* The first call is for the root; nothing is done yet.
LEMMA WalkStarts ==
  ASSUME NEW N \in SUBSET Nodes, Linked(N), UNCHANGED <<root, child>>, calls' = Call(root)
  PROVE  Walked(N, {})' /\ Trail' = {root} \ {NULL} /\ calls' \in Seq(Frames)
<1>1. root \in N \cup {NULL}
  BY DEF Linked
<1>2. CASE root = NULL
  <2>1. calls' = <<>> /\ Len(calls') = 0 /\ calls' \in Seq(Frames)
    BY <1>2 DEF Call
  <2>2. Trail' = {}
    BY <2>1 DEF Trail
  <2>3. Chained'
    BY <2>1 DEF Chained
  <2> QED
    BY <1>2, <2>1, <2>2, <2>3 DEF Walked
<1>3. CASE root # NULL
  <2>0. PICK f : f = [node |-> root, todo |-> "left"]
    OBVIOUS
  <2>1. f \in Frames /\ f.node = root /\ f.todo = "left"
    BY <1>1, <1>3, <2>0 DEF Frames
  <2>2. calls' = <<f>>
    BY <1>3, <2>0 DEF Call
  <2>3. calls' \in Seq(Frames) /\ Len(calls') = 1 /\ calls'[1] = f /\ calls' # <<>>
    BY <2>1, <2>2
  <2>4. \A i \in 1 .. Len(calls') : calls'[i].node = root /\ calls'[i].todo = "left" /\ i = 1
    BY <2>1, <2>3
  <2>5. Trail' = {root}
    BY <2>3, <2>4 DEF Trail
  <2>6. Chained'
    <3>1. calls'[1].node = root'
      BY <2>1, <2>3
    <3>2. \A i \in 1 .. Len(calls') - 1 : FALSE
      BY <2>3
    <3> QED
      BY <2>4, <3>1, <3>2 DEF Chained
  <2>7. \A i \in 1 .. Len(calls') : calls'[i].todo # "right" /\ calls'[i].todo # "return"
    BY <2>4
  <2> QED
    BY <1>1, <1>3, <2>3, <2>5, <2>6, <2>7 DEF Walked
<1> QED
  BY <1>2, <1>3

\* The node a call goes on to has not been met yet.
LEMMA NextIsNew ==
  ASSUME calls \in Seq(Frames), NEW N \in SUBSET Nodes, Linked(N), NEW D, Walked(N, D),
         NEW L, L = Len(calls), L \in Nat \ {0}, NEW side \in Sides, calls[L].todo = side,
         NEW c, c = child[calls[L].node][side], c # NULL
  PROVE  c \in N \ (D \cup Trail) /\ c # root
<1>1. PICK m : m = calls[L].node
  OBVIOUS
<1>2. L \in 1 .. Len(calls)
  OBVIOUS
<1>3. m \in N
  BY <1>1, <1>2 DEF Walked, Trail
<1>4. c \in N \ {root} /\ parent[c] = m
  BY <1>1, <1>3 DEF Linked
<1>5. c \notin D
  BY <1>2 DEF Walked, Sides
<1>6. ASSUME NEW i \in 1 .. Len(calls), calls[i].node = c PROVE FALSE
  <2>1. i # 1
    <3>1. calls[1].node = root
      <4>1. calls # <<>>
        BY <1>2
      <4> QED
        BY <4>1 DEF Walked, Chained
    <3> QED
      BY <1>4, <1>6, <3>1
  <2>2. PICK j : j = i - 1
    OBVIOUS
  <2>3. j \in 1 .. Len(calls) - 1 /\ j \in 1 .. Len(calls) /\ j + 1 = i /\ j # L
    BY <2>1, <2>2
  <2>4. PICK x \in Sides : calls[i].node = child[calls[j].node][x]
    BY <2>3, TwoSides DEF Walked, Chained
  <2>5. calls[j].node \in N
    BY <2>3 DEF Walked, Trail
  <2>6. parent[c] = calls[j].node
    BY <1>6, <2>4, <2>5 DEF Linked
  <2> QED
    BY <1>1, <1>2, <1>4, <2>3, <2>6 DEF Walked, Chained
<1>7. c \notin Trail
  BY <1>6 DEF Trail
<1> QED
  BY <1>4, <1>5, <1>7

\* A call goes on to a child that was not met before, or to none.
LEMMA WalkRecurses ==
  ASSUME TreeTypeOK, NEW N \in SUBSET Nodes, Linked(N), NEW D, Walked(N, D),
         NEW side \in Sides, Recurse(side), UNCHANGED <<root, child>>
  PROVE  /\ Walked(N, D)' /\ calls' \in Seq(Frames)
         /\ innermost.node \in Trail
         /\ child[innermost.node][side] \in (N \ (D \cup Trail)) \cup {NULL}
         /\ Trail' = Trail \cup ({child[innermost.node][side]} \ {NULL})
<1>0. PICK L, m, c : L = Len(calls) /\ m = calls[L].node /\ c = child[innermost.node][side]
  OBVIOUS
<1>1. innermost.node = m /\ calls \in Seq(Frames)
  BY <1>0 DEF innermost, TreeTypeOK
<1>2. L \in Nat \ {0} /\ L \in 1 .. Len(calls) /\ calls # <<>>
  BY <1>0, <1>1, EmptySeq DEF Recurse
<1>3. m \in Trail /\ m \in N
  BY <1>0, <1>2 DEF Trail, Walked
<1>4. c \in Nodes \cup {NULL} /\ c = child[m][side]
  BY <1>0, <1>1, <1>3 DEF TreeTypeOK
<1>5. /\ calls[L].todo = side
      /\ calls' \in Seq(Frames)
      /\ \A i \in 1 .. L - 1 : calls'[i] = calls[i]
      /\ calls'[L].node = m
      /\ calls'[L].todo = IF side = "left" THEN "right" ELSE "return"
      /\ c = NULL => Len(calls') = L
      /\ c # NULL => Len(calls') = L + 1 /\ calls'[L + 1].node = c /\ calls'[L + 1].todo = "left"
  BY <1>0, <1>1, <1>4, CallsOfRecurse
<1>6. PICK K \in Nat : K = Len(calls')
  BY <1>5
<1>7. /\ K = IF c = NULL THEN L ELSE L + 1
      /\ \A i \in 1 .. L : i \in 1 .. K /\ calls'[i].node = calls[i].node
      /\ \A i \in 1 .. K : i \in 1 .. L \/ (i = L + 1 /\ c # NULL)
  <2>1. K = IF c = NULL THEN L ELSE L + 1
    BY <1>5, <1>6
  <2>2. \A i \in 1 .. L : i = L \/ i \in 1 .. L - 1
    BY <1>2
  <2>3. \A i \in 1 .. L : i \in 1 .. K
    BY <1>2, <2>1
  <2>4. \A i \in 1 .. L : calls'[i].node = calls[i].node
    BY <1>0, <1>5, <2>2
  <2>5. ASSUME NEW i \in 1 .. K PROVE i \in 1 .. L \/ (i = L + 1 /\ c # NULL)
    <3>1. CASE c = NULL
      <4>1. K = L
        BY <2>1, <3>1
      <4> QED
        BY <4>1
    <3>2. CASE c # NULL
      <4>1. K = L + 1
        BY <2>1, <3>2
      <4>2. i \in 1 .. L \/ i = L + 1
        BY <1>2, <4>1
      <4> QED
        BY <3>2, <4>2
    <3> QED
      BY <3>1, <3>2
  <2> QED
    BY <2>1, <2>3, <2>4, <2>5
<1>8. c # NULL => c \in N \ (D \cup Trail) /\ c # root
  BY <1>0, <1>1, <1>2, <1>4, <1>5, NextIsNew
<1>9. Trail' = Trail \cup ({c} \ {NULL})
  <2>1. Trail' = {calls'[i].node : i \in 1 .. K} /\ Trail = {calls[i].node : i \in 1 .. L}
    BY <1>0, <1>6 DEF Trail
  <2>2. c # NULL => L + 1 \in 1 .. K /\ calls'[L + 1].node = c
    BY <1>2, <1>5, <1>7
  <2>3. Trail' \subseteq Trail \cup ({c} \ {NULL})
    BY <1>5, <1>7, <2>1
  <2>4. Trail \subseteq Trail'
    BY <1>7, <2>1
  <2>5. c # NULL => c \in Trail'
    BY <2>1, <2>2
  <2> QED
    BY <2>3, <2>4, <2>5
<1>10. /\ Trail \subseteq N \ D /\ D \subseteq N
       /\ calls[1].node = root
       /\ \A i, j \in 1 .. L : calls[i].node = calls[j].node => i = j
       /\ \A i \in 1 .. L - 1 :
            /\ calls[i].todo # "left"
            /\ calls[i + 1].node =
                 child[calls[i].node][IF calls[i].todo = "right" THEN "left" ELSE "right"]
  BY <1>0, <1>2 DEF Walked, Chained
<1>11. calls' # <<>>
  <2>1. Len(calls') # 0
    BY <1>2, <1>6, <1>7
  <2> QED
    BY <2>1, EmptySeq
<1>12. Chained'
  <2>1. calls'[1].node = root'
    BY <1>2, <1>7, <1>10
  <2>2. ASSUME NEW i \in 1 .. K, NEW j \in 1 .. K, calls'[i].node = calls'[j].node PROVE i = j
    <3>1. \A x \in 1 .. L : calls'[x].node \in Trail
      BY <1>0, <1>7 DEF Trail
    <3> QED
      BY <1>5, <1>7, <1>8, <1>10, <2>2, <3>1
  <2>3. ASSUME NEW i \in 1 .. K - 1
        PROVE  /\ calls'[i].todo # "left"
               /\ calls'[i + 1].node =
                    child'[calls'[i].node][IF calls'[i].todo = "right" THEN "left" ELSE "right"]
    <3>1. CASE i \in 1 .. L - 1
      <4>1. i \in 1 .. L /\ i + 1 \in 1 .. L
        BY <1>2, <3>1
      <4>2. calls'[i] = calls[i] /\ calls'[i + 1].node = calls[i + 1].node
        BY <1>5, <1>7, <3>1, <4>1
      <4> QED
        BY <1>10, <3>1, <4>2
    <3>2. CASE i = L
      <4>1. c # NULL /\ calls'[i + 1].node = c /\ calls'[i].node = m
        BY <1>5, <1>7, <3>2
      <4>2. CASE side = "left"
        BY <1>4, <1>5, <3>2, <4>1, <4>2
      <4>3. CASE side = "right"
        <5>1. calls'[i].todo = "return"
          BY <1>5, <3>2, <4>3
        <5>2. "return" # "left" /\ "return" # "right"
          OBVIOUS
        <5> QED
          BY <1>4, <4>1, <4>3, <5>1, <5>2
      <4> QED
        BY <4>2, <4>3 DEF Sides
    <3> QED
      BY <1>2, <1>7, <3>1, <3>2
  <2> QED
    BY <1>6, <2>1, <2>2, <2>3 DEF Chained
<1>13. \A n \in N \ (D \cup Trail') : \A s \in Sides : child'[n][s] \notin D
  BY <1>9 DEF Walked
<1>14. \A n \in D : \A s \in Sides : child'[n][s] \in D \cup {NULL}
  BY DEF Walked
<1>15. \A i \in 1 .. L :
         /\ calls[i].todo = "left" =>
              child[calls[i].node]["left"] \notin D /\ child[calls[i].node]["right"] \notin D
         /\ calls[i].todo = "right" =>
              Over(i, "left", D) /\ child[calls[i].node]["right"] \notin D
         /\ calls[i].todo = "return" => Over(i, "left", D) /\ Over(i, "right", D)
  BY <1>0 DEF Walked
<1>16. \A i \in 1 .. L - 1 : \A s \in Sides : Over(i, s, D) => Over(i, s, D)'
  <2>1. ASSUME NEW i \in 1 .. L - 1, NEW s \in Sides, Over(i, s, D) PROVE Over(i, s, D)'
    <3>1. i + 1 \in 1 .. L /\ i \in 1 .. L /\ i < Len(calls')
      BY <1>2, <1>6, <1>7
    <3>2. calls'[i].node = calls[i].node /\ calls'[i + 1].node = calls[i + 1].node
      BY <1>7, <3>1
    <3> QED
      BY <2>1, <3>1, <3>2 DEF Over
  <2> QED
    BY <2>1
<1>17. Over(L, side, D)'
  <2>1. CASE c = NULL
    BY <1>4, <1>5, <2>1 DEF Over
  <2>2. CASE c # NULL
    <3>1. L < Len(calls') /\ calls'[L + 1].node = c
      BY <1>2, <1>5, <1>6, <1>7, <2>2
    <3> QED
      BY <1>4, <1>5, <3>1 DEF Over
  <2> QED
    BY <2>1, <2>2
<1>18. ASSUME NEW i \in 1 .. K
       PROVE  /\ calls'[i].todo = "left" =>
                   child[calls'[i].node]["left"] \notin D /\ child[calls'[i].node]["right"] \notin D
              /\ calls'[i].todo = "right" =>
                   Over(i, "left", D)' /\ child[calls'[i].node]["right"] \notin D
              /\ calls'[i].todo = "return" => Over(i, "left", D)' /\ Over(i, "right", D)'
  <2>1. CASE i \in 1 .. L - 1
    <3>1. calls'[i] = calls[i] /\ i \in 1 .. L
      BY <1>2, <1>5, <2>1
    <3> QED
      BY <1>15, <1>16, <2>1, <3>1, TwoSides
  <2>2. CASE i = L /\ side = "left"
    <3>1. /\ calls'[i].todo = "right" /\ calls'[i].node = calls[i].node
          /\ "right" # "left" /\ "right" # "return"
      BY <1>0, <1>5, <2>2
    <3>2. calls[i].todo = "left" /\ i \in 1 .. L
      BY <1>2, <1>5, <2>2
    <3>3. child[calls[i].node]["right"] \notin D
      BY <1>15, <3>2
    <3> QED
      BY <1>17, <2>2, <3>1, <3>3
  <2>3. CASE i = L /\ side = "right"
    <3>1. /\ calls'[i].todo = "return" /\ calls'[i].node = calls[i].node
          /\ "return" # "left" /\ "right" # "return"
      BY <1>0, <1>5, <2>3
    <3>2. Over(i, "left", D)
      BY <1>2, <1>5, <1>15, <2>3
    <3>3. Over(i, "left", D)'
      BY <1>0, <1>5, <2>3, <3>2 DEF Over
    <3> QED
      BY <1>17, <2>3, <3>1, <3>3
  <2>4. CASE i = L + 1 /\ c # NULL
    <3>1. calls'[i].node = c /\ calls'[i].todo = "left" /\ "left" # "right" /\ "left" # "return"
      BY <1>5, <2>4
    <3>2. \A s \in Sides : child[c][s] \notin D
      BY <1>8, <2>4 DEF Walked
    <3> QED
      BY <3>1, <3>2, TwoSides
  <2>5. i \in 1 .. L - 1 \/ i = L \/ (i = L + 1 /\ c # NULL)
    BY <1>2, <1>7
  <2> QED
    BY <2>1, <2>2, <2>3, <2>4, <2>5 DEF Sides
<1>19. Trail' \subseteq N \ D
  BY <1>8, <1>9, <1>10
<1>20. Walked(N, D)'
  BY <1>6, <1>10, <1>11, <1>12, <1>13, <1>14, <1>18, <1>19 DEF Walked
<1> QED
  BY <1>0, <1>1, <1>3, <1>5, <1>8, <1>9, <1>20

\* The node of a call that returns is done: so are its children.
LEMMA WalkReturns ==
  ASSUME TreeTypeOK, NEW N \in SUBSET Nodes, Linked(N), NEW D, Walked(N, D),
         Return, UNCHANGED <<root, child>>, NEW m, m = innermost.node
  PROVE  /\ Walked(N, D \cup {m})' /\ calls' \in Seq(Frames)
         /\ m \in Trail /\ m \in N \ D
         /\ Trail' = Trail \ {m}
<1>0. PICK L : L = Len(calls)
  OBVIOUS
<1>1. calls \in Seq(Frames) /\ m = calls[L].node
  BY <1>0 DEF innermost, TreeTypeOK
<1>2. /\ L \in Nat \ {0} /\ calls[L].todo = "return" /\ calls' \in Seq(Frames)
      /\ Len(calls') = L - 1
      /\ \A i \in 1 .. L - 1 : calls'[i] = calls[i]
  BY <1>0, <1>1, CallsOfReturn
<1>3. /\ L \in 1 .. L /\ \A i \in 1 .. L - 1 : i \in 1 .. L /\ i + 1 \in 1 .. L /\ i # L
      /\ \A i \in 1 .. L : i \in 1 .. L - 1 \/ i = L
  BY <1>2
<1>4. /\ Trail \subseteq N \ D /\ D \subseteq N
      /\ calls[1].node = root
      /\ \A i, j \in 1 .. L : calls[i].node = calls[j].node => i = j
      /\ \A i \in 1 .. L - 1 :
           /\ calls[i].todo # "left"
           /\ calls[i + 1].node =
                child[calls[i].node][IF calls[i].todo = "right" THEN "left" ELSE "right"]
  <2>1. calls # <<>>
    BY <1>0, <1>2, EmptySeq
  <2> QED
    BY <1>0, <2>1 DEF Walked, Chained
<1>5. Trail = {calls[i].node : i \in 1 .. L} /\ Trail' = {calls[i].node : i \in 1 .. L - 1}
  BY <1>0, <1>2 DEF Trail
<1>6. m \in Trail /\ m \in N \ D
  BY <1>1, <1>3, <1>4, <1>5
<1>7. Trail' = Trail \ {m}
  BY <1>1, <1>3, <1>4, <1>5
<1>8. Chained'
  <2>1. calls' # <<>> => calls'[1].node = root'
    <3>1. SUFFICES ASSUME calls' # <<>> PROVE calls'[1].node = root'
      OBVIOUS
    <3>2. 1 \in 1 .. L - 1
      BY <1>2, <3>1, EmptySeq
    <3> QED
      BY <1>2, <1>4, <3>2
  <2>2. \A i, j \in 1 .. L - 1 : calls'[i].node = calls'[j].node => i = j
    BY <1>2, <1>3, <1>4
  <2>3. ASSUME NEW i \in 1 .. L - 1 - 1
        PROVE  /\ calls'[i].todo # "left"
               /\ calls'[i + 1].node =
                    child'[calls'[i].node][IF calls'[i].todo = "right" THEN "left" ELSE "right"]
    <3>1. i \in 1 .. L - 1 /\ i + 1 \in 1 .. L - 1
      BY <1>2
    <3>2. calls'[i] = calls[i] /\ calls'[i + 1] = calls[i + 1]
      BY <1>2, <3>1
    <3> QED
      BY <1>4, <3>1, <3>2
  <2> QED
    BY <1>2, <2>1, <2>2, <2>3 DEF Chained
<1>9. /\ \A i \in 1 .. L :
           /\ calls[i].todo = "left" =>
                child[calls[i].node]["left"] \notin D /\ child[calls[i].node]["right"] \notin D
           /\ calls[i].todo = "right" =>
                Over(i, "left", D) /\ child[calls[i].node]["right"] \notin D
           /\ calls[i].todo = "return" => Over(i, "left", D) /\ Over(i, "right", D)
      /\ \A n \in N \ (D \cup Trail) : \A s \in Sides : child[n][s] \notin D
      /\ \A n \in D : \A s \in Sides : child[n][s] \in D \cup {NULL}
  BY <1>0 DEF Walked
\* Only the frame below holds a node whose child the deleted one is, on the side it came from.
<1>10. ASSUME NEW n \in N, NEW s \in Sides, child[n][s] = m
       PROVE  \E i \in 1 .. L - 1 : /\ n = calls[i].node /\ i + 1 = L
                                    /\ s = IF calls[i].todo = "right" THEN "left" ELSE "right"
  <2>0. m # NULL
    BY <1>6, RedBlackTreeAssumption
  <2>1. m \in N \ {root} /\ parent[m] = n
    BY <1>10, <2>0 DEF Linked
  <2>2. L # 1
    BY <1>1, <1>4, <2>1
  <2>3. PICK i : i = L - 1
    OBVIOUS
  <2>4. i \in 1 .. L - 1 /\ i + 1 = L
    BY <1>2, <2>2, <2>3
  <2>5. PICK x : x = IF calls[i].todo = "right" THEN "left" ELSE "right"
    OBVIOUS
  <2>6. x \in Sides /\ m = child[calls[i].node][x] /\ calls[i].node \in N
    <3>1. calls[i + 1].node = child[calls[i].node][x]
      BY <1>4, <2>4, <2>5
    <3>2. calls[i].node \in Trail
      BY <1>3, <1>5, <2>4
    <3> QED
      BY <1>1, <1>4, <2>4, <2>5, <3>1, <3>2, TwoSides
  <2>7. parent[m] = calls[i].node
    BY <2>0, <2>6 DEF Linked
  <2>8. s = x
    <3>1. PICK y \in Sides : child[n][y] = m /\ child[n][Other(y)] # m
      BY <2>1 DEF Linked
    <3> QED
      BY <1>10, <2>1, <2>6, <2>7, <3>1, TwoSides
  <2> QED
    BY <2>1, <2>4, <2>5, <2>7, <2>8
<1>11. ASSUME NEW n \in N \ ((D \cup {m}) \cup Trail'), NEW s \in Sides
       PROVE  child'[n][s] \notin D \cup {m}
  <2>1. n \in N \ (D \cup Trail)
    BY <1>7, <1>11
  <2>2. child[n][s] # m
    BY <1>3, <1>5, <1>10, <2>1
  <2> QED
    BY <1>9, <2>1, <2>2
<1>12. ASSUME NEW n \in D \cup {m}, NEW s \in Sides
       PROVE  child'[n][s] \in (D \cup {m}) \cup {NULL}
  <2>1. CASE n \in D
    BY <1>9, <2>1
  <2>2. CASE n = m
    <3>1. Over(L, s, D)
      BY <1>2, <1>3, <1>9 DEF Sides
    <3>2. ~(L < Len(calls))
      BY <1>0, <1>2
    <3> QED
      BY <1>1, <2>2, <3>1, <3>2 DEF Over
  <2> QED
    BY <2>1, <2>2
<1>13. ASSUME NEW i \in 1 .. L - 1, NEW s \in Sides, Over(i, s, D)
       PROVE  Over(i, s, D \cup {m})'
  <2>1. calls'[i] = calls[i] /\ i \in 1 .. L
    BY <1>2, <1>3
  <2>2. CASE child[calls[i].node][s] \in D \cup {NULL}
    BY <2>1, <2>2 DEF Over
  <2>3. CASE i < Len(calls) /\ child[calls[i].node][s] = calls[i + 1].node
    <3>1. CASE i + 1 = L
      BY <1>1, <2>1, <2>3, <3>1 DEF Over
    <3>2. CASE i + 1 # L
      <4>1. i + 1 \in 1 .. L - 1 /\ i < Len(calls')
        BY <1>2, <3>2
      <4>2. calls'[i + 1] = calls[i + 1]
        BY <1>2, <4>1
      <4> QED
        BY <2>1, <2>3, <4>1, <4>2 DEF Over
    <3> QED
      BY <3>1, <3>2
  <2> QED
    BY <1>13, <2>2, <2>3 DEF Over
<1>14. ASSUME NEW i \in 1 .. L - 1
       PROVE  /\ calls'[i].todo = "left" => /\ child[calls'[i].node]["left"] \notin D \cup {m}
                                            /\ child[calls'[i].node]["right"] \notin D \cup {m}
              /\ calls'[i].todo = "right" => /\ Over(i, "left", D \cup {m})'
                                             /\ child[calls'[i].node]["right"] \notin D \cup {m}
              /\ calls'[i].todo = "return" => /\ Over(i, "left", D \cup {m})'
                                              /\ Over(i, "right", D \cup {m})'
  <2>1. calls'[i] = calls[i] /\ i \in 1 .. L /\ calls[i].todo # "left"
    BY <1>2, <1>3, <1>4
  <2>2. calls[i].node \in N
    BY <1>4, <1>5, <2>1
  <2>3. ASSUME calls[i].todo = "right" PROVE child[calls[i].node]["right"] \notin D \cup {m}
    <3>1. child[calls[i].node]["right"] \notin D
      BY <1>9, <2>1, <2>3
    <3>2. SUFFICES ASSUME child[calls[i].node]["right"] = m PROVE FALSE
      BY <3>1
    <3>3. PICK j \in 1 .. L - 1 :
            /\ calls[i].node = calls[j].node /\ j + 1 = L
            /\ "right" = IF calls[j].todo = "right" THEN "left" ELSE "right"
      BY <1>10, <2>2, <3>2, TwoSides
    <3>4. i = j
      BY <1>3, <1>4, <2>1, <3>3
    <3> QED
      BY <2>3, <3>3, <3>4
  <2> QED
    BY <1>9, <1>13, <2>1, <2>3, TwoSides
<1>15. calls' = <<>> => root' \in (D \cup {m}) \cup {NULL}
  <2>1. SUFFICES ASSUME calls' = <<>> PROVE root = m
    OBVIOUS
  <2>2. Len(calls') = 0
    BY <2>1
  <2>3. L = 1
    BY <1>2, <2>2
  <2> QED
    BY <1>1, <1>4, <2>3
<1>16. Trail' \subseteq N \ (D \cup {m}) /\ D \cup {m} \subseteq N
  BY <1>4, <1>6, <1>7
<1>17. Walked(N, D \cup {m})'
  BY <1>2, <1>8, <1>11, <1>12, <1>14, <1>15, <1>16 DEF Walked
<1> QED
  BY <1>2, <1>6, <1>7, <1>17

\* A node has a key exactly while it is allocated, and stands in the tree by the hash of it.
KeyInv ==
  /\ {n \in Nodes : key[n] # NULL} = blocks
  /\ \A n \in blocks : value[n] = p_dictionary_evaluate_string(key[n])

\* The visits count what a walk has met; a free has deleted what its walk is done with.
WalkInv ==
  /\ pc = "foreach" =>
       \E D \in SUBSET blocks :
         /\ Walked(blocks, D)
         /\ met = [n \in Nodes |-> IF n \in D \cup Trail THEN 1 ELSE 0]
  /\ pc # "foreach" => met = All(0)
  /\ pc = "free" =>
       \E N \in SUBSET Nodes :
         Linked(N) /\ Rooted(N) /\ blocks \subseteq N /\ Walked(N, N \ blocks)

\* The inductive invariant.
Inv == TypeOK /\ PlaceInv /\ KeyInv /\ (pc # "free" => TreeInv(Hanging)) /\ WalkInv

\* The invariant holds at the start.
LEMMA InitHolds ==
  ASSUME Init PROVE Inv
<1>1. TypeOK
  BY DEF Init, EmptyTree, TypeOK, TreeTypeOK, All, Bare
<1>2. PlaceInv
  BY DEF Init, EmptyTree, PlaceInv
<1>3. KeyInv
  BY DEF Init, KeyInv, All
<1>4. TreeInv(Hanging)
  <2>1. Hanging = {} /\ root = NULL /\ pc = "idle"
    BY DEF Init, EmptyTree, Hanging
  <2> QED
    BY <2>1 DEF TreeInv, Linked, Rooted, Ordered, Balanced, Colored, Red
<1>5. WalkInv
  BY DEF Init, WalkInv
<1> QED
  BY <1>1, <1>2, <1>3, <1>4, <1>5 DEF Inv

\* A step that leaves the tree alone.
LEMMA TreeIsLeftAlone ==
  ASSUME Inv, pc \in {"idle", "get", "foreach"}, pc' \in {"idle", "get", "foreach", "free"},
         UNCHANGED <<root, child, parent, color, value, node, height, span, key, blocks>>
  PROVE  /\ KeyInv' /\ TreeInv(Hanging)' /\ Hanging = blocks /\ Hanging' = blocks
         /\ TreeInv(blocks)
<1>1. Hanging = blocks /\ Hanging' = blocks /\ blocks \in SUBSET Nodes
  BY DEF Hanging, Inv, TypeOK
<1>2. TreeInv(blocks)
  BY <1>1 DEF Inv
<1>3. TreeInv(blocks)'
  <2> PICK N : N = blocks
    OBVIOUS
  <2> QED
    BY <1>1, <1>2, ShapeStays
<1>4. KeyInv'
  BY DEF Inv, KeyInv
<1> QED
  BY <1>1, <1>2, <1>3, <1>4

\* f_dictionary_get_or_create and f_dictionary_get_if_exists start at the root.
LEMMA GetHolds ==
  ASSUME Inv, NEW k \in Keys, Get(k) PROVE Inv'
<1>1. /\ pc = "idle" /\ asked' = k /\ result' = NULL /\ visiting' = root /\ pc' = "get"
      /\ UNCHANGED <<root, child, parent, color, value, node, calls, height, span,
                     key, blocks, met>>
  BY DEF Get
<1>2. KeyInv' /\ TreeInv(Hanging)' /\ TreeInv(blocks)
  BY <1>1, TreeIsLeftAlone
<1>3. TypeOK'
  BY <1>1 DEF Inv, TypeOK, TreeTypeOK
<1>4. PlaceInv'
  BY <1>1, <1>2 DEF Inv, PlaceInv, TreeInv, Linked
<1>5. WalkInv'
  BY <1>1 DEF Inv, WalkInv
<1> QED
  BY <1>2, <1>3, <1>4, <1>5 DEF Inv

\* A lookup ends with the node.
LEMMA FoundHolds ==
  ASSUME Inv, Found PROVE Inv'
<1>1. /\ pc = "get" /\ visiting # NULL /\ result' = visiting /\ visiting' = NULL /\ asked' = NULL
      /\ pc' = "idle"
      /\ UNCHANGED <<root, child, parent, color, value, node, calls, height, span,
                     key, blocks, met>>
  BY DEF Found
<1>2. KeyInv' /\ TreeInv(Hanging)'
  BY <1>1, TreeIsLeftAlone
<1>3. TypeOK'
  BY <1>1 DEF Inv, TypeOK, TreeTypeOK
<1>4. PlaceInv'
  BY <1>1 DEF Inv, PlaceInv
<1>5. WalkInv'
  BY <1>1 DEF Inv, WalkInv
<1> QED
  BY <1>2, <1>3, <1>4, <1>5 DEF Inv

\* A lookup goes down within the tree.
LEMMA LooksOnHolds ==
  ASSUME Inv, LooksOn PROVE Inv'
<1>1. /\ pc = "get" /\ visiting # NULL /\ pc' = pc
      /\ visiting' = child[visiting][IF evaluation < value[visiting] THEN "left" ELSE "right"]
      /\ UNCHANGED <<root, child, parent, color, value, node, calls, height, span>>
      /\ UNCHANGED <<key, blocks, asked, result, met>>
  BY DEF LooksOn, dictionaryVars
<1>2. KeyInv' /\ TreeInv(Hanging)' /\ TreeInv(blocks)
  BY <1>1, TreeIsLeftAlone
<1>3. visiting \in blocks /\ asked \in Keys /\ blocks \subseteq Nodes
  BY <1>1 DEF Inv, PlaceInv, TypeOK
<1>4. visiting' \in blocks \cup {NULL}
  <2>1. PICK s \in Sides : visiting' = child[visiting][s]
    BY <1>1, TwoSides
  <2> QED
    BY <1>2, <1>3, <2>1 DEF TreeInv, Linked
<1>5. TypeOK'
  BY <1>1, <1>3, <1>4 DEF Inv, TypeOK, TreeTypeOK
<1>6. PlaceInv'
  BY <1>1, <1>3, <1>4 DEF Inv, PlaceInv
<1>7. WalkInv'
  BY <1>1 DEF Inv, WalkInv
<1> QED
  BY <1>2, <1>5, <1>6, <1>7 DEF Inv

\* A call that returns nothing changes nothing.
LEMMA MissingHolds ==
  ASSUME Inv, Missing PROVE Inv'
<1>1. /\ pc = "get" /\ asked' = NULL /\ pc' = "idle"
      /\ UNCHANGED <<root, child, parent, color, value, node, visiting, calls, height, span>>
      /\ UNCHANGED <<key, blocks, result, met>>
  BY DEF Missing, treeVars
<1>2. KeyInv' /\ TreeInv(Hanging)'
  BY <1>1, TreeIsLeftAlone
<1>3. TypeOK'
  BY <1>1 DEF Inv, TypeOK, TreeTypeOK
<1>4. PlaceInv'
  BY <1>1 DEF Inv, PlaceInv
<1>5. WalkInv'
  BY <1>1 DEF Inv, WalkInv
<1> QED
  BY <1>2, <1>3, <1>4, <1>5 DEF Inv

\* A new node has its key and its hash before it hangs in the tree.
LEMMA CreateHolds ==
  ASSUME Inv, NEW n \in Nodes \ blocks, Create(n) PROVE Inv'
<1>1. /\ pc = "get" /\ visiting = NULL /\ pc' = "insert"
      /\ blocks' = blocks \cup {n} /\ key' = [key EXCEPT ![n] = asked] /\ result' = n
      /\ asked' = NULL /\ node' = n /\ visiting' = root /\ met' = met
      /\ UNCHANGED <<root, calls, height, span>>
  BY DEF Create, f_red_black_tree_insert
<1>2. PICK e : e = p_dictionary_evaluate_string(asked)
  OBVIOUS
<1>3. /\ value' = [value EXCEPT ![n] = e] /\ color' = [color EXCEPT ![n] = "red"]
      /\ child' = [child EXCEPT ![n] = Bare] /\ parent' = [parent EXCEPT ![n] = NULL]
  BY <1>2 DEF Create, f_red_black_tree_insert, evaluation
<1>4. asked \in Keys /\ asked # NULL /\ e \in Values /\ e \in Int /\ calls = <<>>
  BY <1>1, <1>2, DictionaryAssumption, RedBlackTreeAssumption DEF Inv, PlaceInv
<1>5. /\ value \in [Nodes -> Int] /\ color \in [Nodes -> {"red", "black"}]
      /\ child \in [Nodes -> [Sides -> Nodes \cup {NULL}]]
      /\ parent \in [Nodes -> Nodes \cup {NULL}] /\ key \in [Nodes -> Keys \cup {NULL}]
      /\ blocks \subseteq Nodes /\ n \in Nodes /\ n \notin blocks
  BY DEF Inv, TypeOK, TreeTypeOK
<1>6. TypeOK'
  <2>1. Bare \in [Sides -> Nodes \cup {NULL}]
    BY DEF Bare
  <2>2. child' \in [Nodes -> [Sides -> Nodes \cup {NULL}]]
    BY <1>3, <1>5, <2>1
  <2>3. parent' \in [Nodes -> Nodes \cup {NULL}]
    BY <1>3, <1>5
  <2>4. color' \in [Nodes -> {"red", "black"}]
    BY <1>3, <1>5
  <2>5. value' \in [Nodes -> Int]
    BY <1>3, <1>4, <1>5
  <2>6. key' \in [Nodes -> Keys \cup {NULL}]
    BY <1>1, <1>4, <1>5
  <2>7. blocks' \subseteq Nodes /\ node' \in Nodes \cup {NULL} /\ result' \in Nodes \cup {NULL}
    BY <1>1, <1>5
  <2> QED
    BY <1>1, <2>2, <2>3, <2>4, <2>5, <2>6, <2>7 DEF Inv, TypeOK, TreeTypeOK
<1>7. TreeInv(blocks)
  BY <1>1 DEF Inv, Hanging
<1>8. /\ value'[n] = e /\ color'[n] = "red" /\ child'[n] = Bare /\ parent'[n] = NULL
      /\ key'[n] = asked
      /\ \A m \in Nodes \ {n} : /\ value'[m] = value[m] /\ color'[m] = color[m]
                                /\ child'[m] = child[m] /\ parent'[m] = parent[m]
                                /\ key'[m] = key[m]
  BY <1>1, <1>3, <1>5
<1>9. TreeInv(Hanging)'
  <2>1. Hanging' = blocks
    BY <1>1, <1>5 DEF Hanging
  <2>2. PICK N : N = blocks
    OBVIOUS
  <2>3. \A m \in N : /\ child'[m] = child[m] /\ parent'[m] = parent[m] /\ color'[m] = color[m]
                     /\ value'[m] = value[m] /\ height'[m] = height[m] /\ span'[m] = span[m]
    BY <1>1, <1>5, <1>8, <2>2
  <2>4. TreeInv(N)'
    BY <1>1, <1>5, <1>7, <2>2, <2>3, ShapeStays
  <2> QED
    BY <2>1, <2>2, <2>4
<1>10. PlaceInv'
  <2>1. CASE root = NULL
    <3>1. blocks' = {n}
      BY <1>1, <1>7, <2>1, <1>5, RedBlackTreeAssumption DEF TreeInv, Linked
    <3> QED
      BY <1>1, <1>4, <1>8, <2>1, <3>1 DEF PlaceInv
  <2>2. CASE root # NULL
    <3>1. root \in blocks /\ span[root] = Values
      BY <1>7, <2>2 DEF TreeInv, Linked, Ordered
    <3>2. visiting' \in blocks' \ {node'}
      BY <1>1, <1>5, <3>1
    <3> QED
      BY <1>1, <1>4, <1>8, <2>2, <3>1, <3>2 DEF PlaceInv
  <2> QED
    BY <2>1, <2>2
<1>11. KeyInv'
  <2>1. {m \in Nodes : key'[m] # NULL} = blocks'
    BY <1>1, <1>4, <1>5, <1>8 DEF Inv, KeyInv
  <2>2. ASSUME NEW m \in blocks' PROVE value'[m] = p_dictionary_evaluate_string(key'[m])
    <3>1. CASE m = n
      BY <1>2, <1>8, <3>1
    <3>2. CASE m # n
      <4>1. m \in blocks /\ m \in Nodes \ {n}
        BY <1>1, <1>5, <3>2
      <4> QED
        BY <1>8, <4>1 DEF Inv, KeyInv
    <3> QED
      BY <3>1, <3>2
  <2> QED
    BY <2>1, <2>2 DEF KeyInv
<1>12. WalkInv'
  BY <1>1 DEF Inv, WalkInv
<1> QED
  BY <1>6, <1>9, <1>10, <1>11, <1>12 DEF Inv

\* The steps of an insertion and of the repair after it.
LEMMA InsertHolds ==
  ASSUME Inv, p_red_black_tree_insert_recursive \/ p_red_black_tree_fix, UNCHANGED dictionaryVars
  PROVE  Inv'
<1>1. TypeOK /\ PlaceInv /\ (pc # "free" => TreeInv(Hanging))
  BY DEF Inv
<1>2. /\ pc \in {"insert", "fix", "straight"} /\ pc' \in {"insert", "fix", "straight", "idle"}
      /\ value' = value
  BY DEF p_red_black_tree_insert_recursive, p_red_black_tree_fix, Descend, AttachRoot, Attach,
         Recolor, Bend, Straighten, Settle
<1>3. UNCHANGED <<key, blocks, asked, result, met>>
  BY DEF dictionaryVars
<1>4. KeyInv'
  BY <1>2, <1>3 DEF Inv, KeyInv
<1>5. WalkInv'
  BY <1>2, <1>3 DEF Inv, WalkInv
<1>6. TypeOK' /\ PlaceInv' /\ TreeInv(Hanging)'
  <2>1. CASE Descend
    <3>1. PICK N : N = blocks \ {node}
      OBVIOUS
    <3>2. Hanging = N /\ Hanging' = N
      BY <1>3, <2>1, <3>1 DEF Descend, Hanging
    <3> QED
      BY <1>1, <2>1, <3>1, <3>2, DescendKeepsTree DEF Descend
  <2>2. CASE AttachRoot
    <3>1. PICK N : N = blocks \ {node}
      OBVIOUS
    <3>2. Hanging = N /\ Hanging' = blocks'
      BY <2>2, <3>1 DEF AttachRoot, Hanging
    <3>3. TypeOK' /\ PlaceInv' /\ TreeInv({node})' /\ blocks' = {node} /\ node' = node
      BY <1>1, <2>2, <3>1, <3>2, AttachRootKeepsTree DEF AttachRoot
    <3> QED
      BY <3>2, <3>3
  <2>3. CASE Attach
    <3>1. PICK N, k : N = blocks \ {node} /\ k = node
      OBVIOUS
    <3>2. Hanging = N /\ Hanging' = blocks'
      BY <2>3, <3>1 DEF Attach, Hanging
    <3>3. TypeOK' /\ PlaceInv' /\ TreeInv(N \cup {node})' /\ blocks' = N \cup {node} /\ node' = node
      BY <1>1, <2>3, <3>1, <3>2, AttachKeepsTree DEF Attach
    <3> QED
      BY <3>2, <3>3
  <2>4. CASE p_red_black_tree_fix
    <3>1. PICK N : N = blocks
      OBVIOUS
    <3>2. /\ pc \in {"fix", "straight"} /\ pc # "insert" /\ pc # "free" /\ pc' # "insert"
      BY <2>4 DEF p_red_black_tree_fix, Recolor, Bend, Straighten, Settle
    <3>3. Hanging = N /\ Hanging' = blocks' /\ TreeInv(N)
      BY <1>1, <3>1, <3>2 DEF Hanging
    <3>4. TypeOK' /\ PlaceInv' /\ TreeInv(N)' /\ blocks' = N
      BY <1>1, <2>4, <3>1, <3>3, RecolorKeepsTree, BendKeepsTree, StraightenKeepsTree,
         SettleKeepsTree
      DEF p_red_black_tree_fix
    <3> QED
      BY <3>3, <3>4
  <2> QED
    BY <2>1, <2>2, <2>3, <2>4 DEF p_red_black_tree_insert_recursive
<1> QED
  BY <1>4, <1>5, <1>6 DEF Inv

\* f_dictionary_foreach meets the root first.
LEMMA ForeachStarts ==
  ASSUME Inv, f_dictionary_foreach PROVE Inv'
<1>1. /\ pc = "idle" /\ calls' = Call(root) /\ met' = Visited(root) /\ result' = NULL
      /\ pc' = "foreach"
      /\ UNCHANGED <<root, child, parent, color, value, node, visiting, height, span,
                     key, blocks, asked>>
  BY DEF f_dictionary_foreach
<1>2. KeyInv' /\ TreeInv(Hanging)' /\ TreeInv(blocks)
  BY <1>1, TreeIsLeftAlone
<1>3. PICK N \in SUBSET Nodes : N = blocks
  BY DEF Inv, TypeOK
<1>4. Linked(N) /\ root \in N \cup {NULL}
  BY <1>2, <1>3 DEF TreeInv, Linked
<1>5. Walked(N, {})' /\ Trail' = {root} \ {NULL} /\ calls' \in Seq(Frames)
  BY <1>1, <1>4, WalkStarts
<1>6. met' = [n \in Nodes |-> IF n \in {} \cup Trail' THEN 1 ELSE 0]
  <2>1. met = All(0)
    BY <1>1 DEF Inv, WalkInv
  <2>2. CASE root = NULL
    BY <1>1, <1>5, <2>1, <2>2 DEF Visited, All
  <2>3. CASE root # NULL
    <3>1. met' = [met EXCEPT ![root] = @ + 1] /\ Trail' = {root}
      BY <1>1, <1>5, <2>3 DEF Visited
    <3> QED
      BY <2>1, <3>1 DEF All
  <2> QED
    BY <2>2, <2>3
<1>7. met' \in [Nodes -> Nat]
  BY <1>6
<1>8. TypeOK'
  BY <1>1, <1>5, <1>7 DEF Inv, TypeOK, TreeTypeOK
<1>9. PlaceInv'
  BY <1>1 DEF Inv, PlaceInv
<1>10. WalkInv'
  BY <1>1, <1>3, <1>5, <1>6 DEF WalkInv
<1> QED
  BY <1>2, <1>8, <1>9, <1>10 DEF Inv

\* Every call meets one node that was not met before.
LEMMA ForeachHolds ==
  ASSUME Inv, p_dictionary_foreach_pre_order PROVE Inv'
<1>1. /\ pc = "foreach" /\ pc' = pc
      /\ UNCHANGED <<root, child, parent, color, value, node, visiting, height, span,
                     key, blocks, asked, result>>
  BY DEF p_dictionary_foreach_pre_order
<1>2. KeyInv' /\ TreeInv(Hanging)' /\ TreeInv(blocks)
  BY <1>1, TreeIsLeftAlone
<1>3. PICK N \in SUBSET Nodes : N = blocks
  BY DEF Inv, TypeOK
<1>4. Linked(N)
  BY <1>2, <1>3 DEF TreeInv
<1>5. PICK D \in SUBSET N : /\ Walked(N, D)
                            /\ met = [n \in Nodes |-> IF n \in D \cup Trail THEN 1 ELSE 0]
  BY <1>1, <1>3 DEF Inv, WalkInv
<1>6. TreeTypeOK
  BY DEF Inv, TypeOK
<1>7. \E E \in SUBSET N : /\ Walked(N, E)' /\ calls' \in Seq(Frames)
                          /\ met' = [n \in Nodes |-> IF n \in E \cup Trail' THEN 1 ELSE 0]
  <2>1. ASSUME NEW side \in Sides, Recurse(side), met' = Visited(child[innermost.node][side])
        PROVE  /\ Walked(N, D)' /\ calls' \in Seq(Frames)
               /\ met' = [n \in Nodes |-> IF n \in D \cup Trail' THEN 1 ELSE 0]
    <3>1. PICK c : c = child[innermost.node][side]
      OBVIOUS
    <3>2. /\ Walked(N, D)' /\ calls' \in Seq(Frames)
          /\ c \in (N \ (D \cup Trail)) \cup {NULL}
          /\ Trail' = Trail \cup ({c} \ {NULL})
      BY <1>1, <1>4, <1>5, <1>6, <2>1, <3>1, WalkRecurses
    <3>3. CASE c = NULL
      BY <1>5, <2>1, <3>1, <3>2, <3>3 DEF Visited
    <3>4. CASE c # NULL
      <4>1. met' = [met EXCEPT ![c] = @ + 1] /\ c \in Nodes /\ c \notin D \cup Trail
        BY <2>1, <3>1, <3>2, <3>4 DEF Visited
      <4>2. met' = [n \in Nodes |-> IF n = c THEN met[c] + 1 ELSE met[n]]
        BY <1>5, <4>1
      <4>3. met[c] + 1 = 1
        BY <1>5, <4>1
      <4>4. Trail' = Trail \cup {c}
        BY <3>2, <3>4
      <4>5. ASSUME NEW n \in Nodes
            PROVE  (IF n = c THEN met[c] + 1 ELSE met[n]) = IF n \in D \cup Trail' THEN 1 ELSE 0
        BY <1>5, <4>3, <4>4
      <4> QED
        BY <3>2, <4>2, <4>5
    <3> QED
      BY <3>3, <3>4
  <2>2. ASSUME Return, UNCHANGED met
        PROVE  \E E \in SUBSET N : /\ Walked(N, E)' /\ calls' \in Seq(Frames)
                                   /\ met' = [n \in Nodes |-> IF n \in E \cup Trail' THEN 1 ELSE 0]
    <3>1. PICK m : m = innermost.node
      OBVIOUS
    <3>2. /\ Walked(N, D \cup {m})' /\ calls' \in Seq(Frames)
          /\ m \in Trail /\ m \in N \ D
          /\ Trail' = Trail \ {m}
      BY <1>1, <1>4, <1>5, <1>6, <2>2, <3>1, WalkReturns
    <3>3. (D \cup {m}) \cup Trail' = D \cup Trail /\ D \cup {m} \in SUBSET N
      BY <1>5, <3>2
    <3>4. met' = [n \in Nodes |-> IF n \in (D \cup {m}) \cup Trail' THEN 1 ELSE 0]
      BY <1>5, <2>2, <3>3
    <3> QED
      BY <3>2, <3>3, <3>4
  <2> QED
    BY <2>1, <2>2 DEF p_dictionary_foreach_pre_order
<1>8. met' \in [Nodes -> Nat] /\ calls' \in Seq(Frames)
  BY <1>7
<1>9. TypeOK'
  BY <1>1, <1>8 DEF Inv, TypeOK, TreeTypeOK
<1>10. PlaceInv'
  BY <1>1 DEF Inv, PlaceInv
<1>11. WalkInv'
  BY <1>1, <1>3, <1>7 DEF WalkInv
<1> QED
  BY <1>2, <1>9, <1>10, <1>11 DEF Inv

\* The visits leave the dictionary as it was.
LEMMA ForeachEndHolds ==
  ASSUME Inv, ForeachEnds PROVE Inv'
<1>1. /\ pc = "foreach" /\ calls = <<>> /\ met' = All(0) /\ pc' = "idle"
      /\ UNCHANGED <<root, child, parent, color, value, node, visiting, calls, height, span>>
      /\ UNCHANGED <<key, blocks, asked, result>>
  BY DEF ForeachEnds, treeVars
<1>2. KeyInv' /\ TreeInv(Hanging)'
  BY <1>1, TreeIsLeftAlone
<1>3. TypeOK'
  BY <1>1 DEF Inv, TypeOK, TreeTypeOK, All
<1>4. PlaceInv'
  BY <1>1 DEF Inv, PlaceInv
<1>5. WalkInv'
  BY <1>1 DEF WalkInv
<1> QED
  BY <1>2, <1>3, <1>4, <1>5 DEF Inv

\* f_dictionary_free starts at the root of the whole tree.
LEMMA FreeStarts ==
  ASSUME Inv, f_dictionary_free PROVE Inv'
<1>1. /\ pc = "idle" /\ calls' = Call(root) /\ result' = NULL /\ pc' = "free"
      /\ UNCHANGED <<root, child, parent, color, value, node, visiting, height, span,
                     key, blocks, asked, met>>
  BY DEF f_dictionary_free
<1>2. KeyInv' /\ TreeInv(blocks)
  BY <1>1, TreeIsLeftAlone
<1>3. PICK N \in SUBSET Nodes : N = blocks
  BY DEF Inv, TypeOK
<1>4. Linked(N) /\ Rooted(N)
  BY <1>2, <1>3 DEF TreeInv
<1>5. Walked(N, {})' /\ calls' \in Seq(Frames)
  BY <1>1, <1>4, WalkStarts
<1>6. Linked(N)' /\ Rooted(N)'
  BY <1>1, <1>4 DEF Linked, Rooted
<1>7. TypeOK'
  BY <1>1, <1>5 DEF Inv, TypeOK, TreeTypeOK
<1>8. PlaceInv'
  BY <1>1 DEF Inv, PlaceInv
<1>9. WalkInv'
  <2>1. N \ blocks' = {} /\ blocks' \subseteq N
    BY <1>1, <1>3
  <2>2. Walked(N, N \ blocks)'
    BY <1>5, <2>1
  <2>3. met' = All(0) /\ pc' = "free"
    BY <1>1 DEF Inv, WalkInv
  <2> QED
    BY <1>6, <2>1, <2>2, <2>3 DEF WalkInv
<1> QED
  BY <1>1, <1>2, <1>7, <1>8, <1>9 DEF Inv

\* What is deleted is done, and what a call still reads is not deleted.
LEMMA FreeHolds ==
  ASSUME Inv, p_red_black_tree_free_recursive PROVE Inv'
<1>1. /\ pc = "free" /\ pc' = pc
      /\ UNCHANGED <<root, child, parent, color, value, node, visiting, height, span,
                     asked, result, met>>
  BY DEF p_red_black_tree_free_recursive
<1>2. PICK N \in SUBSET Nodes :
        Linked(N) /\ Rooted(N) /\ blocks \subseteq N /\ Walked(N, N \ blocks)
  BY <1>1 DEF Inv, WalkInv
<1>3. Linked(N)' /\ Rooted(N)'
  BY <1>1, <1>2 DEF Linked, Rooted
<1>4. TreeTypeOK /\ key \in [Nodes -> Keys \cup {NULL}]
  BY DEF Inv, TypeOK
<1>5. /\ Walked(N, N \ blocks)' /\ calls' \in Seq(Frames) /\ blocks' \subseteq N
      /\ KeyInv' /\ key' \in [Nodes -> Keys \cup {NULL}]
  <2>1. ASSUME NEW side \in Sides, Recurse(side), UNCHANGED <<key, blocks>>
        PROVE  /\ Walked(N, N \ blocks)' /\ calls' \in Seq(Frames) /\ blocks' \subseteq N
               /\ KeyInv' /\ key' \in [Nodes -> Keys \cup {NULL}]
    <3>1. PICK D : D = N \ blocks
      OBVIOUS
    <3>2. Walked(N, D)' /\ calls' \in Seq(Frames)
      BY <1>1, <1>2, <1>4, <2>1, <3>1, WalkRecurses
    <3>3. (N \ blocks)' = D
      BY <2>1, <3>1
    <3>4. KeyInv'
      BY <1>1, <2>1 DEF Inv, KeyInv
    <3> QED
      BY <1>2, <1>4, <2>1, <3>2, <3>3, <3>4
  <2>2. ASSUME Return, key' = [key EXCEPT ![innermost.node] = NULL],
               blocks' = blocks \ {innermost.node}
        PROVE  /\ Walked(N, N \ blocks)' /\ calls' \in Seq(Frames) /\ blocks' \subseteq N
               /\ KeyInv' /\ key' \in [Nodes -> Keys \cup {NULL}]
    <3>1. PICK D, m : D = N \ blocks /\ m = innermost.node
      OBVIOUS
    <3>2. Walked(N, D \cup {m})' /\ calls' \in Seq(Frames) /\ m \in N \ D
      BY <1>1, <1>2, <1>4, <2>2, <3>1, WalkReturns
    <3>3. (N \ blocks)' = D \cup {m} /\ blocks' \subseteq N /\ m \in Nodes
      BY <1>2, <2>2, <3>1, <3>2
    <3>4. /\ key'[m] = NULL /\ \A n \in Nodes \ {m} : key'[n] = key[n]
          /\ key' \in [Nodes -> Keys \cup {NULL}]
      BY <1>4, <2>2, <3>1, <3>3
    <3>5. {n \in Nodes : key'[n] # NULL} = blocks'
      BY <2>2, <3>1, <3>4 DEF Inv, KeyInv
    <3>6. \A n \in blocks' : value'[n] = p_dictionary_evaluate_string(key'[n])
      BY <1>1, <2>2, <3>1, <3>4 DEF Inv, KeyInv, TypeOK
    <3>7. KeyInv'
      BY <3>5, <3>6 DEF KeyInv
    <3> QED
      BY <3>2, <3>3, <3>4, <3>7
  <2> QED
    BY <2>1, <2>2 DEF p_red_black_tree_free_recursive
<1>6. TypeOK'
  BY <1>1, <1>5 DEF Inv, TypeOK, TreeTypeOK
<1>7. PlaceInv'
  BY <1>1 DEF Inv, PlaceInv
<1>8. WalkInv'
  <2>1. met' = All(0)
    BY <1>1 DEF Inv, WalkInv
  <2> QED
    BY <1>1, <1>3, <1>5, <2>1 DEF WalkInv
<1> QED
  BY <1>1, <1>5, <1>6, <1>7, <1>8 DEF Inv

\* A free that has no calls left has deleted every node.
LEMMA NothingIsLeft ==
  ASSUME Inv, pc = "free", calls = <<>> PROVE blocks = {}
<1>1. PICK N \in SUBSET Nodes :
        Linked(N) /\ Rooted(N) /\ blocks \subseteq N /\ Walked(N, N \ blocks)
  BY DEF Inv, WalkInv
<1>2. PICK D : D = N \ blocks
  OBVIOUS
<1>3. D = N
  BY <1>1, <1>2, WalkEnds
<1> QED
  BY <1>1, <1>2, <1>3

\* Nothing of the tree is left when it is initialised again.
LEMMA FreeEndHolds ==
  ASSUME Inv, FreeEnds PROVE Inv'
<1>1. /\ pc = "free" /\ calls = <<>> /\ pc' = "idle"
      /\ UNCHANGED <<key, blocks, asked, result, met>>
  BY DEF FreeEnds, dictionaryVars
<1>2. /\ root' = NULL /\ node' = NULL /\ visiting' = NULL /\ calls' = <<>>
      /\ child' = All(Bare) /\ parent' = All(NULL) /\ color' = All("black") /\ value' = All(0)
      /\ height' = All(0) /\ span' = All({})
  BY DEF FreeEnds, BecomesEmpty
<1>3. blocks = {}
  BY <1>1, NothingIsLeft
<1>4. TypeOK'
  <2>1. child' \in [Nodes -> [Sides -> Nodes \cup {NULL}]]
    BY <1>2 DEF All, Bare
  <2> QED
    BY <1>1, <1>2, <2>1 DEF Inv, TypeOK, TreeTypeOK, All
<1>5. PlaceInv'
  BY <1>1, <1>2 DEF PlaceInv
<1>6. KeyInv'
  BY <1>1, <1>3 DEF Inv, KeyInv
<1>7. WalkInv'
  BY <1>1 DEF Inv, WalkInv
<1>8. TreeInv(Hanging)'
  <2>1. Hanging' = {}
    BY <1>1, <1>3 DEF Hanging
  <2>2. TreeInv({})'
    BY <1>1, <1>2 DEF TreeInv, Linked, Rooted, Ordered, Balanced, Colored, Red
  <2> QED
    BY <2>1, <2>2
<1> QED
  BY <1>4, <1>5, <1>6, <1>7, <1>8 DEF Inv

\* The invariant is inductive.
LEMMA NextHolds ==
  ASSUME Inv, [Next]_vars PROVE Inv'
<1>1. ASSUME UNCHANGED vars PROVE Inv'
  <2>1. /\ UNCHANGED <<root, child, parent, color, value, node, visiting, calls, height, span>>
        /\ UNCHANGED <<key, blocks, asked, result, met>> /\ UNCHANGED pc
    BY <1>1 DEF vars, treeVars, dictionaryVars
  <2>2. TypeOK' /\ PlaceInv' /\ KeyInv'
    BY <2>1 DEF Inv, TypeOK, TreeTypeOK, PlaceInv, KeyInv, Violated, uncle, SideOf, Red,
               grand_parent
  <2>3. (pc # "free" => TreeInv(Hanging))'
    BY <2>1 DEF Inv, TreeInv, Hanging, Linked, Rooted, Ordered, Balanced, Colored, Red
  <2>4. Trail' = Trail
    BY <2>1 DEF Trail
  <2>5. \A N, D : Walked(N, D)' = Walked(N, D)
    BY <2>1 DEF Walked, Trail, Chained, Over
  <2>6. \A N : Linked(N)' = Linked(N) /\ Rooted(N)' = Rooted(N)
    BY <2>1 DEF Linked, Rooted
  <2>7. WalkInv'
    BY <2>1, <2>4, <2>5, <2>6 DEF Inv, WalkInv
  <2> QED
    BY <2>2, <2>3, <2>7 DEF Inv
<1> QED
  BY <1>1, GetHolds, FoundHolds, LooksOnHolds, MissingHolds, CreateHolds, InsertHolds,
     ForeachStarts, ForeachHolds, ForeachEndHolds, FreeStarts, FreeHolds, FreeEndHolds
  DEF Next, p_dictionary_get_recursive

\* It holds in every reachable state.
LEMMA InvHolds == Spec => []Inv
<1>1. Init => Inv
  BY InitHolds
<1>2. Inv /\ [Next]_vars => Inv'
  BY NextHolds
<1> QED
  BY <1>1, <1>2, PTL DEF Spec

\* However keys are created, and in the middle of every repair, the tree of dictionary.c holds
\* exactly its nodes, in order, with as many black nodes on every way down, and between two calls
\* no red node has a red child.
THEOREM TreeStaysRedBlack == Spec => []TreeIsRedBlack
<1>1. Inv => TreeIsRedBlack
  BY DEF Inv, TreeInv, TreeIsRedBlack
<1> QED
  BY <1>1, InvHolds, PTL

\* f_dictionary_foreach visits each entry exactly once, f_dictionary_free deletes each exactly
\* once and never reads one that it has deleted.
THEOREM NoBlockLeaks == Spec => []NothingLeaks
<1>1. ASSUME Inv PROVE NothingLeaks
  <2>1. {n \in Nodes : key[n] # NULL} = blocks
    BY <1>1 DEF Inv, KeyInv
  <2>2. ASSUME pc = "foreach"
        PROVE  /\ \A n \in Nodes : met[n] <= 1
               /\ calls = <<>> => {n \in Nodes : met[n] = 1} = blocks
               /\ Trail \subseteq blocks
    <3>1. PICK N \in SUBSET Nodes : N = blocks
      BY <1>1 DEF Inv, TypeOK
    <3>2. PICK D \in SUBSET N : /\ Walked(N, D)
                                /\ met = [n \in Nodes |-> IF n \in D \cup Trail THEN 1 ELSE 0]
      BY <1>1, <2>2, <3>1 DEF Inv, WalkInv
    <3>3. \A n \in Nodes : met[n] = (IF n \in D \cup Trail THEN 1 ELSE 0) /\ met[n] <= 1
      BY <3>2
    <3>4. Linked(N) /\ Rooted(N)
      BY <1>1, <2>2, <3>1 DEF Inv, Hanging, TreeInv
    <3>5. calls = <<>> => {n \in Nodes : met[n] = 1} = blocks
      BY <3>1, <3>2, <3>3, <3>4, WalkEnds
    <3> QED
      BY <3>1, <3>2, <3>3, <3>5 DEF Walked
  <2>3. ASSUME pc = "free"
        PROVE  (calls = <<>> => blocks = {}) /\ Trail \subseteq blocks
    <3>1. PICK N \in SUBSET Nodes :
            Linked(N) /\ Rooted(N) /\ blocks \subseteq N /\ Walked(N, N \ blocks)
      BY <1>1, <2>3 DEF Inv, WalkInv
    <3>2. PICK D : D = N \ blocks
      OBVIOUS
    <3>3. calls = <<>> => D = N
      BY <3>1, <3>2, WalkEnds
    <3> QED
      BY <3>1, <3>2, <3>3 DEF Walked
  <2>4. pc \notin {"foreach", "free"} => Len(calls) = 0
    BY <1>1 DEF Inv, PlaceInv
  <2>5. \A i \in 1 .. Len(calls) : calls[i].node \in blocks
    <3>1. \A i \in 1 .. Len(calls) : calls[i].node \in Trail
      BY DEF Trail
    <3> QED
      BY <2>2, <2>3, <2>4, <3>1
  <2> QED
    BY <2>1, <2>2, <2>3, <2>5 DEF NothingLeaks
<1> QED
  BY <1>1, InvHolds, PTL

\* With a node, its children.
ChildClosed(S) == \A n \in S : \A s \in Sides : child[n][s] \in S \cup {NULL}

\* The nodes at v and below it.
Below(N, v) == {n \in N : \A S \in SUBSET N : v \in S /\ ChildClosed(S) => n \in S}

\* The node that holds the key asked for is at or below the place the search has reached.
LookupInv ==
  pc = "get" => \A n \in blocks : key[n] = asked => visiting # NULL /\ n \in Below(blocks, visiting)

\* No two keys share a hash.
NoCollisions ==
  \A j, k \in Keys : p_dictionary_evaluate_string(j) = p_dictionary_evaluate_string(k) => j = k

\* Every node is below the root.
LEMMA AllIsBelowRoot ==
  ASSUME NEW N \in SUBSET Nodes, Linked(N), Rooted(N), NEW n \in N
  PROVE  root # NULL /\ n \in Below(N, root)
<1>1. root \in N
  BY DEF Linked
<1>2. ASSUME NEW S \in SUBSET N, root \in S, ChildClosed(S) PROVE n \in S
  BY <1>2, ClosedIsAll DEF ChildClosed
<1> QED
  BY <1>1, <1>2, RedBlackTreeAssumption DEF Below

\* What is below a node is that node, or below one of its children.
LEMMA BelowIsBelowAChild ==
  ASSUME NEW N \in SUBSET Nodes, Linked(N), NEW v \in N, NEW n \in Below(N, v), n # v
  PROVE  \E s \in Sides : child[v][s] # NULL /\ n \in Below(N, child[v][s])
<1>1. SUFFICES ASSUME \A s \in Sides : child[v][s] # NULL => n \notin Below(N, child[v][s])
               PROVE  FALSE
  OBVIOUS
<1>2. \A s \in Sides : \E S \in SUBSET N :
        child[v][s] \in S \cup {NULL} /\ ChildClosed(S) /\ n \notin S
  <2>1. ASSUME NEW s \in Sides
        PROVE  \E S \in SUBSET N : child[v][s] \in S \cup {NULL} /\ ChildClosed(S) /\ n \notin S
    <3>1. CASE child[v][s] = NULL
      <4>1. ChildClosed({})
        BY DEF ChildClosed
      <4> QED
        BY <3>1, <4>1
    <3>2. CASE child[v][s] # NULL
      <4>1. n \in N
        BY DEF Below
      <4> QED
        BY <1>1, <3>2, <4>1 DEF Below
    <3> QED
      BY <3>1, <3>2
  <2> QED
    BY <2>1
<1>3. PICK A \in SUBSET N : child[v]["left"] \in A \cup {NULL} /\ ChildClosed(A) /\ n \notin A
  BY <1>2, TwoSides
<1>4. PICK B \in SUBSET N : child[v]["right"] \in B \cup {NULL} /\ ChildClosed(B) /\ n \notin B
  BY <1>2, TwoSides
<1>5. PICK S \in SUBSET N : S = {v} \cup A \cup B
  OBVIOUS
<1>6. ChildClosed(S)
  <2>1. ASSUME NEW m \in S, NEW s \in Sides PROVE child[m][s] \in S \cup {NULL}
    <3>1. CASE m = v
      BY <1>3, <1>4, <1>5, <3>1 DEF Sides
    <3>2. CASE m \in A
      BY <1>3, <1>5, <3>2 DEF ChildClosed
    <3>3. CASE m \in B
      BY <1>4, <1>5, <3>3 DEF ChildClosed
    <3> QED
      BY <1>5, <3>1, <3>2, <3>3
  <2> QED
    BY <2>1 DEF ChildClosed
<1>7. n \in S
  BY <1>5, <1>6 DEF Below
<1> QED
  BY <1>3, <1>4, <1>5, <1>7

\* What is below a node has a value that may stand there.
LEMMA BelowIsInSpan ==
  ASSUME NEW N \in SUBSET Nodes, Linked(N), Ordered(N), NEW v \in N, NEW n \in Below(N, v)
  PROVE  value[n] \in span[v]
<1>1. PICK S \in SUBSET N : S = {m \in N : span[m] \subseteq span[v]}
  OBVIOUS
<1>2. ChildClosed(S)
  <2>1. ASSUME NEW m \in S, NEW s \in Sides, child[m][s] # NULL PROVE child[m][s] \in S
    <3>1. m \in N /\ child[m][s] \in N
      BY <1>1, <2>1 DEF Linked
    <3>2. span[child[m][s]] = Part(span[m], value[m], s)
      BY <2>1, <3>1 DEF Ordered
    <3>3. span[child[m][s]] \subseteq span[m]
      BY <3>2 DEF Part
    <3> QED
      BY <1>1, <3>1, <3>3
  <2> QED
    BY <2>1 DEF ChildClosed
<1>3. n \in S
  BY <1>1, <1>2 DEF Below
<1> QED
  BY <1>1, <1>3 DEF Ordered

\* The search goes to the side that holds the key.
LEMMA SearchIsRight ==
  ASSUME Inv, NoCollisions, pc = "get", visiting # NULL, ~Matches(visiting),
         NEW n \in blocks, key[n] = asked, n \in Below(blocks, visiting),
         NEW x, x = IF evaluation < value[visiting] THEN "left" ELSE "right"
  PROVE  child[visiting][x] # NULL /\ n \in Below(blocks, child[visiting][x])
<1>0. PICK N, v, e : N = blocks /\ v = visiting /\ e = evaluation
  OBVIOUS
<1>1. /\ N \in SUBSET Nodes /\ v \in N /\ asked \in Keys /\ n \in N /\ n \in Below(N, v)
      /\ value \in [Nodes -> Int] /\ Hanging = N
  BY <1>0 DEF Inv, TypeOK, TreeTypeOK, PlaceInv, Hanging
<1>2. Linked(N) /\ Ordered(N)
  BY <1>1 DEF Inv, TreeInv
<1>3. value[n] = e /\ value[v] = p_dictionary_evaluate_string(key[v]) /\ key[v] \in Keys
  BY <1>0, <1>1 DEF Inv, KeyInv, evaluation, TypeOK
<1>4. value[v] # e
  <2>1. SUFFICES ASSUME value[v] = e PROVE FALSE
    OBVIOUS
  <2>2. key[v] = asked
    BY <1>0, <1>1, <1>3, <2>1 DEF NoCollisions, evaluation
  <2> QED
    BY <1>0, <2>1, <2>2 DEF Matches
<1>5. PICK s \in Sides : child[v][s] # NULL /\ n \in Below(N, child[v][s])
  BY <1>1, <1>2, <1>3, <1>4, BelowIsBelowAChild
<1>6. value[n] \in Part(span[v], value[v], s)
  <2>1. child[v][s] \in N /\ span[child[v][s]] = Part(span[v], value[v], s)
    BY <1>1, <1>2, <1>5 DEF Linked, Ordered
  <2> QED
    BY <1>1, <1>2, <1>5, <2>1, BelowIsInSpan
<1>7. IF s = "left" THEN e <= value[v] ELSE e >= value[v]
  BY <1>3, <1>6 DEF Part
<1>8. e \in Int /\ value[v] \in Int
  BY <1>1, <1>3
<1>9. s = x
  <2>1. CASE s = "left"
    <3>1. e < value[v]
      BY <1>4, <1>7, <1>8, <2>1
    <3> QED
      BY <1>0, <2>1, <3>1
  <2>2. CASE s = "right"
    <3>1. ~(e < value[v])
      BY <1>7, <1>8, <2>2, TwoSides
    <3> QED
      BY <1>0, <2>2, <3>1
  <2> QED
    BY <2>1, <2>2 DEF Sides
<1> QED
  BY <1>0, <1>5, <1>9

\* The node that holds the key asked for stays below the place the search has reached, and a key
\* that the search has missed is nowhere.
LEMMA LookupHolds ==
  ASSUME Inv, LookupInv, KeysAreUnique, NoCollisions, [Next]_vars
  PROVE  LookupInv' /\ KeysAreUnique'
<1>1. CASE \E k \in Keys : Get(k)
  <2>1. /\ UNCHANGED <<root, child, key, blocks>> /\ visiting' = root /\ pc = "idle"
    BY <1>1 DEF Get
  <2>2. KeysAreUnique'
    BY <2>1 DEF KeysAreUnique
  <2>3. PICK N \in SUBSET Nodes : N = blocks
    BY DEF Inv, TypeOK
  <2>4. Linked(N) /\ Rooted(N)
    BY <2>1, <2>3 DEF Inv, Hanging, TreeInv
  <2>5. \A n \in N : root # NULL /\ n \in Below(N, root)
    BY <2>4, AllIsBelowRoot
  <2>6. \A v : Below(N, v)' = Below(N, v)
    BY <2>1 DEF Below, ChildClosed
  <2>7. LookupInv'
    BY <2>1, <2>3, <2>5, <2>6 DEF LookupInv
  <2> QED
    BY <2>2, <2>7
<1>2. CASE LooksOn
  <2>1. /\ UNCHANGED <<child, key, blocks, asked>> /\ pc = "get" /\ visiting # NULL
        /\ ~Matches(visiting)
        /\ visiting' = child[visiting][IF evaluation < value[visiting] THEN "left" ELSE "right"]
    BY <1>2 DEF LooksOn, dictionaryVars
  <2>2. KeysAreUnique'
    BY <2>1 DEF KeysAreUnique
  <2>3. ASSUME NEW n \in blocks, key[n] = asked
        PROVE  visiting' # NULL /\ n \in Below(blocks, visiting')
    <3>1. n \in Below(blocks, visiting)
      BY <2>1, <2>3 DEF LookupInv
    <3> QED
      BY <2>1, <2>3, <3>1, SearchIsRight
  <2>4. \A N, v : Below(N, v)' = Below(N, v)
    BY <2>1 DEF Below, ChildClosed
  <2>5. LookupInv'
    BY <2>1, <2>3, <2>4 DEF LookupInv
  <2> QED
    BY <2>2, <2>5
<1>3. CASE \E n \in Nodes \ blocks : Create(n)
  <2>1. PICK n \in Nodes \ blocks : Create(n)
    BY <1>3
  <2>2. /\ pc = "get" /\ visiting = NULL /\ blocks' = blocks \cup {n}
        /\ key' = [key EXCEPT ![n] = asked] /\ pc' = "insert"
    BY <2>1 DEF Create, f_red_black_tree_insert
  <2>3. \A m \in blocks : key[m] # asked
    BY <2>2 DEF LookupInv
  <2>4. /\ key \in [Nodes -> Keys \cup {NULL}] /\ blocks \subseteq Nodes
    BY DEF Inv, TypeOK
  <2>5. key'[n] = asked /\ \A m \in blocks : key'[m] = key[m] /\ m # n
    BY <2>2, <2>4
  <2>6. KeysAreUnique'
    BY <2>2, <2>3, <2>5 DEF KeysAreUnique
  <2>7. LookupInv'
    BY <2>2 DEF LookupInv
  <2> QED
    BY <2>6, <2>7
<1>4. CASE p_red_black_tree_free_recursive
  <2>1. pc' # "get" /\ blocks' \subseteq blocks /\ \A m \in blocks' : key'[m] = key[m]
    <3>1. CASE (\E side \in Sides : Recurse(side)) /\ UNCHANGED <<key, blocks>>
      BY <1>4, <3>1 DEF p_red_black_tree_free_recursive
    <3>2. CASE key' = [key EXCEPT ![innermost.node] = NULL] /\ blocks' = blocks \ {innermost.node}
      BY <1>4, <3>2 DEF p_red_black_tree_free_recursive, Inv, TypeOK
    <3> QED
      BY <1>4, <3>1, <3>2 DEF p_red_black_tree_free_recursive
  <2> QED
    BY <2>1 DEF KeysAreUnique, LookupInv
<1>5. CASE UNCHANGED vars
  <2>1. UNCHANGED <<child, key, blocks, asked, visiting, pc>>
    BY <1>5 DEF vars, treeVars, dictionaryVars
  <2>2. \A N, v : Below(N, v)' = Below(N, v)
    BY <2>1 DEF Below, ChildClosed
  <2> QED
    BY <2>1, <2>2 DEF LookupInv, KeysAreUnique
<1>6. CASE \/ Found \/ Missing \/ f_dictionary_foreach \/ p_dictionary_foreach_pre_order
           \/ ForeachEnds \/ f_dictionary_free \/ FreeEnds
           \/ p_red_black_tree_insert_recursive /\ UNCHANGED dictionaryVars
           \/ p_red_black_tree_fix /\ UNCHANGED dictionaryVars
  <2>1. UNCHANGED <<key, blocks>>
    BY <1>6 DEF Found, Missing, f_dictionary_foreach, p_dictionary_foreach_pre_order, ForeachEnds,
                f_dictionary_free, FreeEnds, dictionaryVars
  <2>2. pc' # "get"
    BY <1>6 DEF Found, Missing, f_dictionary_foreach, p_dictionary_foreach_pre_order, ForeachEnds,
                f_dictionary_free, FreeEnds, p_red_black_tree_insert_recursive, Descend, AttachRoot,
                Attach, p_red_black_tree_fix, Recolor, Bend, Straighten, Settle
  <2> QED
    BY <2>1, <2>2 DEF LookupInv, KeysAreUnique
<1> QED
  BY <1>1, <1>2, <1>3, <1>4, <1>5, <1>6 DEF Next, p_dictionary_get_recursive

\* Both hold in every reachable state.
LEMMA LookupInvHolds == ASSUME NoCollisions PROVE Spec => [](Inv /\ LookupInv /\ KeysAreUnique)
<1>1. Init => Inv /\ LookupInv /\ KeysAreUnique
  BY InitHolds DEF Init, LookupInv, KeysAreUnique
<1>2. (Inv /\ LookupInv /\ KeysAreUnique) /\ [Next]_vars => (Inv /\ LookupInv /\ KeysAreUnique)'
  BY NextHolds, LookupHolds
<1> QED
  BY <1>1, <1>2, PTL DEF Spec

\* The node of a key, in a state and in the next one.
LEMMA EntryOfKey ==
  ASSUME KeysAreUnique, pc # "free", NEW k
  PROVE  /\ \A n \in blocks : key[n] = k => Entry(k) = n
         /\ (\A n \in blocks : key[n] # k) => Entry(k) = NULL
<1>1. ASSUME NEW n \in blocks, key[n] = k PROVE Entry(k) = n
  <2>1. Entry(k) = CHOOSE m \in blocks : key[m] = k
    BY <1>1 DEF Entry
  <2>2. Entry(k) \in blocks /\ key[Entry(k)] = k
    BY <1>1, <2>1
  <2> QED
    BY <1>1, <2>2 DEF KeysAreUnique
<1>2. ASSUME \A n \in blocks : key[n] # k PROVE Entry(k) = NULL
  BY <1>2 DEF Entry
<1> QED
  BY <1>1, <1>2

\* As EntryOfKey, of the next state.
LEMMA EntryOfKeyNext ==
  ASSUME KeysAreUnique', pc' # "free", NEW k
  PROVE  /\ \A n \in blocks' : key'[n] = k => Entry(k)' = n
         /\ (\A n \in blocks' : key'[n] # k) => Entry(k)' = NULL
<1>1. ASSUME NEW n \in blocks', key'[n] = k PROVE Entry(k)' = n
  <2>1. Entry(k)' = CHOOSE m \in blocks' : key'[m] = k
    BY <1>1 DEF Entry
  <2>2. Entry(k)' \in blocks' /\ key'[Entry(k)'] = k
    BY <1>1, <2>1
  <2> QED
    BY <1>1, <2>2 DEF KeysAreUnique
<1>2. ASSUME \A n \in blocks' : key'[n] # k PROVE Entry(k)' = NULL
  BY <1>2 DEF Entry
<1> QED
  BY <1>1, <1>2

\* The map does not change when nodes and keys do not.
LEMMA EntryStays ==
  ASSUME KeysAreUnique, KeysAreUnique', pc # "free", pc' # "free", UNCHANGED <<key, blocks>>
  PROVE  \A k : Entry(k)' = Entry(k)
<1>1. SUFFICES ASSUME NEW k PROVE Entry(k)' = Entry(k)
  OBVIOUS
<1>2. CASE \E n \in blocks : key[n] = k
  <2>1. PICK n \in blocks : key[n] = k
    BY <1>2
  <2>2. Entry(k) = n
    BY <2>1, EntryOfKey
  <2>3. Entry(k)' = n
    BY <2>1, EntryOfKeyNext
  <2> QED
    BY <2>2, <2>3
<1>3. CASE \A n \in blocks : key[n] # k
  <2>1. Entry(k) = NULL
    BY <1>3, EntryOfKey
  <2>2. Entry(k)' = NULL
    BY <1>3, EntryOfKeyNext
  <2> QED
    BY <2>1, <2>2
<1> QED
  BY <1>2, <1>3

\* While the nodes are being freed, and when none are left, the map is empty.
LEMMA EntryAfterFree ==
  ASSUME KeysAreUnique', pc' = "free" \/ blocks' = {}
  PROVE  \A k : Entry(k)' = NULL
BY DEF Entry

\* Every step is one of the map, or changes nothing of it.
LEMMA StepsFollow ==
  ASSUME Inv, LookupInv, KeysAreUnique, KeysAreUnique', [Next]_vars
  PROVE  [Map!Next]_<<[k \in Keys |-> Entry(k)], result>>
<1>0. PICK E, F : E = [k \in Keys |-> Entry(k)] /\ F = [k \in Keys |-> Entry(k)']
  OBVIOUS
<1>1. SUFFICES (F = E /\ result' = result) \/ Map!Next
  BY <1>0
<1>2. ASSUME pc # "free", pc' # "free", UNCHANGED <<key, blocks>> PROVE F = E
  BY <1>0, <1>2, EntryStays
<1>3. CASE f_dictionary_foreach \/ \E k \in Keys : Get(k)
  <2>1. pc # "free" /\ pc' # "free" /\ UNCHANGED <<key, blocks>> /\ result' = NULL
    BY <1>3 DEF f_dictionary_foreach, Get
  <2> QED
    BY <1>0, <1>2, <2>1 DEF Map!Next, Map!Call
<1>4. CASE Found
  <2>1. /\ pc = "get" /\ pc' = "idle" /\ UNCHANGED <<key, blocks>> /\ result' = visiting
        /\ visiting # NULL /\ key[visiting] = asked
    BY <1>4 DEF Found, Matches
  <2>2. visiting \in blocks /\ asked \in Keys
    BY <2>1 DEF Inv, PlaceInv
  <2>3. Entry(asked) = visiting
    BY <2>1, <2>2, EntryOfKey
  <2>4. E[asked] = visiting
    BY <1>0, <2>2, <2>3
  <2>5. F = E
    BY <1>2, <2>1
  <2> QED
    BY <1>0, <2>1, <2>2, <2>4, <2>5 DEF Map!Next, Map!Found
<1>5. CASE \E n \in Nodes \ blocks : Create(n)
  <2>1. PICK n \in Nodes \ blocks : Create(n)
    BY <1>5
  <2>0. PICK a : a = asked
    OBVIOUS
  <2>2. /\ pc = "get" /\ visiting = NULL /\ blocks' = blocks \cup {n}
        /\ key' = [key EXCEPT ![n] = a] /\ pc' = "insert" /\ result' = n
    BY <2>0, <2>1 DEF Create, f_red_black_tree_insert
  <2>3. /\ a \in Keys /\ \A m \in blocks : key[m] # a
    BY <2>0, <2>2 DEF LookupInv, Inv, PlaceInv
  <2>4. /\ key \in [Nodes -> Keys \cup {NULL}] /\ blocks \subseteq Nodes
    BY DEF Inv, TypeOK
  <2>5. key'[n] = a /\ \A m \in blocks : key'[m] = key[m] /\ m # n
    BY <2>2, <2>4
  <2>6. Entry(a) = NULL /\ Entry(a)' = n
    BY <2>2, <2>3, <2>5, EntryOfKey, EntryOfKeyNext
  <2>7. ASSUME NEW k \in Keys, k # a PROVE Entry(k)' = Entry(k) /\ Entry(k) # n
    <3>1. CASE \E m \in blocks : key[m] = k
      <4>1. PICK m \in blocks : key[m] = k
        BY <3>1
      <4>2. m \in blocks' /\ key'[m] = k /\ m # n
        BY <2>2, <2>5, <4>1
      <4>3. Entry(k) = m /\ Entry(k)' = m
        BY <2>2, <4>1, <4>2, EntryOfKey, EntryOfKeyNext
      <4> QED
        BY <4>2, <4>3
    <3>2. CASE \A m \in blocks : key[m] # k
      <4>1. \A m \in blocks' : key'[m] # k
        BY <2>2, <2>5, <2>7, <3>2
      <4>2. Entry(k) = NULL /\ Entry(k)' = NULL
        BY <2>2, <3>2, <4>1, EntryOfKey, EntryOfKeyNext
      <4> QED
        BY <4>2, RedBlackTreeAssumption
    <3> QED
      BY <3>1, <3>2
  <2>8. F = [E EXCEPT ![a] = n] /\ E[a] = NULL
    <3>1. \A k \in Keys : F[k] = IF k = a THEN n ELSE E[k]
      BY <1>0, <2>6, <2>7
    <3>2. E = [k \in Keys |-> E[k]] /\ F = [k \in Keys |-> F[k]]
      BY <1>0
    <3> QED
      BY <1>0, <2>3, <2>6, <3>1, <3>2
  <2>9. n \in Nodes \ {E[j] : j \in Keys}
    BY <1>0, <2>6, <2>7, RedBlackTreeAssumption
  <2>10. Map!Create(a)
    BY <1>0, <2>2, <2>8, <2>9 DEF Map!Create
  <2> QED
    BY <2>3, <2>10 DEF Map!Next
<1>6. CASE f_dictionary_free
  <2>1. pc' = "free" /\ result' = NULL
    BY <1>6 DEF f_dictionary_free
  <2>2. F = [k \in Keys |-> NULL]
    BY <1>0, <2>1, EntryAfterFree
  <2> QED
    BY <1>0, <2>1, <2>2 DEF Map!Next, Map!Free
<1>7. CASE p_red_black_tree_free_recursive \/ FreeEnds
  <2>1. pc = "free" /\ result' = result
    BY <1>7 DEF p_red_black_tree_free_recursive, FreeEnds, dictionaryVars
  <2>2. pc' = "free" \/ blocks' = {}
    <3>1. CASE p_red_black_tree_free_recursive
      BY <3>1 DEF p_red_black_tree_free_recursive
    <3>2. CASE FreeEnds
      <4>1. Inv' /\ pc = "free" /\ calls = <<>> /\ blocks' = blocks
        BY <3>2, FreeEndHolds DEF FreeEnds, dictionaryVars
      <4>2. blocks = {}
        BY <4>1, NothingIsLeft
      <4> QED
        BY <4>1, <4>2
    <3> QED
      BY <1>7, <3>1, <3>2
  <2>3. \A k : Entry(k) = NULL
    BY <2>1 DEF Entry
  <2>4. F = E
    BY <1>0, <2>2, <2>3, EntryAfterFree
  <2> QED
    BY <2>1, <2>4
<1>8. CASE \/ LooksOn \/ Missing \/ p_dictionary_foreach_pre_order \/ ForeachEnds
           \/ p_red_black_tree_insert_recursive /\ UNCHANGED dictionaryVars
           \/ p_red_black_tree_fix /\ UNCHANGED dictionaryVars
  <2>1. UNCHANGED <<key, blocks, result>>
    BY <1>8 DEF LooksOn, Missing, p_dictionary_foreach_pre_order, ForeachEnds, dictionaryVars
  <2>2. pc # "free" /\ pc' # "free"
    BY <1>8 DEF LooksOn, Missing, p_dictionary_foreach_pre_order, ForeachEnds,
                p_red_black_tree_insert_recursive, Descend, AttachRoot, Attach,
                p_red_black_tree_fix, Recolor, Bend, Straighten, Settle
  <2> QED
    BY <1>2, <2>1, <2>2
<1>9. CASE UNCHANGED vars
  <2>1. UNCHANGED <<key, blocks, result, pc>>
    BY <1>9 DEF vars, dictionaryVars
  <2>2. CASE pc = "free"
    <3>1. \A k : Entry(k) = NULL
      BY <2>2 DEF Entry
    <3>2. \A k : Entry(k)' = NULL
      BY <2>1, <2>2, EntryAfterFree
    <3> QED
      BY <1>0, <2>1, <3>1, <3>2
  <2>3. CASE pc # "free"
    BY <1>2, <2>1, <2>3
  <2> QED
    BY <2>2, <2>3
<1> QED
  BY <1>3, <1>4, <1>5, <1>6, <1>7, <1>8, <1>9 DEF Next, p_dictionary_get_recursive

\* Unless two keys share a hash there is one entry for a key, however many were created before.
THEOREM KeysStayUnique == ASSUME NoCollisions PROVE Spec => []KeysAreUnique
BY LookupInvHolds, PTL

\* Unless two keys share a hash, the lookups and creations of dictionary.c are those of a map: a
\* rotation loses no entry and hides none.
THEOREM DictionaryIsAMap == ASSUME NoCollisions PROVE Spec => ImplementsMap
<1>1. Init => Map!Init
  BY DEF Init, Map!Init, Entry
<1>2. /\ Inv /\ LookupInv /\ KeysAreUnique
      /\ (Inv /\ LookupInv /\ KeysAreUnique)' /\ [Next]_vars
      => [Map!Next]_<<[k \in Keys |-> Entry(k)], result>>
  BY StepsFollow
<1> QED
  BY <1>1, <1>2, LookupInvHolds, PTL DEF Spec, ImplementsMap, Map!Spec
=============================================================================
