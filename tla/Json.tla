-------------------------------- MODULE Json --------------------------------
(***************************************************************************)
(* s_json (src/src/json.c): a document is built by setters or exploded     *)
(* from a stream through the tokenizer, changed, printed and freed.  Here  *)
(* a document is edited, printed and freed, and what was printed is read   *)
(* back, in pieces, into another document, which is edited and freed.      *)
(*                                                                         *)
(* A node is a tree of records.  Its strings are either its own or those   *)
(* of the array of tokens (own in a token says which they are, the         *)
(* *_allocated of a node what the code takes them for).                    *)
(***************************************************************************)
EXTENDS Tokens

CONSTANTS
    Paths,      \* formats with their arguments: [by |-> "s" or "d", label, index]
    Values,     \* what setters store: functions from whether there is memory to a token
    Documents,  \* texts that this program did not print, and what they say
    Edits,      \* at most that many calls on a document before it is printed
    Changes,    \* and on one that was read
    TrueWord, FalseWord

VARIABLES
    root,     \* json->root
    phase,    \* "edit", "printed", "freed", "explode", "loaded", "done"
    edits,    \* calls on the document so far
    written,  \* what the text says, path by path
    legible   \* no part of the document is lost in the text

said == <<written, legible>>
documentVars == <<root, phase, edits, said>>
vars == <<tokensVars, documentVars>>

ASSUME JsonAssumption == {Edits, Changes} \subseteq Nat

NoNode == [key |-> NotANumber, key_allocated |-> FALSE, type |-> "none", value |-> Double(0),
           value_allocated |-> FALSE, children |-> <<>>]

Node(key, type) == [NoNode EXCEPT !.key = key, !.type = type]

-----------------------------------------------------------------------------
(* p_json_explode_add_value.  Behind the last token the array holds zeros. *)

At(i) == IF i <= Len(tokens) THEN tokens[i] ELSE Double(0)
Is(t, chars) == t.sig = "symbol" /\ t.text[1] \in chars

\* The first of some tokens, or the end of the array.
FirstOf(hits) ==
    IF hits = {} THEN capacity + 1 ELSE CHOOSE j \in hits : \A k \in hits : j <= k

Opens(t) == IsWord(t) \/ IsValue(t) \/ Is(t, {"{", "["})

\* From the token at i, the next value with its key (none in an array) and the
\* index behind it; there is no memory for the node of the token at missing.
RECURSIVE AddValue(_, _, _), AddChildren(_, _, _)

AddValue(i, ignore_key, missing) ==
    LET k == FirstOf({j \in i..capacity : IsWord(At(j))})
        colon == FirstOf({j \in k + 1..capacity : Is(At(j), {":"})})
        v == FirstOf({j \in (IF ignore_key THEN i ELSE colon + 1)..capacity : Opens(At(j))})
        key == IF ignore_key THEN NotANumber ELSE At(k)
        closing == IF Is(At(v), {"{"}) THEN "}" ELSE "]"
        type == IF closing = "}" THEN "object" ELSE "array"
    IN IF v > capacity THEN [next |-> v, node |-> NoNode]
       ELSE IF v = missing THEN [next |-> v + 1, node |-> NoNode]
       ELSE IF ~Is(At(v), {"{", "["})
         THEN [next |-> v + 1, node |-> [Node(key, "value") EXCEPT !.value = At(v)]]
       ELSE LET rest == AddChildren(v + 1, closing, missing)
            IN [next |-> IF rest.next > capacity THEN rest.next ELSE rest.next + 1,
                node |-> [Node(key, type) EXCEPT !.children = rest.children]]

AddChildren(i, closing, missing) ==
    IF i > capacity \/ Is(At(i), {closing}) THEN [next |-> i, children |-> <<>>]
    ELSE IF At(i).sig = "new_line" THEN AddChildren(i + 1, closing, missing)
    ELSE LET child == AddValue(i, closing = "]", missing)
             rest == AddChildren(child.next, closing, missing)
         IN [rest EXCEPT !.children = (IF child.node = NoNode THEN <<>> ELSE <<child.node>>) \o @]

RECURSIVE Count(_)
Count(n) == IF n = NoNode THEN 0 ELSE FoldSeq(LAMBDA m, sum : sum + Count(m), 1, n.children)

-----------------------------------------------------------------------------
(* Paths.                                                                  *)

IsEmptyAnyway(n) == n.type \in {"object", "array"}  \* mutant: entries is not looked at

IsEmpty(n) == n.type \in {"object", "array"} /\ n.children = <<>>

\* The first child a step leads to, 0 if none.
Child(n, p) ==
    IF p.by = "d" THEN IF p.index < Len(n.children) THEN p.index + 1 ELSE 0
    ELSE SelectInSeq(n.children, LAMBDA m : IsWord(m.key) /\ m.key.text = p.label)

\* f_json_new_node for a step: without memory for its label the node stays, and
\* has none.
f_json_new_node(p, ok) ==
    [Node(IF p.by = "s" THEN f_tokens_new_token_char(p.label, ok) ELSE NotANumber, "object")
        EXCEPT !.key_allocated = TRUE]

\* p_json_get_node_args: the node at the path (its indexes in at), the tree it
\* leaves (an empty object met with an index becomes an array, create makes what
\* is missing) and the blocks made.  missing is where there is no memory.
RECURSIVE Descend(_, _, _, _)
Descend(n, path, create, missing) ==
    IF n = NoNode THEN [node |-> n, at |-> <<>>, made |-> 0, ok |-> FALSE]
    ELSE IF path = <<>> THEN [node |-> n, at |-> <<>>, made |-> 0, ok |-> TRUE]
    ELSE
    LET p == path[1]
        m == IF p.by = "d" /\ IsEmpty(n) THEN [n EXCEPT !.type = "array"] ELSE n
        i == Child(m, p)
        there == i > 0
        new == f_json_new_node(p, missing # <<"key", Len(path)>>)
        grown == IF there THEN m ELSE [m EXCEPT !.children = Append(@, new)]
        at == IF there THEN i ELSE Len(grown.children)
        below == Descend(grown.children[at], Tail(path), create, missing)
    IN IF \/ m.type # (IF p.by = "s" THEN "object" ELSE "array")
          \/ ~there /\ (~create \/ missing = <<"node", Len(path)>>)
         THEN [node |-> m, at |-> <<>>, made |-> 0, ok |-> FALSE]
         ELSE [node |-> [grown EXCEPT !.children[at] = below.node], at |-> <<at>> \o below.at,
               made |-> below.made
                  + (IF there THEN 0 ELSE IF HasBlock(new.key) THEN 2 ELSE 1),
               ok |-> below.ok]

RECURSIVE Get(_, _)
Get(n, at) == IF at = <<>> THEN n ELSE Get(n.children[at[1]], Tail(at))

RECURSIVE Put(_, _, _)
Put(n, at, m) == IF at = <<>> THEN m ELSE [n EXCEPT !.children[at[1]] = Put(@, Tail(at), m)]

\* p_json_set_token, with what it frees.
SetTokenFrees(n, path, token, missing) ==  \* mutant: value_allocated is not looked at
    LET d == Descend(n, path, TRUE, missing)
        h == Get(d.node, d.at)
    IN IF ~d.ok THEN [node |-> d.node, made |-> d.made, freed |-> 0, result |-> "SHIT_NOT_FOUND"]
       ELSE IF h.type # "value" /\ ~IsEmpty(h)
         THEN [node |-> d.node, made |-> d.made, freed |-> 0, result |-> "SHIT_INVALID_PARAMETERS"]
         ELSE [node |-> Put(d.node, d.at, [h EXCEPT !.type = "value", !.value = token,
                                                    !.value_allocated = TRUE]),
               made |-> d.made,
               freed |-> IF HasBlock(h.value) THEN 1 ELSE 0,
               result |-> "NOICE"]

SetToken(n, path, token, missing) ==
    LET d == Descend(n, path, TRUE, missing)
        h == Get(d.node, d.at)
    IN IF ~d.ok THEN [node |-> d.node, made |-> d.made, freed |-> 0, result |-> "SHIT_NOT_FOUND"]
       ELSE IF h.type # "value" /\ ~IsEmpty(h)
         THEN [node |-> d.node, made |-> d.made, freed |-> 0, result |-> "SHIT_INVALID_PARAMETERS"]
         ELSE [node |-> Put(d.node, d.at, [h EXCEPT !.type = "value", !.value = token,
                                                    !.value_allocated = TRUE]),
               made |-> d.made,
               freed |-> IF h.value_allocated /\ HasBlock(h.value) THEN 1 ELSE 0,
               result |-> "NOICE"]

\* f_json_free_node: the blocks it gives back.
RECURSIVE f_json_free_node(_)
f_json_free_node(n) ==
    IF n = NoNode THEN 0
    ELSE FoldSeq(LAMBDA m, sum : sum + f_json_free_node(m), 1, n.children)
            + (IF n.type = "value" /\ n.value_allocated /\ HasBlock(n.value) THEN 1 ELSE 0)
            + (IF n.key_allocated /\ HasBlock(n.key) THEN 1 ELSE 0)

-----------------------------------------------------------------------------
(* Getters and printing.                                                   *)

f_json_get_value(n) ==
    IF n.type # "value" THEN 0
    ELSE IF n.value.sig = "int" THEN 10 * n.value.num
    ELSE IF IsValue(n.value) THEN n.value.num ELSE 0

NULL == <<"NULL">>

f_json_get_char(n) ==
    IF n.type = "value" /\ IsWord(n.value) /\ n.value.sig # "quoted_null" THEN n.value.text ELSE NULL

f_json_get_bool(n) ==
    n.type = "value" /\ \/ n.value.sig = "bool" /\ n.value.num = 1
                        \/ n.value.sig = "embedded" /\ n.value.text = TrueWord

Magnitude(n) == IF n < 0 THEN -n ELSE n

RECURSIVE Numeral(_)
Numeral(n) ==
    IF n < 0 THEN <<"-">> \o Numeral(-n)
    ELSE IF n < 10 THEN <<ToString(n)>> ELSE Numeral(n \div 10) \o <<ToString(n % 10)>>

\* f_tokens_print_plain: a double with its decimals, one of them here.
f_tokens_print_plain(t) ==
    IF IsWord(t) THEN t.text
    ELSE IF t.sig = "int" THEN Numeral(t.num)
    ELSE IF t.sig = "bool" THEN IF t.num = 1 THEN TrueWord ELSE FalseWord
    ELSE IF t.sig = "nan" THEN <<"nan">>
    ELSE (IF t.num < 0 THEN <<"-">> ELSE <<>>)
            \o Numeral(Magnitude(t.num) \div 10) \o <<".">> \o Numeral(Magnitude(t.num) % 10)

\* p_json_dump_token: a zero is not printed, nothing is escaped.
p_json_dump_token(t) ==
    IF t = Double(0) THEN <<>>
    ELSE IF IsWord(t) THEN <<"\"">> \o f_tokens_print_plain(t) \o <<"\"">>
    ELSE f_tokens_print_plain(t)

\* A comma follows every child but the last, also one that prints nothing.
RECURSIVE f_json_print_plain(_)
f_json_print_plain(n) ==
    LET Children == FlattenSeq([i \in DOMAIN n.children |->
            f_json_print_plain(n.children[i]) \o (IF i < Len(n.children) THEN <<",">> ELSE <<>>)])
    IN (IF IsWord(n.key) THEN p_json_dump_token(n.key) \o <<":">> ELSE <<>>)
       \o (IF n.type = "value" THEN p_json_dump_token(n.value)
           ELSE IF n.type = "array" THEN <<"[">> \o Children \o <<"]">>
           ELSE <<"{">> \o Children \o <<"}">>)

-----------------------------------------------------------------------------
(* What a path is worth to who asks for it; a boolean is its word, which it  *)
(* is read back as.                                                          *)

Plenty == <<"none", 0>>
Absent == [type |-> "none", value |-> 0, chars |-> NULL, truth |-> FALSE]

ReadingOf(n) ==
    [type |-> n.type, value |-> f_json_get_value(n), truth |-> f_json_get_bool(n),
     chars |-> IF n.type = "value" /\ n.value.sig = "bool"
                 THEN f_tokens_print_plain(n.value) ELSE f_json_get_char(n)]

Heard(d) == IF d.ok THEN ReadingOf(Get(d.node, d.at)) ELSE Absent
Reading(n, path) == Heard(Descend(n, path, FALSE, Plenty))

Says(n) == [path \in Paths |-> Reading(n, path)]

\* A double 0 and NaN are not printed as numbers; a double quote in a string,
\* or a backslash at its end, is printed without an escape.
LegibleToken(t) ==
    /\ t \notin {Double(0), NotANumber}
    /\ IsWord(t) => ~Contains(t.text, "\"") /\ (t.text # <<>> => Last(t.text) # "\\")

RECURSIVE Legible(_)
Legible(n) ==
    /\ n.key = NotANumber \/ LegibleToken(n.key)
    /\ n.type = "value" => LegibleToken(n.value)
    /\ \A i \in DOMAIN n.children : Legible(n.children[i])

-----------------------------------------------------------------------------
(* The calls on a document.                                                *)

DocumentInit ==
    /\ pos = 1 /\ limit = 0 /\ start = 0 /\ last = "NUL" /\ jump = TRUE
    /\ tokens = <<>> /\ capacity = 0
    /\ breaks = 0 /\ fraction = 0 /\ negative = FALSE /\ incomplete = FALSE
    /\ result = "" /\ broken = FALSE /\ fragile = FALSE /\ edits = 0

f_json_initialize_empty ==
    /\ phase = "edit" /\ text = <<>> /\ written = Says(NoNode) /\ legible = TRUE
    /\ \/ root = [Node(NotANumber, "object") EXCEPT !.key_allocated = TRUE]
          /\ blocks = 1 /\ fault = "none"
       \/ root = NoNode /\ blocks = 0 /\ fault = "memory"

\* A text of somebody else is ready to be read.
FoundDocument ==
    \E document \in Documents :
        /\ phase = "freed" /\ text = document.text
        /\ written = Says(document.root) /\ legible = TRUE
        /\ root = NoNode /\ blocks = 0 /\ fault = "none"

Init == DocumentInit /\ (f_json_initialize_empty \/ FoundDocument)

Lacks(path) == {"node", "key"} \X (1..Len(path))
MayEdit ==
    (phase = "edit" /\ edits < Edits) \/ (phase = "loaded" /\ edits < Changes)

Editing ==
    /\ MayEdit /\ edits' = edits + 1
    /\ UNCHANGED <<reader, array, accumulators, result, broken, fragile, phase, said>>

\* f_json_set_value, f_json_set_char and f_json_set_bool: the string made for
\* the node is freed when there is none.
f_json_set(path, value) ==
    /\ Editing
    /\ \E missing \in {Plenty, <<"value", 0>>} \cup Lacks(path) :
        LET token == value[missing[1] # "value"]
            done == SetToken(root, path, token, missing)
        IN /\ \/ missing = Plenty /\ UNCHANGED fault
              \/ Fails("memory") /\ \/ token # value[TRUE]
                                    \/ done # SetToken(root, path, token, Plenty)
           /\ root' = done.node
           /\ blocks' = blocks + done.made - done.freed
                         + (IF done.result = "NOICE" /\ HasBlock(token) THEN 1 ELSE 0)

f_json_get_node_or_create(path) ==
    /\ Editing
    /\ \E missing \in {Plenty} \cup Lacks(path) :
        LET found == Descend(root, path, TRUE, missing)
        IN /\ \/ missing = Plenty /\ UNCHANGED fault
              \/ Fails("memory") /\ found # Descend(root, path, TRUE, Plenty)
           /\ root' = found.node /\ blocks' = blocks + found.made

\* Every getter looks for its node in this way.
f_json_get_node(path) ==
    /\ Editing /\ UNCHANGED <<blocks, fault>>
    /\ root' = Descend(root, path, FALSE, Plenty).node

RECURSIVE Removed(_, _)
Removed(n, at) ==
    IF Len(at) = 1 THEN [n EXCEPT !.children = RemoveAt(@, at[1])]
    ELSE [n EXCEPT !.children[at[1]] = Removed(@, Tail(at))]

f_json_delete_node(path) ==
    /\ Editing /\ UNCHANGED fault
    /\ LET found == Descend(root, path, FALSE, Plenty)
       IN IF found.ok
            THEN root' = Removed(found.node, found.at)
                 /\ blocks' = blocks - f_json_free_node(Get(found.node, found.at))
            ELSE root' = found.node /\ UNCHANGED blocks

PrintDocument ==
    /\ phase = "edit" /\ phase' = "printed" /\ root # NoNode
    /\ text' = f_json_print_plain(root)
    /\ written' = Says(root) /\ legible' = Legible(root)
    /\ UNCHANGED <<pos, limit, start, last, jump, array, accumulators, memory, fragile, root, edits>>

f_json_free ==
    /\ ~broken /\ phase \in {"edit", "printed", "loaded", "explode"}
    /\ phase = "edit" => root = NoNode
    /\ phase = "explode" => result \notin {"", "NOICE"}
    /\ blocks' = blocks - f_json_free_node(root) - (IF capacity > 0 THEN Freed ELSE 0)
    /\ phase' = (IF phase = "printed" THEN "freed" ELSE "done")
    /\ root' = NoNode /\ tokens' = <<>> /\ capacity' = 0 /\ edits' = 0
    /\ UNCHANGED <<reader, accumulators, result, fault, broken, fragile, said>>

-----------------------------------------------------------------------------
(* f_json_explode_stream: the tokens, then the tree.                       *)

StartExplode ==
    /\ phase = "freed" /\ phase' = "explode"
    /\ \/ /\ result' = "NOICE" /\ capacity' = Bucket /\ blocks' = blocks + 1 /\ UNCHANGED fault
       \/ /\ result' = "SHIT_NO_MEMORY" /\ Fails("memory") /\ UNCHANGED <<capacity, blocks>>
    /\ UNCHANGED <<reader, tokens, accumulators, broken, fragile, root, edits, said>>

Explode == phase = "explode" /\ f_tokens_explode_stream /\ UNCHANGED documentVars

EndExplode ==
    /\ phase = "explode" /\ Drained /\ limit = Len(text) /\ phase' = "loaded"
    /\ \E missing \in 0..Len(tokens) :
        LET made == AddValue(1, TRUE, missing).node
        IN /\ \/ missing = 0 /\ UNCHANGED fault
              \/ missing > 0 /\ Fails("memory") /\ made # AddValue(1, TRUE, 0).node
           /\ root' = made /\ blocks' = blocks + Count(made)
    /\ UNCHANGED <<reader, array, accumulators, result, broken, fragile, edits, said>>

Next ==
    \/ \E path \in Paths :
        \/ \E value \in Values : f_json_set(path, value)
        \/ f_json_get_node_or_create(path) \/ f_json_get_node(path) \/ f_json_delete_node(path)
    \/ PrintDocument \/ f_json_free
    \/ StartExplode \/ Explode \/ EndExplode

Spec == Init /\ [][Next]_vars

-----------------------------------------------------------------------------
(* Properties.                                                             *)

\* What setters built and was printed says the same to the getters once it is
\* read back, however the reads cut it (json.c:390-435 against tokens.c:77-251
\* and json.c:269-341).  Not promised: a document with a double 0 or NaN in it,
\* with a double quote in a string or a key, or with a backslash at the end of
\* one (json.c:390-398); one cut at the end of a number, which
\* is then not scaled or negated; digits that printing drops, as numbers are
\* finite and have one decimal here.
DocumentIsReadBack ==
    phase = "loaded" /\ edits = 0 /\ fault = "none" /\ ~fragile /\ legible => Says(root) = written

\* Every block has one owner: the array and its strings, or the tree, whose
\* *_allocated bits say which of its strings are its own (json.c:214, 370).
RECURSIVE Held(_)
Held(n) ==
    IF n = NoNode THEN 0
    ELSE FoldSeq(LAMBDA m, sum : sum + Held(m), 1, n.children)
            + (IF n.type = "value" /\ n.value.own THEN 1 ELSE 0) + (IF n.key.own THEN 1 ELSE 0)

BlocksAreOwned == blocks = Held(root) + (IF capacity > 0 THEN Freed ELSE 0)

\* A setter (json.c:214-236) that succeeds is heard by the getters at its path,
\* but for an index beyond the end, which appends; it changes no other path but
\* those above and below.  One that fails for the types leaves the tree as it
\* was, and one that fails for memory every value.
SettersAreLocal ==
    MayEdit /\ root # NoNode =>
    LET before == Says(root) IN
    \A path \in Paths, value \in Values : \A missing \in {Plenty} \cup Lacks(path) :
        LET token == value[TRUE]
            done == SetToken(root, path, token, missing)
            at == Descend(root, path, TRUE, missing).at
            new == [NoNode EXCEPT !.type = "value", !.value = token]
        IN IF done.result # "NOICE"
             THEN /\ missing = Plenty => done.node = root
                  /\ \A p \in Paths : [Reading(done.node, p) EXCEPT !.type = ""]
                                        = [before[p] EXCEPT !.type = ""]
             ELSE /\ missing = Plenty =>
                       \/ Reading(done.node, path) = ReadingOf(new)
                       \/ \E i \in DOMAIN path : path[i].by = "d" /\ path[i].index >= at[i]
                  /\ \A p \in Paths :
                       LET found == Descend(done.node, p, FALSE, Plenty)
                       IN \/ found.ok /\ (IsPrefix(found.at, at) \/ IsPrefix(at, found.at))
                          \/ Heard(found) = before[p]

\* The string of the last token is the opening quote, and no more came of it.
QuoteAlone == incomplete /\ \E q \in Quotes : Last(tokens).text = <<q>>

\* Whatever the pieces, the blocks that strings move to and grow in, the bytes
\* of an embedded word and the array of tokens hold all that is written to them
\* (tokens.c:28-64, array.c:37-51), unless the array could not grow, or a piece
\* ends at an opening quote; and so does the buffer, unless read() fails.
WritesStayInside ==
    broken => fault = "array" \/ fault = "read" \/ QuoteAlone

=============================================================================
