---------------------------- MODULE DictionaryMap ---------------------------
(***************************************************************************)
(* What src/dictionary.c promises: a map from keys to nodes that only      *)
(* grows, until all of it is given back.                                   *)
(***************************************************************************)
CONSTANTS Keys, Nodes, NULL

VARIABLES entries,  \* the node of a key, or NULL
          result    \* what the last call returned, or NULL

Init == entries = [k \in Keys |-> NULL] /\ result = NULL

\* A call begins, or ends with nothing to return.
Call == result' = NULL /\ UNCHANGED entries

Found(k) == result' = entries[k] /\ UNCHANGED entries

\* A key that was absent gets a node that no other key has; no other key notices.
Create(k) ==
  /\ entries[k] = NULL
  /\ \E n \in Nodes \ {entries[j] : j \in Keys} :
       entries' = [entries EXCEPT ![k] = n] /\ result' = n

Free == entries' = [k \in Keys |-> NULL] /\ result' = NULL

Next == Call \/ Free \/ \E k \in Keys : Found(k) \/ Create(k)

Spec == Init /\ [][Next]_<<entries, result>>
=============================================================================
