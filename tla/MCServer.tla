------------------------------ MODULE MCServer ------------------------------
(***************************************************************************)
(* Instances of Server for TLC: the peers 5 and 6, a list entry for one of *)
(* them and one for a network that holds both.                             *)
(***************************************************************************)
EXTENDS Server

Five == <<0, 1, 0, 1>>
Six == <<0, 1, 1, 0>>
Four == <<0, 1, 0, 0>>

MCPeers == {Five, Six}
MCEntries == {[base |-> Five, mask |-> NoMask], [base |-> Four, mask |-> 2]}

=============================================================================
