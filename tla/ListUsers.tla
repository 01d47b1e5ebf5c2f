----------------------------- MODULE ListUsers ------------------------------
(***************************************************************************)
(* The threads of Memory, whose keeper also sorts its lists.               *)
(***************************************************************************)
EXTENDS Memory, ListSort

userVars == <<vars, sortVars>>

OthersKeep == UNCHANGED <<mutex, library, usable, result, pointer, printed, chunk>>

KeeperSorts ==
  \/ /\ Goto(Keeper, "user", "sort") /\ OthersKeep
     /\ \E l \in Lists \ {m_memory_chunks} : SortCalled(l)
  \/ f_list_sort /\ UNCHANGED memoryVars
  \/ Goto(Keeper, "sort", "user") /\ SortReturns /\ OthersKeep

UsersInit == Init /\ SortInit

UsersNext == (Next /\ UNCHANGED sortVars) \/ KeeperSorts

UsersSpec == UsersInit /\ [][UsersNext]_userVars
=============================================================================
