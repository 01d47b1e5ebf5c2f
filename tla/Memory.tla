------------------------------- MODULE Memory -------------------------------
(***************************************************************************)
(* src/memory.c: every block carries a list node in front of the bytes of  *)
(* the user, and lives in the list m_memory_chunks under m_memory_mutex.   *)
(* Threads allocate, grow, free and print; one of them, Keeper, also keeps *)
(* the items that the blocks hold in lists of its own, which no other      *)
(* thread touches.                                                         *)
(*                                                                         *)
(* The node of the block b is b itself, the s_list_node that its user puts *)
(* first in its bytes is Item(b).  malloc and free of the C library are    *)
(* external.                                                               *)
(***************************************************************************)
EXTENDS List

CONSTANTS Threads, Keeper, Blocks, m_memory_chunks

Item(b) == <<b, "item">>

ASSUME MemoryAssumption ==
  /\ Keeper \in Threads /\ NULL \notin Threads
  /\ Nodes = Blocks \cup {Item(b) : b \in Blocks}
  /\ \A b \in Blocks : Item(b) \notin Blocks
  /\ m_memory_chunks \in Lists

VARIABLES
  mutex,    \* the thread that holds m_memory_mutex, or NULL
  library,  \* the blocks in the hands of the C library
  usable,   \* the blocks whose address a user holds, and has not passed back
  pc,       \* what a thread does inside memory.c; a keeper that sorts (ListUsers) is at "sort"
  result,   \* its local result, or memory_node
  pointer,  \* the argument of realloc
  printed,  \* what f_memory_print_plain has printed
  chunk     \* its cursor

memoryVars == <<mutex, library, usable, pc, result, pointer, printed, chunk>>
vars == <<listVars, memoryVars>>

Init ==
  /\ ListInit
  /\ mutex = NULL
  /\ library = Blocks
  /\ usable = {}
  /\ pc = [t \in Threads |-> "user"]
  /\ result = [t \in Threads |-> NULL]
  /\ pointer = [t \in Threads |-> NULL]
  /\ printed = [t \in Threads |-> <<>>]
  /\ chunk = [t \in Threads |-> NULL]

Goto(t, from, to) == pc[t] = from /\ pc' = [pc EXCEPT ![t] = to]

\* A block may go back once the user has taken its item out of its lists.
Unlisted(b) == owner[Item(b)] = NULL

-----------------------------------------------------------------------------
\* malloc(sizeof(s_memory_node) + size) succeeds; the memset leaves the node with the NULL links
\* a node outside every list has here.  For a realloc, pointer is the block to replace.  Without
\* memory both calls return NULL and change nothing: the old block of a realloc stays usable.
MallocSucceeds(t, b) ==
  /\ Goto(t, "user", "malloc")
  /\ b \in library
  /\ library' = library \ {b}
  /\ result' = [result EXCEPT ![t] = b]
  /\ \E p \in {NULL} \cup {u \in usable : Unlisted(u)} :
       /\ pointer' = [pointer EXCEPT ![t] = p]
       /\ usable' = usable \ {p}
  /\ UNCHANGED <<listVars, mutex, printed, chunk>>

Lock(t, from, to) == Goto(t, from, to) /\ mutex = NULL /\ mutex' = t
Unlock(t, from, to) == Goto(t, from, to) /\ mutex' = NULL

MallocLocksNothing(t) ==  \* mutant: the registry is changed without the mutex
  /\ Goto(t, "malloc", "append")
  /\ UNCHANGED <<listVars, mutex, library, usable, result, pointer, printed, chunk>>

MallocLocks(t) ==
  /\ Lock(t, "malloc", "append")
  /\ UNCHANGED <<listVars, library, usable, result, pointer, printed, chunk>>

MallocRegisters(t) ==
  /\ Goto(t, "append", "registered")
  /\ f_list_append(m_memory_chunks, result[t], "head")
  /\ Sequence!Prepend(m_memory_chunks, result[t])
  /\ UNCHANGED <<walk, mutex, library, usable, result, pointer, printed, chunk>>

\* The user gets the address.
MallocReturns(t) ==
  /\ pointer[t] = NULL
  /\ Unlock(t, "registered", "user")
  /\ usable' = usable \cup {result[t]}
  /\ result' = [result EXCEPT ![t] = NULL]
  /\ UNCHANGED <<listVars, library, pointer, printed, chunk>>

\* f_memory_realloc copies the bytes, and frees the old block.
ReallocForgets(t) ==  \* mutant: the old block is not freed
  /\ pointer[t] # NULL
  /\ Unlock(t, "registered", "user")
  /\ usable' = usable \cup {result[t]}
  /\ result' = [result EXCEPT ![t] = NULL]
  /\ pointer' = [pointer EXCEPT ![t] = NULL]
  /\ UNCHANGED <<listVars, library, printed, chunk>>

ReallocCopies(t) ==
  /\ pointer[t] # NULL
  /\ Unlock(t, "registered", "free")
  /\ usable' = usable \cup {result[t]}
  /\ result' = [result EXCEPT ![t] = pointer[t]]
  /\ pointer' = [pointer EXCEPT ![t] = NULL]
  /\ UNCHANGED <<listVars, library, printed, chunk>>

f_memory_malloc(t) ==
  \/ \E b \in Blocks : MallocSucceeds(t, b)
  \/ MallocLocks(t)
  \/ MallocRegisters(t)
  \/ MallocReturns(t)

\* f_memory_free of a block whose item is in no list.
FreeCalled(t) ==
  /\ Goto(t, "user", "free")
  /\ \E b \in usable :
       /\ Unlisted(b)
       /\ usable' = usable \ {b}
       /\ result' = [result EXCEPT ![t] = b]
  /\ UNCHANGED <<listVars, mutex, library, pointer, printed, chunk>>

FreeLocksNothing(t) ==  \* mutant: the block leaves the registry without the mutex
  /\ Goto(t, "free", "remove")
  /\ UNCHANGED <<listVars, mutex, library, usable, result, pointer, printed, chunk>>

FreeLocks(t) ==
  /\ Lock(t, "free", "remove")
  /\ UNCHANGED <<listVars, library, usable, result, pointer, printed, chunk>>

FreeUnregisters(t) ==
  /\ Goto(t, "remove", "removed")
  /\ f_list_remove(m_memory_chunks, result[t])
  /\ Sequence!Take(m_memory_chunks, result[t])
  /\ UNCHANGED <<walk, mutex, library, usable, result, pointer, printed, chunk>>

FreeUnlocks(t) ==
  /\ Unlock(t, "removed", "release")
  /\ UNCHANGED <<listVars, library, usable, result, pointer, printed, chunk>>

FreeReleases(t) ==
  /\ Goto(t, "release", "user")
  /\ library' = library \cup {result[t]}
  /\ result' = [result EXCEPT ![t] = NULL]
  /\ UNCHANGED <<listVars, mutex, usable, pointer, printed, chunk>>

f_memory_free(t) ==
  FreeCalled(t) \/ FreeLocks(t) \/ FreeUnregisters(t) \/ FreeUnlocks(t) \/ FreeReleases(t)

\* f_memory_print_plain walks the registry with the mutex held.
PrintLocks(t) ==
  /\ Lock(t, "user", "print")
  /\ printed' = [printed EXCEPT ![t] = <<>>]
  /\ chunk' = [chunk EXCEPT ![t] = head[m_memory_chunks]]
  /\ UNCHANGED <<listVars, library, usable, result, pointer>>

PrintChunk(t) ==
  /\ pc[t] = "print"
  /\ chunk[t] # NULL
  /\ printed' = [printed EXCEPT ![t] = Append(@, chunk[t])]
  /\ chunk' = [chunk EXCEPT ![t] = next[@]]
  /\ UNCHANGED <<listVars, mutex, library, usable, pc, result, pointer>>

PrintUnlocks(t) ==
  /\ chunk[t] = NULL
  /\ Unlock(t, "print", "user")
  /\ printed' = [printed EXCEPT ![t] = <<>>]
  /\ UNCHANGED <<listVars, library, usable, result, pointer, chunk>>

f_memory_print_plain(t) == PrintLocks(t) \/ PrintChunk(t) \/ PrintUnlocks(t)

-----------------------------------------------------------------------------
\* Between two calls the keeper changes its lists, with items of blocks it may use.
KeeperStep ==
  /\ pc[Keeper] = "user"
  /\ \E l \in Lists \ {m_memory_chunks} :
       \/ \E b \in usable, kind \in {"head", "tail"} : AppendNode(l, Item(b), kind)
       \/ \E b \in usable, p \in {NULL} \cup {Item(u) : u \in usable} : Insert(l, Item(b), p)
       \/ \E b \in usable : RemoveNode(l, Item(b))
       \/ WalkStart(l)
       \/ walk.over = l /\ (WalkStep \/ WalkEnd)
  /\ UNCHANGED memoryVars

Next ==
  \/ KeeperStep
  \/ \E t \in Threads : \/ f_memory_malloc(t)
                        \/ ReallocCopies(t)
                        \/ f_memory_free(t)
                        \/ f_memory_print_plain(t)

Spec == Init /\ [][Next]_vars

-----------------------------------------------------------------------------
(***************************************************************************)
(* Properties.                                                             *)
(***************************************************************************)
MemoryTypeOK ==
  /\ TypeOK
  /\ mutex \in Threads \cup {NULL}
  /\ library \subseteq Blocks /\ usable \subseteq Blocks
  /\ pc \in [Threads -> {"user", "sort", "malloc", "append", "registered",
                         "free", "remove", "removed", "release", "print"}]
  /\ result \in [Threads -> Blocks \cup {NULL}]
  /\ pointer \in [Threads -> Blocks \cup {NULL}]
  /\ chunk \in [Threads -> Nodes \cup {NULL}]

InFlight(t, b) == b \in {result[t], pointer[t]}

\* The registry is what f_memory_print_plain calls "still here": every block a user holds is in
\* it, none that went back to the C library is, and a block is missing only while the one
\* thread that allocates or frees it is inside the call.
RegistryIsExact ==
  \A b \in Blocks :
    /\ owner[b] = m_memory_chunks => b \notin library
    /\ b \in usable => owner[b] = m_memory_chunks
    /\ b \in Blocks \ (library \cup usable) =>
         \E t \in Threads : \A u \in Threads : InFlight(u, b) <=> u = t

\* A print in progress never stands on a block that was freed, whatever the other threads do.
PrintReadsLiveChunks == \A t \in Threads : chunk[t] # NULL => chunk[t] \notin library

\* What a print has shown when it ends is the registry, each block once and in order.
PrintIsWhole ==
  \A t \in Threads : pc[t] = "print" /\ chunk[t] = NULL => printed[t] = items[m_memory_chunks]
=============================================================================
