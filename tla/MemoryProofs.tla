---------------------------- MODULE MemoryProofs ----------------------------
(***************************************************************************)
(* The registry of memory.c is exact, and a print never reads a block that *)
(* was freed, for any number of threads and blocks.                        *)
(*                                                                         *)
(* What carries the proof: the thread that holds the mutex is the one      *)
(* whose pc is in Holding (Excluded); a block is in the library, usable,   *)
(* or in the locals of one thread (OneKeeper); and pc says of a block in   *)
(* flight whether it is in the registry (Registered).  SequencesInv and    *)
(* UsersInv add the sequences, and the keeper's sort.                      *)
(***************************************************************************)
EXTENDS ListUsers, ListProofs

Holding == {"append", "registered", "remove", "removed", "print"}
Allocating == {"malloc", "append", "registered"}
Freeing == {"free", "remove", "removed", "release"}

Excluded == \A t \in Threads : pc[t] \in Holding <=> mutex = t

Locals ==
  \A t \in Threads :
    /\ pc[t] \in Allocating \cup Freeing <=> result[t] # NULL
    /\ pointer[t] # NULL => pc[t] \in Allocating /\ pointer[t] # result[t]
    /\ chunk[t] # NULL => pc[t] = "print" /\ owner[chunk[t]] = m_memory_chunks

OneKeeper ==
  /\ library \cap usable = {}
  /\ \A b \in Blocks, t \in Threads :
       InFlight(t, b) => /\ b \notin library \cup usable
                         /\ \A u \in Threads : InFlight(u, b) => u = t
  /\ \A b \in Blocks \ (library \cup usable) : \E t \in Threads : InFlight(t, b)

Registered ==
  /\ \A n \in Nodes : owner[n] = m_memory_chunks => n \in Blocks
  /\ \A b \in library : owner[b] = NULL
  /\ \A b \in usable : owner[b] = m_memory_chunks
  /\ \A t \in Threads :
       /\ pointer[t] # NULL => owner[pointer[t]] = m_memory_chunks
       /\ pc[t] \in {"registered", "free", "remove"} => owner[result[t]] = m_memory_chunks
       /\ pc[t] \in {"malloc", "append", "removed", "release"} => owner[result[t]] = NULL

MemoryInv == MemoryTypeOK /\ LinksAgree /\ Excluded /\ Locals /\ OneKeeper /\ Registered

-----------------------------------------------------------------------------
\* The steps that leave the lists alone keep what is said of them.
LEMMA ListsUntouched == MemoryInv /\ UNCHANGED listVars => ListInv'
BY ReadingKeepsInv DEF listVars, MemoryInv, MemoryTypeOK, ListInv

\* A block leaves the library for the locals of t, an old one leaves the user.
LEMMA MallocSucceedsKeepsInv ==
  ASSUME MemoryInv, NEW t \in Threads, NEW b \in Blocks, MallocSucceeds(t, b)
  PROVE  MemoryInv'
<1>0. ListInv'
  BY ListsUntouched DEF MallocSucceeds
<1> USE MemoryAssumption, ListAssumption DEF MemoryInv, MemoryTypeOK, TypeOK, Goto, MallocSucceeds, listVars, links
<1>1. MemoryTypeOK'
  BY <1>0 DEF ListInv
<1>2. Excluded'
  BY DEF Excluded, Holding
<1>3. Locals'
  BY DEF Locals, Excluded, Allocating, Freeing, Holding, OneKeeper
<1>4. OneKeeper'
  BY DEF OneKeeper, Locals, InFlight, Allocating, Freeing
<1>5. Registered'
  BY DEF Registered, OneKeeper, Locals, InFlight, Allocating, Freeing
<1> QED
  BY <1>0, <1>1, <1>2, <1>3, <1>4, <1>5 DEF ListInv

\* Taking the mutex.
LEMMA MallocLocksKeepsInv ==
  ASSUME MemoryInv, NEW t \in Threads, MallocLocks(t)
  PROVE  MemoryInv'
<1>0. ListInv'
  BY ListsUntouched DEF MallocLocks
<1> USE MemoryAssumption, ListAssumption DEF MemoryInv, MemoryTypeOK, TypeOK, Goto, MallocLocks, Lock, listVars, links
<1>1. MemoryTypeOK'
  BY <1>0 DEF ListInv
<1>2. Excluded'
  BY DEF Excluded, Holding
<1>3. Locals'
  BY DEF Locals, Excluded, Allocating, Freeing, Holding
<1>4. OneKeeper'
  BY DEF OneKeeper, Locals, InFlight, Allocating, Freeing
<1>5. Registered'
  BY DEF Registered, OneKeeper, Locals, InFlight, Allocating, Freeing
<1> QED
  BY <1>0, <1>1, <1>2, <1>3, <1>4, <1>5 DEF ListInv

\* The user gets the block, and the mutex is released.
LEMMA MallocReturnsKeepsInv ==
  ASSUME MemoryInv, NEW t \in Threads, MallocReturns(t)
  PROVE  MemoryInv'
<1>0. ListInv'
  BY ListsUntouched DEF MallocReturns
<1> USE MemoryAssumption, ListAssumption DEF MemoryInv, MemoryTypeOK, TypeOK, Goto, MallocReturns, Unlock, listVars, links
<1>1. MemoryTypeOK'
  BY <1>0 DEF ListInv, Locals, Allocating, Freeing
<1>2. Excluded'
  BY DEF Excluded, Holding
<1>3. Locals'
  BY DEF Locals, Excluded, Allocating, Freeing, Holding
<1>4. OneKeeper'
  BY DEF OneKeeper, Locals, InFlight, Allocating, Freeing
<1>5. Registered'
  BY DEF Registered, OneKeeper, Locals, InFlight, Allocating, Freeing
<1> QED
  BY <1>0, <1>1, <1>2, <1>3, <1>4, <1>5 DEF ListInv

\* The new block is the user's, the old one is about to be freed.
LEMMA ReallocCopiesKeepsInv ==
  ASSUME MemoryInv, NEW t \in Threads, ReallocCopies(t)
  PROVE  MemoryInv'
<1>0. ListInv'
  BY ListsUntouched DEF ReallocCopies
<1> USE MemoryAssumption, ListAssumption DEF MemoryInv, MemoryTypeOK, TypeOK, Goto, ReallocCopies, Unlock, listVars, links
<1>1. MemoryTypeOK'
  BY <1>0 DEF ListInv, Locals, Allocating, Freeing
<1>2. Excluded'
  BY DEF Excluded, Holding
<1>3. Locals'
  BY DEF Locals, Excluded, Allocating, Freeing, Holding
<1>4. OneKeeper'
  BY DEF OneKeeper, Locals, InFlight, Allocating, Freeing
<1>5. Registered'
  BY DEF Registered, OneKeeper, Locals, InFlight, Allocating, Freeing
<1> QED
  BY <1>0, <1>1, <1>2, <1>3, <1>4, <1>5 DEF ListInv

\* The user passes a block back.
LEMMA FreeCalledKeepsInv ==
  ASSUME MemoryInv, NEW t \in Threads, FreeCalled(t)
  PROVE  MemoryInv'
<1>0. ListInv'
  BY ListsUntouched DEF FreeCalled
<1> USE MemoryAssumption, ListAssumption DEF MemoryInv, MemoryTypeOK, TypeOK, Goto, FreeCalled, listVars, links
<1>1. MemoryTypeOK'
  BY <1>0 DEF ListInv
<1>2. Excluded'
  BY DEF Excluded, Holding
<1>3. Locals'
  BY DEF Locals, Excluded, Allocating, Freeing, Holding
<1>4. OneKeeper'
  BY DEF OneKeeper, Locals, InFlight, Allocating, Freeing
<1>5. Registered'
  BY DEF Registered, OneKeeper, Locals, InFlight, Allocating, Freeing
<1> QED
  BY <1>0, <1>1, <1>2, <1>3, <1>4, <1>5 DEF ListInv

\* Taking the mutex.
LEMMA FreeLocksKeepsInv ==
  ASSUME MemoryInv, NEW t \in Threads, FreeLocks(t)
  PROVE  MemoryInv'
<1>0. ListInv'
  BY ListsUntouched DEF FreeLocks
<1> USE MemoryAssumption, ListAssumption DEF MemoryInv, MemoryTypeOK, TypeOK, Goto, FreeLocks, Lock, listVars, links
<1>1. MemoryTypeOK'
  BY <1>0 DEF ListInv
<1>2. Excluded'
  BY DEF Excluded, Holding
<1>3. Locals'
  BY DEF Locals, Excluded, Allocating, Freeing, Holding
<1>4. OneKeeper'
  BY DEF OneKeeper, Locals, InFlight, Allocating, Freeing
<1>5. Registered'
  BY DEF Registered, OneKeeper, Locals, InFlight, Allocating, Freeing
<1> QED
  BY <1>0, <1>1, <1>2, <1>3, <1>4, <1>5 DEF ListInv

\* Releasing it.
LEMMA FreeUnlocksKeepsInv ==
  ASSUME MemoryInv, NEW t \in Threads, FreeUnlocks(t)
  PROVE  MemoryInv'
<1>0. ListInv'
  BY ListsUntouched DEF FreeUnlocks
<1> USE MemoryAssumption, ListAssumption DEF MemoryInv, MemoryTypeOK, TypeOK, Goto, FreeUnlocks, Unlock, listVars, links
<1>1. MemoryTypeOK'
  BY <1>0 DEF ListInv
<1>2. Excluded'
  BY DEF Excluded, Holding
<1>3. Locals'
  BY DEF Locals, Excluded, Allocating, Freeing, Holding
<1>4. OneKeeper'
  BY DEF OneKeeper, Locals, InFlight, Allocating, Freeing
<1>5. Registered'
  BY DEF Registered, OneKeeper, Locals, InFlight, Allocating, Freeing
<1> QED
  BY <1>0, <1>1, <1>2, <1>3, <1>4, <1>5 DEF ListInv

\* A block goes from the locals of t to the library.
LEMMA FreeReleasesKeepsInv ==
  ASSUME MemoryInv, NEW t \in Threads, FreeReleases(t)
  PROVE  MemoryInv'
<1>0. ListInv'
  BY ListsUntouched DEF FreeReleases
<1> USE MemoryAssumption, ListAssumption DEF MemoryInv, MemoryTypeOK, TypeOK, Goto, FreeReleases, listVars, links
<1>1. MemoryTypeOK'
  BY <1>0 DEF ListInv, Locals, Allocating, Freeing
<1>2. Excluded'
  BY DEF Excluded, Holding
<1>3. Locals'
  BY DEF Locals, Excluded, Allocating, Freeing, Holding
<1>4. OneKeeper'
  BY DEF OneKeeper, Locals, InFlight, Allocating, Freeing
<1>5. Registered'
  BY DEF Registered, OneKeeper, Locals, InFlight, Allocating, Freeing
<1> QED
  BY <1>0, <1>1, <1>2, <1>3, <1>4, <1>5 DEF ListInv

\* A print starts at the head of the registry, which is in it.
LEMMA PrintLocksKeepsInv ==
  ASSUME MemoryInv, NEW t \in Threads, PrintLocks(t)
  PROVE  MemoryInv'
<1>0. ListInv'
  BY ListsUntouched DEF PrintLocks
<1> USE MemoryAssumption, ListAssumption DEF MemoryInv, MemoryTypeOK, TypeOK, Goto, PrintLocks, Lock, listVars, links
<1>1. MemoryTypeOK'
  BY <1>0 DEF ListInv
<1>2. Excluded'
  BY DEF Excluded, Holding
<1>3. Locals'
  BY DEF Locals, Excluded, Allocating, Freeing, Holding, LinksAgree, EndsAgree
<1>4. OneKeeper'
  BY DEF OneKeeper, Locals, InFlight, Allocating, Freeing
<1>5. Registered'
  BY DEF Registered, OneKeeper, Locals, InFlight, Allocating, Freeing
<1> QED
  BY <1>0, <1>1, <1>2, <1>3, <1>4, <1>5 DEF ListInv

\* A print moves to the next node, which is in the registry too.
LEMMA PrintChunkKeepsInv ==
  ASSUME MemoryInv, NEW t \in Threads, PrintChunk(t)
  PROVE  MemoryInv'
<1>0. ListInv'
  BY ListsUntouched DEF PrintChunk
<1> USE MemoryAssumption, ListAssumption DEF MemoryInv, MemoryTypeOK, TypeOK, Goto, PrintChunk, listVars, links
<1>1. MemoryTypeOK'
  BY <1>0 DEF ListInv
<1>2. Excluded'
  BY DEF Excluded, Holding
<1>3. Locals'
  <2>1. /\ chunk[t] \in Nodes /\ owner[chunk[t]] = m_memory_chunks
        /\ pc[t] = "print"
    BY DEF Locals
  <2>2. next[chunk[t]] # NULL => owner[next[chunk[t]]] = m_memory_chunks
    BY <2>1 DEF LinksAgree, NeighboursAgree
  <2>3. chunk' = [chunk EXCEPT ![t] = next[chunk[t]]]
    OBVIOUS
  <2> QED
    BY <2>1, <2>2, <2>3 DEF Locals
<1>4. OneKeeper'
  BY DEF OneKeeper, Locals, InFlight, Allocating, Freeing
<1>5. Registered'
  BY DEF Registered, OneKeeper, Locals, InFlight, Allocating, Freeing
<1> QED
  BY <1>0, <1>1, <1>2, <1>3, <1>4, <1>5 DEF ListInv

\* A print ends.
LEMMA PrintUnlocksKeepsInv ==
  ASSUME MemoryInv, NEW t \in Threads, PrintUnlocks(t)
  PROVE  MemoryInv'
<1>0. ListInv'
  BY ListsUntouched DEF PrintUnlocks
<1> USE MemoryAssumption, ListAssumption DEF MemoryInv, MemoryTypeOK, TypeOK, Goto, PrintUnlocks, Unlock, listVars, links
<1>1. MemoryTypeOK'
  BY <1>0 DEF ListInv
<1>2. Excluded'
  BY DEF Excluded, Holding
<1>3. Locals'
  BY DEF Locals, Excluded, Allocating, Freeing, Holding
<1>4. OneKeeper'
  BY DEF OneKeeper, Locals, InFlight, Allocating, Freeing
<1>5. Registered'
  BY DEF Registered, OneKeeper, Locals, InFlight, Allocating, Freeing
<1> QED
  BY <1>0, <1>1, <1>2, <1>3, <1>4, <1>5 DEF ListInv

\* The new block joins the registry, whose mutex t holds.
LEMMA MallocRegistersKeepsInv ==
  ASSUME MemoryInv, NEW t \in Threads, MallocRegisters(t)
  PROVE  MemoryInv'
<1>0. ListInv'
  BY AppendKeepsInv, MemoryAssumption
  DEF MallocRegisters, MemoryInv, MemoryTypeOK, Locals, Allocating, Goto, ListInv
<1> USE MemoryAssumption, ListAssumption DEF MemoryInv, MemoryTypeOK, TypeOK, Goto, MallocRegisters, f_list_append, Owned
<1>1. MemoryTypeOK'
  BY <1>0 DEF ListInv
<1>2. Excluded'
  BY DEF Excluded, Holding
<1>3. Locals'
  BY DEF Locals, Excluded, Allocating, Freeing, Holding
<1>4. OneKeeper'
  BY DEF OneKeeper, Locals, InFlight, Allocating, Freeing
<1>5. Registered'
  BY DEF Registered, OneKeeper, Locals, InFlight, Allocating, Freeing
<1> QED
  BY <1>0, <1>1, <1>2, <1>3, <1>4, <1>5 DEF ListInv

\* A block leaves the registry, whose mutex t holds: no print stands on it.
LEMMA FreeUnregistersKeepsInv ==
  ASSUME MemoryInv, NEW t \in Threads, FreeUnregisters(t)
  PROVE  MemoryInv'
<1>0. ListInv'
  BY RemoveKeepsInv, MemoryAssumption
  DEF FreeUnregisters, MemoryInv, MemoryTypeOK, Locals, Freeing, Goto, ListInv
<1> USE MemoryAssumption, ListAssumption DEF MemoryInv, MemoryTypeOK, TypeOK, Goto, FreeUnregisters, f_list_remove
<1>1. MemoryTypeOK'
  BY <1>0 DEF ListInv
<1>2. Excluded'
  BY DEF Excluded, Holding
<1>3. Locals'
  BY DEF Locals, Excluded, Allocating, Freeing, Holding
<1>4. OneKeeper'
  BY DEF OneKeeper, Locals, InFlight, Allocating, Freeing
<1>5. Registered'
  BY DEF Registered, OneKeeper, Locals, InFlight, Allocating, Freeing
<1> QED
  BY <1>0, <1>1, <1>2, <1>3, <1>4, <1>5 DEF ListInv

\* The keeper moves items, never a block, and never in the registry.
LEMMA KeeperMovesItems ==
  ASSUME MemoryInv, KeeperStep
  PROVE  /\ ListInv'
         /\ \A b \in Blocks : owner'[b] = owner[b]
         /\ \A b \in Blocks : owner[Item(b)] # m_memory_chunks => owner'[Item(b)] # m_memory_chunks
<1> USE MemoryAssumption, ListAssumption DEF MemoryInv, MemoryTypeOK
<1>1. PICK l \in Lists \ {m_memory_chunks} :
        \/ \E b \in usable, kind \in {"head", "tail"} : AppendNode(l, Item(b), kind)
        \/ \E b \in usable, p \in {NULL} \cup {Item(u) : u \in usable} : Insert(l, Item(b), p)
        \/ \E b \in usable : RemoveNode(l, Item(b))
        \/ WalkStart(l)
        \/ walk.over = l /\ (WalkStep \/ WalkEnd)
  BY DEF KeeperStep
<1>2. \A b \in Blocks : Item(b) \in Nodes /\ b \in Nodes
  OBVIOUS
<1>3. \A b, c \in Blocks : Item(b) # c
  OBVIOUS
<1>4. ASSUME NEW b \in usable, NEW kind, f_list_append(l, Item(b), kind)
      PROVE  /\ \A c \in Blocks : owner'[c] = owner[c]
             /\ \A c \in Blocks : owner'[Item(c)] \in {owner[Item(c)], l}
  BY <1>2, <1>3, <1>4 DEF f_list_append, Owned, TypeOK
<1>5. ASSUME NEW b \in usable, NEW p \in {NULL} \cup {Item(u) : u \in usable},
             f_list_insert(l, Item(b), p)
      PROVE  /\ \A c \in Blocks : owner'[c] = owner[c]
             /\ \A c \in Blocks : owner'[Item(c)] \in {owner[Item(c)], l}
  BY <1>2, <1>3, <1>4, <1>5 DEF f_list_insert, Splice, Owned, TypeOK
<1>6. ASSUME NEW b \in usable, f_list_remove(l, Item(b))
      PROVE  /\ \A c \in Blocks : owner'[c] = owner[c]
             /\ \A c \in Blocks : owner'[Item(c)] \in {owner[Item(c)], NULL}
  BY <1>2, <1>3, <1>6 DEF f_list_remove, TypeOK
<1>7. ListInv /\ [ListNext]_listVars
  BY <1>1, <1>2 DEF ListNext, ListInv
<1>8. ListInv'
  BY <1>7, StepKeepsInv
<1> QED
  BY <1>1, <1>4, <1>5, <1>6, <1>8
  DEF AppendNode, Insert, RemoveNode, WalkStart, WalkStep, WalkEnd, links

LEMMA KeeperKeepsInv == MemoryInv /\ KeeperStep => MemoryInv'
<1> SUFFICES ASSUME MemoryInv, KeeperStep PROVE MemoryInv'
  OBVIOUS
<1>1. /\ ListInv'
      /\ \A b \in Blocks : owner'[b] = owner[b]
      /\ \A b \in Blocks : owner[Item(b)] # m_memory_chunks => owner'[Item(b)] # m_memory_chunks
  BY KeeperMovesItems
<1>2. UNCHANGED memoryVars
  BY DEF KeeperStep
<1> USE MemoryAssumption, ListAssumption DEF MemoryInv, MemoryTypeOK, memoryVars
<1>3. \A n \in Nodes : owner[n] = m_memory_chunks => n \in Blocks
  BY DEF Registered
<1>4. MemoryTypeOK' /\ LinksAgree'
  BY <1>1, <1>2 DEF ListInv
<1>5. Excluded'
  BY <1>2 DEF Excluded
<1>6. Locals'
  BY <1>1, <1>2, <1>3 DEF Locals
<1>7. OneKeeper'
  BY <1>2 DEF OneKeeper, InFlight
<1>8. Registered'
  <2>1. \A n \in Nodes : owner'[n] = m_memory_chunks => n \in Blocks
    BY <1>1, <1>3
  <2> QED
    BY <1>1, <1>2, <2>1 DEF Registered, Locals, Allocating, Freeing
<1> QED
  BY <1>4, <1>5, <1>6, <1>7, <1>8

-----------------------------------------------------------------------------
LEMMA MemoryInitInv == Init => MemoryInv
<1> SUFFICES ASSUME Init PROVE MemoryInv
  OBVIOUS
<1>1. ListInv
  BY InitEstablishesInv DEF Init
<1> QED
  BY <1>1, MemoryAssumption, ListAssumption
  DEF Init, ListInit, MemoryInv, MemoryTypeOK, ListInv, Excluded, Holding, Locals, Allocating,
      Freeing, OneKeeper, InFlight, Registered

LEMMA MemoryStepKeepsInv == MemoryInv /\ [Next]_vars => MemoryInv'
<1> SUFFICES ASSUME MemoryInv, [Next]_vars PROVE MemoryInv'
  OBVIOUS
<1>1. CASE UNCHANGED vars
  <2>1. ListInv'
    BY <1>1, ListsUntouched DEF vars
  <2> QED
    BY <1>1, <2>1 DEF vars, listVars, links, memoryVars, MemoryInv, MemoryTypeOK, ListInv, Excluded,
                      Locals, OneKeeper, InFlight, Registered
<1>2. CASE KeeperStep
  BY <1>2, KeeperKeepsInv
<1>3. ASSUME NEW t \in Threads, f_memory_malloc(t) PROVE MemoryInv'
  BY <1>3, MallocSucceedsKeepsInv, MallocLocksKeepsInv, MallocRegistersKeepsInv,
     MallocReturnsKeepsInv DEF f_memory_malloc
<1>4. ASSUME NEW t \in Threads, ReallocCopies(t) PROVE MemoryInv'
  BY <1>4, ReallocCopiesKeepsInv
<1>5. ASSUME NEW t \in Threads, f_memory_free(t) PROVE MemoryInv'
  BY <1>5, FreeCalledKeepsInv, FreeLocksKeepsInv, FreeUnregistersKeepsInv, FreeUnlocksKeepsInv,
     FreeReleasesKeepsInv DEF f_memory_free
<1>6. ASSUME NEW t \in Threads, f_memory_print_plain(t) PROVE MemoryInv'
  BY <1>6, PrintLocksKeepsInv, PrintChunkKeepsInv, PrintUnlocksKeepsInv DEF f_memory_print_plain
<1> QED
  BY <1>1, <1>2, <1>3, <1>4, <1>5, <1>6 DEF Next

LEMMA MemoryInvHolds == Spec => []MemoryInv
BY MemoryInitInv, MemoryStepKeepsInv, PTL DEF Spec

LEMMA InvIsExact == MemoryInv => RegistryIsExact
BY MemoryAssumption, ListAssumption
DEF MemoryInv, MemoryTypeOK, TypeOK, RegistryIsExact, OneKeeper, Registered, InFlight

LEMMA InvReadsLive == MemoryInv => PrintReadsLiveChunks
BY MemoryAssumption, ListAssumption
DEF MemoryInv, MemoryTypeOK, TypeOK, PrintReadsLiveChunks, Locals, Registered

\* For any number of threads and blocks: every block a user holds is in the registry, no freed one
\* is, and a block that is neither is in exactly one call of memory.c.
THEOREM TheRegistryIsExact == Spec => []RegistryIsExact
BY InvIsExact, MemoryInvHolds, PTL

\* A print holds the mutex, so what it stands on stays in the registry, and is not freed.
THEOREM PrintsReadLiveChunks == Spec => []PrintReadsLiveChunks
BY InvReadsLive, MemoryInvHolds, PTL

\* The links of the registry and of the keeper's lists stay consistent with threads around them.
THEOREM SharedListsKeepTheirLinks == Spec => []LinksAgree
<1>1. MemoryInv => LinksAgree
  BY DEF MemoryInv
<1> QED
  BY <1>1, MemoryInvHolds, PTL

-----------------------------------------------------------------------------
(***************************************************************************)
(* The sequences.  The invariant of ListProofs holds of the lists here,    *)
(* and while a thread prints, what it has shown is the part of the         *)
(* registry in front of the block it stands on.                            *)
(***************************************************************************)
\* p is what a print has shown of the registry s when it stands on c.
Shown(s, p, c) ==
  /\ p \in Seq(Nodes)
  /\ Len(p) <= Len(s)
  /\ \A i \in 1 .. Len(p) : p[i] = s[i]
  /\ c = IF Len(p) = Len(s) THEN NULL ELSE s[Len(p) + 1]

PrintsFollow ==
  /\ printed \in [Threads -> Seq(Nodes)]
  /\ \A t \in Threads : pc[t] = "print" => Shown(items[m_memory_chunks], printed[t], chunk[t])

SequencesInv ==
  MemoryInv /\ ItemsStand /\ WalkInv /\ walk.over # m_memory_chunks /\ PrintsFollow

\* A print that starts has shown nothing.
LEMMA PrintStarts ==
  ASSUME NEW s \in Seq(Nodes), NEW c, c = IF Len(s) = 0 THEN NULL ELSE s[1]
  PROVE  Shown(s, <<>>, c)
<1>1. Len(s) \in Nat
  BY LenProperties
<1>2. <<>> \in Seq(Nodes) /\ Len(<<>>) = 0
  BY EmptySeq
<1>3. PICK p : p = <<>>
  OBVIOUS
<1>4. /\ p \in Seq(Nodes) /\ Len(p) = 0 /\ Len(p) + 1 = 1
  BY <1>2, <1>3
<1>5. \A i \in 1 .. Len(p) : p[i] = s[i]
  BY <1>4
<1>6. c = IF Len(p) = Len(s) THEN NULL ELSE s[Len(p) + 1]
  BY <1>1, <1>4
<1> QED
  BY <1>1, <1>3, <1>4, <1>5, <1>6 DEF Shown

\* One more block is shown, and the cursor is on the one behind it.
LEMMA PrintGrows ==
  ASSUME NEW s \in Seq(Nodes), NEW p, NEW c \in Nodes, NEW d, Shown(s, p, c),
         \A i \in 1 .. Len(s) : s[i] = c => d = IF i = Len(s) THEN NULL ELSE s[i + 1]
  PROVE  Shown(s, Append(p, c), d)
<1>1. p \in Seq(Nodes) /\ Len(p) \in Nat /\ Len(s) \in Nat
  BY LenProperties DEF Shown
<1>2. PICK k : k = Len(p) + 1
  OBVIOUS
<1>3. k \in 1 .. Len(s) /\ s[k] = c
  BY <1>1, <1>2, ListAssumption DEF Shown
<1>4. PICK r : r = Append(p, c)
  OBVIOUS
<1>5. /\ r \in Seq(Nodes) /\ Len(r) = k /\ r[k] = c
      /\ \A i \in 1 .. Len(p) : r[i] = p[i]
  BY <1>1, <1>2, <1>4, AppendProperties
<1>6. ASSUME NEW i \in 1 .. Len(r) PROVE r[i] = s[i]
  <2>1. CASE i = k
    BY <1>3, <1>5, <2>1
  <2>2. CASE i # k
    <3>1. i \in 1 .. Len(p)
      BY <1>1, <1>2, <1>5, <2>2
    <3> QED
      BY <1>5, <3>1 DEF Shown
  <2> QED
    BY <2>1, <2>2
<1>7. d = IF Len(r) = Len(s) THEN NULL ELSE s[Len(r) + 1]
  BY <1>3, <1>5
<1> QED
  BY <1>1, <1>3, <1>4, <1>5, <1>6, <1>7 DEF Shown

\* A print that stands on nothing has shown everything.
LEMMA PrintEnds ==
  ASSUME NEW s \in Seq(Nodes), NEW p, Shown(s, p, NULL)
  PROVE  p = s
<1>1. p \in Seq(Nodes) /\ Len(p) \in Nat /\ Len(s) \in Nat
  BY LenProperties DEF Shown
<1>2. Len(p) = Len(s)
  <2>1. SUFFICES ASSUME Len(p) # Len(s) PROVE FALSE
    OBVIOUS
  <2>2. PICK k : k = Len(p) + 1
    OBVIOUS
  <2>3. k \in 1 .. Len(s) /\ s[k] = NULL
    BY <1>1, <2>1, <2>2 DEF Shown
  <2> QED
    BY <2>3, ElementOfSeq, ListAssumption
<1> QED
  BY <1>1, <1>2, SeqEqual DEF Shown

-----------------------------------------------------------------------------
\* Nobody starts or goes on printing, and the registry stays.
LEMMA PrintsUntouched ==
  ASSUME PrintsFollow, UNCHANGED <<printed, chunk>>,
         items'[m_memory_chunks] = items[m_memory_chunks],
         \A t \in Threads : pc'[t] = "print" => pc[t] = "print"
  PROVE  PrintsFollow'
<1>1. ASSUME NEW t \in Threads, pc'[t] = "print"
      PROVE  Shown(items[m_memory_chunks], printed[t], chunk[t])'
  <2>1. Shown(items[m_memory_chunks], printed[t], chunk[t])
    BY <1>1 DEF PrintsFollow
  <2> QED
    BY <2>1 DEF Shown
<1> QED
  BY <1>1 DEF PrintsFollow

\* The steps of memory.c outside the registry.
LEMMA ListsUntouchedKeepsSequences ==
  ASSUME SequencesInv, MemoryInv', UNCHANGED listVars, PrintsFollow'
  PROVE  SequencesInv'
<1>1. UNCHANGED <<links, items>> /\ UNCHANGED walk /\ UNCHANGED owner
  BY DEF listVars, links
<1>2. ItemsStand'
  BY <1>1, ReadingKeepsStands DEF SequencesInv
<1>3. WalkInv'
  BY <1>1, UntouchedWalk DEF SequencesInv
<1> QED
  BY <1>1, <1>2, <1>3 DEF SequencesInv

\* Who holds the mutex to change the registry knows that nobody prints.
LEMMA ChangingIsAlone ==
  ASSUME MemoryInv, NEW t \in Threads, pc[t] \in {"append", "remove"}
  PROVE  \A u \in Threads : pc[u] # "print"
BY DEF MemoryInv, Excluded, Holding

LEMMA MallocRegistersKeepsSequences ==
  ASSUME SequencesInv, MemoryInv', NEW t \in Threads, MallocRegisters(t)
  PROVE  SequencesInv'
<1>1. /\ pc[t] = "append" /\ pc' = [pc EXCEPT ![t] = "registered"]
      /\ f_list_append(m_memory_chunks, result[t], "head")
      /\ Sequence!Prepend(m_memory_chunks, result[t])
      /\ UNCHANGED walk /\ UNCHANGED printed
  BY DEF MallocRegisters, Goto
<1>2. result[t] \in Nodes /\ m_memory_chunks \in Lists
  BY <1>1, MemoryAssumption
  DEF SequencesInv, MemoryInv, MemoryTypeOK, Locals, Allocating
<1>3. PICK n \in Nodes : n = result[t]
  BY <1>2
<1>4. items' = [items EXCEPT ![m_memory_chunks] = <<n>> \o @]
  BY <1>1, <1>3 DEF Sequence!Prepend
<1>5. ItemsInv
  BY DEF SequencesInv, ItemsInv, MemoryInv, MemoryTypeOK, ListInv
<1>6. PICK kind \in {"head", "tail"} : kind = "head"
  OBVIOUS
<1>7. items' = [items EXCEPT ![m_memory_chunks] = IF kind = "head" THEN <<n>> \o @ ELSE Append(@, n)]
  BY <1>4, <1>6
<1>8. ItemsInv'
  BY <1>1, <1>2, <1>3, <1>5, <1>6, <1>7, AppendKeepsItems
<1>9. PrintsFollow'
  <2>1. \A u \in Threads : pc'[u] # "print"
    BY <1>1, ChangingIsAlone DEF SequencesInv, MemoryInv, MemoryTypeOK
  <2> QED
    BY <1>1, <2>1 DEF SequencesInv, PrintsFollow
<1> QED
  BY <1>1, <1>8, <1>9 DEF SequencesInv, ItemsInv

LEMMA FreeUnregistersKeepsSequences ==
  ASSUME SequencesInv, MemoryInv', NEW t \in Threads, FreeUnregisters(t)
  PROVE  SequencesInv'
<1>1. /\ pc[t] = "remove" /\ pc' = [pc EXCEPT ![t] = "removed"]
      /\ f_list_remove(m_memory_chunks, result[t])
      /\ Sequence!Take(m_memory_chunks, result[t])
      /\ UNCHANGED walk /\ UNCHANGED printed
  BY DEF FreeUnregisters, Goto
<1>2. result[t] \in Nodes /\ m_memory_chunks \in Lists
  BY <1>1, MemoryAssumption
  DEF SequencesInv, MemoryInv, MemoryTypeOK, Locals, Freeing
<1>3. PICK n \in Nodes : n = result[t]
  BY <1>2
<1>4. items' = [items EXCEPT ![m_memory_chunks] =
                  Sequence!RemoveAt(@, Sequence!PositionOf(m_memory_chunks, n))]
  BY <1>1, <1>3 DEF Sequence!Take
<1>5. ListInv /\ ItemsStand /\ WalkInv
  BY DEF SequencesInv, MemoryInv, MemoryTypeOK, ListInv
<1>6. ItemsStand'
  BY <1>1, <1>2, <1>3, <1>4, <1>5, RemoveStands
<1>7. WalkInv'
  <2>1. walk.over # NULL => walk.over \in Lists \ {m_memory_chunks}
    BY <1>5 DEF SequencesInv, WalkInv, WalkTyped
  <2>2. \A l \in Lists \ {m_memory_chunks} : items'[l] = items[l]
    BY <1>4, <1>5 DEF ItemsStand
  <2>3. owner[n] = m_memory_chunks /\ owner' = [owner EXCEPT ![n] = NULL]
    BY <1>1, <1>3 DEF f_list_remove
  <2>4. walk.over # NULL => \A m \in Nodes : owner[m] = walk.over => owner'[m] = walk.over
    BY <1>5, <2>1, <2>3 DEF ListInv, TypeOK
  <2> QED
    BY <1>1, <1>5, <2>1, <2>2, <2>4, UntouchedWalk
<1>8. PrintsFollow'
  <2>1. \A u \in Threads : pc'[u] # "print"
    BY <1>1, ChangingIsAlone DEF SequencesInv, MemoryInv, MemoryTypeOK
  <2> QED
    BY <1>1, <2>1 DEF SequencesInv, PrintsFollow
<1> QED
  BY <1>1, <1>6, <1>7, <1>8 DEF SequencesInv

LEMMA PrintLocksKeepsSequences ==
  ASSUME SequencesInv, MemoryInv', NEW t \in Threads, PrintLocks(t)
  PROVE  SequencesInv'
<1>1. /\ UNCHANGED listVars /\ items' = items
      /\ pc' = [pc EXCEPT ![t] = "print"]
      /\ printed' = [printed EXCEPT ![t] = <<>>]
      /\ chunk' = [chunk EXCEPT ![t] = head[m_memory_chunks]]
  BY DEF PrintLocks, Lock, Goto, listVars
<1>2. PICK s : s = items[m_memory_chunks]
  OBVIOUS
<1>3. s \in Seq(Nodes) /\ head[m_memory_chunks] = IF Len(s) = 0 THEN NULL ELSE s[1]
  BY <1>2, MemoryAssumption DEF SequencesInv, ItemsStand, Stands
<1>4. printed \in [Threads -> Seq(Nodes)]
  BY DEF SequencesInv, PrintsFollow
<1>5. printed' \in [Threads -> Seq(Nodes)] /\ printed'[t] = <<>>
  BY <1>1, <1>4, EmptySeq
<1>6. chunk'[t] = head[m_memory_chunks]
  BY <1>1 DEF SequencesInv, MemoryInv, MemoryTypeOK
<1>7. Shown(s, printed'[t], chunk'[t])
  BY <1>3, <1>5, <1>6, PrintStarts
<1>8. ASSUME NEW u \in Threads, u # t, pc'[u] = "print"
      PROVE  Shown(s, printed'[u], chunk'[u])
  BY <1>1, <1>2, <1>8 DEF SequencesInv, PrintsFollow, MemoryInv, MemoryTypeOK
<1>9. PrintsFollow'
  <2>1. \A u \in Threads : pc'[u] = "print" => Shown(s, printed'[u], chunk'[u])
    BY <1>7, <1>8
  <2>2. items'[m_memory_chunks] = s
    BY <1>1, <1>2
  <2> QED
    BY <1>5, <2>1, <2>2 DEF PrintsFollow, Shown
<1> QED
  BY <1>1, <1>9, ListsUntouchedKeepsSequences

LEMMA PrintChunkKeepsSequences ==
  ASSUME SequencesInv, MemoryInv', NEW t \in Threads, PrintChunk(t)
  PROVE  SequencesInv'
<1>1. /\ UNCHANGED listVars /\ items' = items /\ pc' = pc
      /\ pc[t] = "print" /\ chunk[t] # NULL
      /\ printed' = [printed EXCEPT ![t] = Append(@, chunk[t])]
      /\ chunk' = [chunk EXCEPT ![t] = next[@]]
  BY DEF PrintChunk, listVars
<1>2. PICK s : s = items[m_memory_chunks]
  OBVIOUS
<1>3. /\ s \in Seq(Nodes)
      /\ \A i \in 1 .. Len(s) : next[s[i]] = IF i = Len(s) THEN NULL ELSE s[i + 1]
  BY <1>2, MemoryAssumption DEF SequencesInv, ItemsStand, Stands
<1>4. printed \in [Threads -> Seq(Nodes)] /\ Shown(s, printed[t], chunk[t])
  BY <1>1, <1>2 DEF SequencesInv, PrintsFollow
<1>5. chunk[t] \in Nodes /\ chunk'[t] = next[chunk[t]]
  BY <1>1 DEF SequencesInv, MemoryInv, MemoryTypeOK
<1>6. PICK c, d : c \in Nodes /\ c = chunk[t] /\ d = next[c]
  BY <1>5
<1>7. \A i \in 1 .. Len(s) : s[i] = c => d = IF i = Len(s) THEN NULL ELSE s[i + 1]
  BY <1>3, <1>6
<1>8. Shown(s, Append(printed[t], c), d)
  BY <1>3, <1>4, <1>6, <1>7, PrintGrows
<1>9. printed'[t] = Append(printed[t], c) /\ chunk'[t] = d
  BY <1>1, <1>4, <1>5, <1>6
<1>10. printed' \in [Threads -> Seq(Nodes)]
  <2>1. Append(printed[t], c) \in Seq(Nodes)
    BY <1>8 DEF Shown
  <2> QED
    BY <1>1, <1>4, <1>6, <2>1
<1>11. ASSUME NEW u \in Threads, u # t, pc'[u] = "print"
       PROVE  Shown(s, printed'[u], chunk'[u])
  BY <1>1, <1>2, <1>11 DEF SequencesInv, PrintsFollow, MemoryInv, MemoryTypeOK
<1>12. PrintsFollow'
  <2>1. \A u \in Threads : pc'[u] = "print" => Shown(s, printed'[u], chunk'[u])
    BY <1>8, <1>9, <1>11
  <2>2. items'[m_memory_chunks] = s
    BY <1>1, <1>2
  <2> QED
    BY <1>10, <2>1, <2>2 DEF PrintsFollow, Shown
<1> QED
  BY <1>1, <1>12, ListsUntouchedKeepsSequences

LEMMA PrintUnlocksKeepsSequences ==
  ASSUME SequencesInv, MemoryInv', NEW t \in Threads, PrintUnlocks(t)
  PROVE  SequencesInv'
<1>1. /\ UNCHANGED listVars /\ items' = items /\ chunk' = chunk
      /\ pc' = [pc EXCEPT ![t] = "user"]
      /\ printed' = [printed EXCEPT ![t] = <<>>]
  BY DEF PrintUnlocks, Unlock, Goto, listVars
<1>2. printed \in [Threads -> Seq(Nodes)]
  BY DEF SequencesInv, PrintsFollow
<1>3. printed' \in [Threads -> Seq(Nodes)]
  BY <1>1, <1>2, EmptySeq
<1>4. \A u \in Threads : pc'[u] = "print" => u # t /\ pc[u] = "print" /\ printed'[u] = printed[u]
  BY <1>1, <1>2 DEF SequencesInv, MemoryInv, MemoryTypeOK
<1>5. PrintsFollow'
  BY <1>1, <1>3, <1>4 DEF SequencesInv, PrintsFollow, Shown
<1> QED
  BY <1>1, <1>5, ListsUntouchedKeepsSequences

\* The keeper changes its own lists, and walks over them.
LEMMA KeeperKeepsSequences ==
  ASSUME SequencesInv, MemoryInv', KeeperStep
  PROVE  SequencesInv'
<1> USE MemoryAssumption, ListAssumption
<1>1. PICK l \in Lists \ {m_memory_chunks} :
        \/ \E b \in usable, kind \in {"head", "tail"} : AppendNode(l, Item(b), kind)
        \/ \E b \in usable, p \in {NULL} \cup {Item(u) : u \in usable} : Insert(l, Item(b), p)
        \/ \E b \in usable : RemoveNode(l, Item(b))
        \/ WalkStart(l)
        \/ walk.over = l /\ (WalkStep \/ WalkEnd)
  BY DEF KeeperStep
<1>2. UNCHANGED memoryVars
  BY DEF KeeperStep
<1>3. ItemsInv
  BY DEF SequencesInv, ItemsInv, MemoryInv, MemoryTypeOK, ListInv
<1>4. \A b \in usable : Item(b) \in Nodes
  BY DEF SequencesInv, MemoryInv, MemoryTypeOK
<1>5. [ListNext]_listVars
  BY <1>1, <1>4 DEF ListNext
<1>6. ItemsInv'
  BY <1>3, <1>5, StepKeepsItems
<1>7. \E r : items' = [items EXCEPT ![l] = r]
  <2>1. ASSUME NEW n, NEW kind, AppendNode(l, n, kind) PROVE \E r : items' = [items EXCEPT ![l] = r]
    BY <2>1 DEF AppendNode, Sequence!Prepend, Sequence!AppendLast
  <2>2. ASSUME NEW n, NEW p, Insert(l, n, p) PROVE \E r : items' = [items EXCEPT ![l] = r]
    BY <2>2 DEF Insert, Sequence!Prepend, Sequence!InsertAfter
  <2>3. ASSUME NEW n, RemoveNode(l, n) PROVE \E r : items' = [items EXCEPT ![l] = r]
    BY <2>3 DEF RemoveNode, Sequence!Take
  <2>4. ASSUME items' = items PROVE \E r : items' = [items EXCEPT ![l] = r]
    <3>1. items = [items EXCEPT ![l] = items[l]]
      BY DEF SequencesInv, ItemsStand
    <3> QED
      BY <2>4, <3>1
  <2> QED
    BY <1>1, <2>1, <2>2, <2>3, <2>4 DEF WalkStart, WalkStep, WalkEnd
<1>8. items'[m_memory_chunks] = items[m_memory_chunks]
  BY <1>7 DEF SequencesInv, ItemsStand
<1>9. PrintsFollow'
  BY <1>2, <1>8, PrintsUntouched DEF memoryVars, SequencesInv
<1>10. walk'.over \in {walk.over, l, NULL}
  <2>1. walk \in [over : Lists \cup {NULL}, node : Nodes \cup {NULL},
                  visited : SUBSET Nodes, stayed : SUBSET Nodes, torn : BOOLEAN]
    BY DEF SequencesInv, WalkInv, WalkTyped
  <2>2. ASSUME NEW n, LeavesWalk(n) PROVE walk'.over = walk.over
    BY <2>1, <2>2 DEF LeavesWalk
  <2>3. ASSUME WalkStart(l) PROVE walk'.over = l
    BY <2>3 DEF WalkStart
  <2>4. ASSUME WalkStep PROVE walk'.over = walk.over
    BY <2>1, <2>4 DEF WalkStep
  <2>5. ASSUME WalkEnd PROVE walk'.over = NULL
    BY <2>5 DEF WalkEnd, NotWalking
  <2> QED
    BY <1>1, <2>2, <2>3, <2>4, <2>5 DEF AppendNode, Insert, RemoveNode
<1> QED
  BY <1>6, <1>9, <1>10 DEF SequencesInv, ItemsInv

-----------------------------------------------------------------------------
LEMMA InitEstablishesSequences == Init => SequencesInv
<1> SUFFICES ASSUME Init PROVE SequencesInv
  OBVIOUS
<1>1. MemoryInv
  BY MemoryInitInv
<1>2. ItemsInv
  BY InitEstablishesItems DEF Init
<1>3. walk.over # m_memory_chunks
  BY MemoryAssumption, ListAssumption DEF Init, ListInit, NotWalking
<1>4. PrintsFollow
  BY EmptySeq DEF Init, PrintsFollow
<1> QED
  BY <1>1, <1>2, <1>3, <1>4 DEF SequencesInv, ItemsInv

LEMMA StepKeepsSequences == SequencesInv /\ [Next]_vars => SequencesInv'
<1> SUFFICES ASSUME SequencesInv, [Next]_vars PROVE SequencesInv'
  OBVIOUS
<1>1. MemoryInv'
  BY MemoryStepKeepsInv DEF SequencesInv
<1>2. ASSUME UNCHANGED listVars, UNCHANGED <<printed, chunk>>,
             \A t \in Threads : pc'[t] = "print" => pc[t] = "print"
      PROVE  SequencesInv'
  <2>1. items'[m_memory_chunks] = items[m_memory_chunks]
    BY <1>2 DEF listVars
  <2>2. PrintsFollow'
    BY <1>2, <2>1, PrintsUntouched DEF SequencesInv
  <2> QED
    BY <1>1, <1>2, <2>2, ListsUntouchedKeepsSequences
<1>3. pc \in [Threads -> {"user", "sort", "malloc", "append", "registered",
                          "free", "remove", "removed", "release", "print"}]
  BY DEF SequencesInv, MemoryInv, MemoryTypeOK
<1>4. ASSUME NEW t \in Threads, NEW from, NEW to \in Allocating \cup Freeing \cup {"user"},
             Goto(t, from, to), UNCHANGED <<listVars, printed, chunk>>
      PROVE  SequencesInv'
  <2>1. to # "print"
    BY DEF Allocating, Freeing
  <2>2. \A u \in Threads : pc'[u] = "print" => pc[u] = "print"
    BY <1>3, <1>4, <2>1 DEF Goto
  <2> QED
    BY <1>2, <1>4, <2>2
<1>5. CASE UNCHANGED vars
  BY <1>2, <1>5 DEF vars, memoryVars
<1>6. CASE KeeperStep
  BY <1>1, <1>6, KeeperKeepsSequences
<1>7. ASSUME NEW t \in Threads, f_memory_malloc(t) PROVE SequencesInv'
  <2>1. ASSUME NEW b \in Blocks, MallocSucceeds(t, b) PROVE SequencesInv'
    BY <1>4, <2>1 DEF MallocSucceeds, Allocating
  <2>2. CASE MallocLocks(t)
    BY <1>4, <2>2 DEF MallocLocks, Lock, Allocating
  <2>3. CASE MallocRegisters(t)
    BY <1>1, <2>3, MallocRegistersKeepsSequences
  <2>4. CASE MallocReturns(t)
    BY <1>4, <2>4 DEF MallocReturns, Unlock
  <2> QED
    BY <1>7, <2>1, <2>2, <2>3, <2>4 DEF f_memory_malloc
<1>8. ASSUME NEW t \in Threads, ReallocCopies(t) PROVE SequencesInv'
  BY <1>4, <1>8 DEF ReallocCopies, Unlock, Freeing
<1>9. ASSUME NEW t \in Threads, f_memory_free(t) PROVE SequencesInv'
  <2>1. CASE FreeCalled(t)
    BY <1>4, <2>1 DEF FreeCalled, Freeing
  <2>2. CASE FreeLocks(t)
    BY <1>4, <2>2 DEF FreeLocks, Lock, Freeing
  <2>3. CASE FreeUnregisters(t)
    BY <1>1, <2>3, FreeUnregistersKeepsSequences
  <2>4. CASE FreeUnlocks(t)
    BY <1>4, <2>4 DEF FreeUnlocks, Unlock, Freeing
  <2>5. CASE FreeReleases(t)
    BY <1>4, <2>5 DEF FreeReleases
  <2> QED
    BY <1>9, <2>1, <2>2, <2>3, <2>4, <2>5 DEF f_memory_free
<1>10. ASSUME NEW t \in Threads, f_memory_print_plain(t) PROVE SequencesInv'
  BY <1>1, <1>10, PrintLocksKeepsSequences, PrintChunkKeepsSequences, PrintUnlocksKeepsSequences
  DEF f_memory_print_plain
<1> QED
  BY <1>5, <1>6, <1>7, <1>8, <1>9, <1>10 DEF Next

LEMMA SequencesInvHolds == Spec => []SequencesInv
BY InitEstablishesSequences, StepKeepsSequences, PTL DEF Spec

LEMMA SequencesAreWhole == SequencesInv => PrintIsWhole
<1> SUFFICES ASSUME SequencesInv, NEW t \in Threads, pc[t] = "print", chunk[t] = NULL
             PROVE  printed[t] = items[m_memory_chunks]
  BY DEF PrintIsWhole
<1>1. items[m_memory_chunks] \in Seq(Nodes)
  BY MemoryAssumption DEF SequencesInv, ItemsStand
<1>2. Shown(items[m_memory_chunks], printed[t], NULL)
  BY DEF SequencesInv, PrintsFollow
<1> QED
  BY <1>1, <1>2, PrintEnds

\* What f_memory_print_plain has shown when it ends is the registry: every block that is still
\* allocated, once and in order, whatever the other threads asked for in the meantime.
THEOREM PrintsAreWhole == Spec => []PrintIsWhole
BY SequencesAreWhole, SequencesInvHolds, PTL

\* The registry and the keeper's lists stand for their sequences with threads around them.
THEOREM SharedListsStandForItems == Spec => []StandsForItems
<1>1. SequencesInv => StandsForItems
  BY StandingIsEnough DEF SequencesInv
<1> QED
  BY <1>1, SequencesInvHolds, PTL

\* The keeper's walks are complete although its nodes lie in blocks that other threads allocate
\* and free around them.
THEOREM KeepersWalksAreComplete == Spec => []WalkIsComplete
<1>1. SequencesInv => WalkIsComplete
  BY SplittingIsEnough DEF SequencesInv
<1> QED
  BY <1>1, SequencesInvHolds, PTL

-----------------------------------------------------------------------------
(***************************************************************************)
(* The keeper sorts.  SortInv of ListProofs speaks about the list that is  *)
(* sorted only, and that is never the registry: so the other threads go on *)
(* around it, and the sort leaves theirs alone.                            *)
(***************************************************************************)
UsersInv ==
  /\ SequencesInv /\ SortInv
  /\ sorting # m_memory_chunks
  /\ Sorting <=> pc[Keeper] = "sort"

\* The keeper goes into the sort or comes back from it.
LEMMA SortingKeepsMemory ==
  ASSUME MemoryInv, ListInv', owner' = owner, OthersKeep,
         NEW from \in {"user", "sort"}, NEW to \in {"user", "sort"}, Goto(Keeper, from, to)
  PROVE  MemoryInv'
<1> USE MemoryAssumption, ListAssumption DEF MemoryInv, MemoryTypeOK, Goto, OthersKeep
<1>1. MemoryTypeOK' /\ LinksAgree'
  BY DEF ListInv
<1>2. Excluded'
  BY DEF Excluded, Holding
<1>3. Locals'
  BY DEF Locals, Allocating, Freeing
<1>4. OneKeeper'
  BY DEF OneKeeper, InFlight
<1>5. Registered'
  BY DEF Registered
<1> QED
  BY <1>1, <1>2, <1>3, <1>4, <1>5

LEMMA SortingKeepsPrints ==
  ASSUME MemoryInv, PrintsFollow, OthersKeep, items'[m_memory_chunks] = items[m_memory_chunks],
         NEW from, NEW to \in {"user", "sort"}, Goto(Keeper, from, to)
  PROVE  PrintsFollow'
<1>1. UNCHANGED <<printed, chunk>>
  BY DEF OthersKeep
<1>2. \A t \in Threads : pc'[t] = "print" => pc[t] = "print"
  BY DEF Goto, MemoryInv, MemoryTypeOK
<1> QED
  BY <1>1, <1>2, PrintsUntouched

LEMMA SequencesAreItems == SequencesInv => ItemsInv
BY DEF SequencesInv, MemoryInv, MemoryTypeOK, ItemsInv, ListInv

LEMMA KeeperCallsSort ==
  ASSUME UsersInv, NEW l \in Lists \ {m_memory_chunks}, SortCalled(l),
         Goto(Keeper, "user", "sort"), OthersKeep
  PROVE  UsersInv'
<1>1. ItemsInv /\ ItemsStand /\ MemoryInv /\ PrintsFollow
  BY SequencesAreItems DEF UsersInv, SequencesInv
<1>2. UNCHANGED listVars /\ sorting' = l
  BY DEF SortCalled
<1>3. owner' = owner /\ items' = items /\ ListInv'
  BY <1>1, <1>2, ListsUntouched DEF listVars, links
<1>4. MemoryInv'
  BY <1>1, <1>3, SortingKeepsMemory
<1>5. PrintsFollow'
  BY <1>1, <1>3, SortingKeepsPrints
<1>6. SequencesInv'
  BY <1>2, <1>4, <1>5, ListsUntouchedKeepsSequences DEF UsersInv
<1>7. SortInv'
  BY <1>1, CallKeepsSort DEF UsersInv
<1> QED
  BY <1>1, <1>2, <1>6, <1>7, MemoryAssumption, ListAssumption
  DEF UsersInv, Sorting, Goto, MemoryInv, MemoryTypeOK

LEMMA KeeperIsInSort ==
  ASSUME UsersInv, f_list_sort, UNCHANGED memoryVars
  PROVE  UsersInv'
<1>1. ItemsInv
  BY SequencesAreItems DEF UsersInv
<1>2. SortInv'
  BY <1>1, InnerStepKeepsSort DEF UsersInv
<1>3. UNCHANGED listVars /\ sorting' = sorting
  BY DEF f_list_sort, SortEntered, SplitMoves, SplitCuts, HalvesCalled, HalfReturned,
         MergePicks, MergeEnds, MergeLinks, TailMoves
<1>4. SequencesInv'
  BY <1>3, StepKeepsSequences DEF UsersInv, vars
<1> QED
  BY <1>2, <1>3, <1>4 DEF UsersInv, Sorting, memoryVars

LEMMA KeeperReturnsFromSort ==
  ASSUME UsersInv, SortReturns, Goto(Keeper, "sort", "user"), OthersKeep
  PROVE  UsersInv'
<1>1. ItemsInv /\ ItemsStand /\ MemoryInv /\ PrintsFollow /\ walk.over # m_memory_chunks
  BY SequencesAreItems DEF UsersInv, SequencesInv
<1>2. ItemsInv' /\ SortInv'
  BY <1>1, ReturnKeepsItems DEF UsersInv
<1>3. owner' = owner /\ sorting' = NULL /\ walk'.over = walk.over
  <2>1. walk' = [walk EXCEPT !.torn = @ \/ walk.over = sorting]
    BY DEF SortReturns
  <2>2. WalkTyped
    BY DEF UsersInv, SequencesInv, WalkInv
  <2> QED
    BY <2>1, <2>2 DEF SortReturns, WalkTyped
<1>4. sorting \in Lists
  <2>1. Sorting
    BY DEF UsersInv, Goto
  <2> QED
    BY <2>1 DEF UsersInv, SortInv, SortRuns
<1>5. items'[m_memory_chunks] = items[m_memory_chunks]
  <2>1. PICK l \in Lists : l = sorting /\ l # m_memory_chunks
    BY <1>4 DEF UsersInv
  <2>2. Sequence!StableSort(l, Key)
    BY <2>1 DEF SortReturns
  <2>3. PICK s : items' = [items EXCEPT ![l] = s]
    BY <1>1, <2>1, <2>2, SortsItems
  <2> QED
    BY <1>1, <2>1, <2>3, MemoryAssumption DEF ItemsStand
<1>6. MemoryInv'
  BY <1>1, <1>2, <1>3, SortingKeepsMemory DEF ItemsInv
<1>7. PrintsFollow'
  BY <1>1, <1>5, SortingKeepsPrints
<1>8. SequencesInv'
  BY <1>1, <1>2, <1>3, <1>6, <1>7 DEF SequencesInv, ItemsInv
<1> QED
  BY <1>1, <1>2, <1>3, <1>8, MemoryAssumption, ListAssumption
  DEF UsersInv, Sorting, Goto, MemoryInv, MemoryTypeOK

\* What the other threads do meanwhile is about the registry.
LEMMA OthersKeepTheList ==
  ASSUME UsersInv, Sorting, Next, sorting' = sorting
  PROVE  Sorted' = Sorted /\ items'[sorting] = items[sorting]
<1>1. sorting \in Lists \ {m_memory_chunks, NULL} /\ pc[Keeper] = "sort"
  BY ListAssumption DEF UsersInv, SortInv, SortRuns, Sorting
<1>2. items \in [Lists -> Seq(Nodes)]
  BY DEF UsersInv, SequencesInv, ItemsStand
<1>3. ~KeeperStep
  BY <1>1 DEF KeeperStep
<1>5. ASSUME NEW t \in Threads, MallocRegisters(t)
      PROVE  /\ items'[sorting] = items[sorting]
             /\ \A n \in Nodes : owner'[n] = sorting <=> owner[n] = sorting
  <2>1. owner[result[t]] = NULL /\ owner' = [owner EXCEPT ![result[t]] = m_memory_chunks]
    BY <1>5 DEF MallocRegisters, f_list_append, Owned
  <2>2. items' = [items EXCEPT ![m_memory_chunks] = <<result[t]>> \o @]
    BY <1>5 DEF MallocRegisters, Sequence!Prepend
  <2>3. owner \in [Nodes -> Lists \cup {NULL}]
    BY DEF UsersInv, SequencesInv, MemoryInv, MemoryTypeOK, TypeOK
  <2> QED
    BY <1>1, <1>2, <2>1, <2>2, <2>3
<1>6. ASSUME NEW t \in Threads, FreeUnregisters(t)
      PROVE  /\ items'[sorting] = items[sorting]
             /\ \A n \in Nodes : owner'[n] = sorting <=> owner[n] = sorting
  <2>1. owner[result[t]] = m_memory_chunks /\ owner' = [owner EXCEPT ![result[t]] = NULL]
    BY <1>6 DEF FreeUnregisters, f_list_remove
  <2>2. PICK r : items' = [items EXCEPT ![m_memory_chunks] = r]
    BY <1>6 DEF FreeUnregisters, Sequence!Take
  <2>3. owner \in [Nodes -> Lists \cup {NULL}]
    BY DEF UsersInv, SequencesInv, MemoryInv, MemoryTypeOK, TypeOK
  <2> QED
    BY <1>1, <1>2, <2>1, <2>2, <2>3
<1>7. ASSUME UNCHANGED listVars
      PROVE  /\ items'[sorting] = items[sorting]
             /\ \A n \in Nodes : owner'[n] = sorting <=> owner[n] = sorting
  BY <1>7 DEF listVars, links
<1>8. ASSUME NEW t \in Threads, f_memory_malloc(t) \/ ReallocCopies(t) \/ f_memory_free(t) \/ f_memory_print_plain(t)
      PROVE  \/ MallocRegisters(t) \/ FreeUnregisters(t) \/ UNCHANGED listVars
  BY <1>8 DEF f_memory_malloc, MallocSucceeds, MallocLocks, MallocReturns, ReallocCopies,
              f_memory_free, FreeCalled, FreeLocks, FreeUnlocks, FreeReleases,
              f_memory_print_plain, PrintLocks, PrintChunk, PrintUnlocks
<1>9. /\ items'[sorting] = items[sorting]
      /\ \A n \in Nodes : owner'[n] = sorting <=> owner[n] = sorting
  BY <1>3, <1>5, <1>6, <1>7, <1>8 DEF Next
<1> QED
  BY <1>9 DEF Sorted, Members

\* The sort stands still.
LEMMA AsideKeepsSort ==
  ASSUME SortRuns, UNCHANGED sortVars, Sorted' = Sorted, items'[sorting] = items[sorting]
  PROVE  SortRuns'
<1>1. /\ sorting' = sorting /\ forward' = forward /\ backward' = backward
      /\ calls' = calls /\ single_step' = single_step /\ twice_step' = twice_step
      /\ returned' = returned /\ last' = last
  BY DEF sortVars, heap
<1>2. PlaceOrder' = PlaceOrder /\ KeyOrder' = KeyOrder
  BY <1>1, OrdersStay, Zenon
<1> QED
  BY <1>1, <1>2 DEF SortRuns

LEMMA OthersKeepSort ==
  ASSUME UsersInv, Next, UNCHANGED sortVars
  PROVE  UsersInv'
<1>1. SequencesInv'
  BY StepKeepsSequences DEF UsersInv
<1>2. sorting' = sorting
  BY DEF sortVars
<1>3. pc'[Keeper] = "sort" <=> pc[Keeper] = "sort"
  <2> USE MemoryAssumption DEF UsersInv, SequencesInv, MemoryInv, MemoryTypeOK, Goto
  <2>1. ASSUME NEW t \in Threads, NEW from, NEW to, Goto(t, from, to), from # "sort", to # "sort"
        PROVE  pc'[Keeper] = "sort" <=> pc[Keeper] = "sort"
    BY <2>1
  <2>2. KeeperStep => pc' = pc
    BY DEF KeeperStep, memoryVars
  <2>3. ASSUME NEW t \in Threads, f_memory_malloc(t) \/ ReallocCopies(t) \/ f_memory_free(t) \/ f_memory_print_plain(t)
        PROVE  pc' = pc \/ \E from, to : Goto(t, from, to) /\ from # "sort" /\ to # "sort"
    BY <2>3 DEF f_memory_malloc, MallocSucceeds, MallocLocks, MallocRegisters, MallocReturns, ReallocCopies,
                f_memory_free, FreeCalled, FreeLocks, FreeUnregisters, FreeUnlocks, FreeReleases,
                f_memory_print_plain, PrintLocks, PrintChunk, PrintUnlocks, Lock, Unlock
  <2> QED
    BY <2>1, <2>2, <2>3 DEF Next
<1>4. CASE Sorting
  <2>1. SortRuns
    BY <1>4 DEF UsersInv, SortInv
  <2>2. Sorted' = Sorted /\ items'[sorting] = items[sorting]
    BY <1>2, <1>4, OthersKeepTheList
  <2>3. SortRuns'
    BY <2>1, <2>2, AsideKeepsSort
  <2> QED
    BY <1>1, <1>2, <1>3, <1>4, <2>3 DEF UsersInv, SortInv, Sorting
<1>5. CASE ~Sorting
  BY <1>1, <1>2, <1>3, <1>5 DEF UsersInv, SortInv, SortInit, Sorting, sortVars, heap
<1> QED
  BY <1>4, <1>5

LEMMA UsersStepKeepsInv == UsersInv /\ [UsersNext]_userVars => UsersInv'
<1> SUFFICES ASSUME UsersInv, [UsersNext]_userVars PROVE UsersInv'
  OBVIOUS
<1>1. CASE Next /\ UNCHANGED sortVars
  BY <1>1, OthersKeepSort
<1>2. CASE KeeperSorts
  BY <1>2, KeeperCallsSort, KeeperIsInSort, KeeperReturnsFromSort DEF KeeperSorts
<1>3. CASE UNCHANGED userVars
  <2>1. UNCHANGED vars /\ UNCHANGED sortVars
    BY <1>3 DEF userVars
  <2>2. SequencesInv'
    BY <2>1, StepKeepsSequences DEF UsersInv
  <2>3. /\ UNCHANGED listVars /\ owner' = owner /\ items' = items /\ pc' = pc /\ sorting' = sorting
    BY <2>1 DEF vars, listVars, links, memoryVars, sortVars
  <2>4. CASE Sorting
    <3>1. SortRuns /\ Sorted' = Sorted
      BY <2>3, <2>4 DEF UsersInv, SortInv, Sorted, Members
    <3>2. SortRuns'
      BY <2>1, <2>3, <3>1, AsideKeepsSort
    <3> QED
      BY <2>2, <2>3, <2>4, <3>2 DEF UsersInv, SortInv, Sorting
  <2>5. CASE ~Sorting
    BY <2>1, <2>2, <2>3, <2>5 DEF UsersInv, SortInv, SortInit, Sorting, sortVars, heap
  <2> QED
    BY <2>4, <2>5
<1> QED
  BY <1>1, <1>2, <1>3 DEF UsersNext

LEMMA UsersInvHolds == UsersSpec => []UsersInv
<1>1. UsersInit => UsersInv
  BY InitEstablishesSequences, MemoryAssumption, ListAssumption
  DEF UsersInit, UsersInv, SortInv, SortInit, Sorting, Init
<1> QED
  BY <1>1, UsersStepKeepsInv, PTL DEF UsersSpec

\* While other threads allocate, grow, free and print, the keeper sorts lists of any length, and
\* every sort ends with the links of the stable order.
THEOREM KeepersSortIsStable == UsersSpec => []MergeSortIsStable
<1>1. UsersInv => MergeSortIsStable
  BY SequencesAreItems, RunningIsEnough DEF UsersInv
<1> QED
  BY <1>1, UsersInvHolds, PTL

\* A keeper that sorts changes nothing for the others: the registry stays exact, a print reads live
\* blocks and is whole, and the lists keep their links, their sequences and their walks.
THEOREM SortingKeepsTheRegistry ==
  UsersSpec => [](/\ RegistryIsExact /\ PrintReadsLiveChunks /\ PrintIsWhole
                  /\ LinksAgree /\ StandsForItems /\ WalkIsComplete)
<1>1. UsersInv => /\ RegistryIsExact /\ PrintReadsLiveChunks /\ PrintIsWhole
                  /\ LinksAgree /\ StandsForItems /\ WalkIsComplete
  BY InvIsExact, InvReadsLive, SequencesAreWhole, StandingIsEnough, SplittingIsEnough
  DEF UsersInv, SequencesInv, MemoryInv
<1> QED
  BY <1>1, UsersInvHolds, PTL
=============================================================================
