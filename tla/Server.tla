------------------------------- MODULE Server -------------------------------
(***************************************************************************)
(* s_server (src/src/server.c): a listening socket, an accept thread that  *)
(* is the job of a runner, the queue of the connections it accepted, and   *)
(* the white and black lists it decides by.                                *)
(*                                                                         *)
(* The runner enters with the lifecycle Runner was shown to implement, and *)
(* with its stop flag.  A critical section of server->lock is one step,    *)
(* with the thread's own work that precedes it; between two of them the    *)
(* users may act.                                                          *)
(***************************************************************************)
EXTENDS AddressMatch, Sequences, SequencesExt

CONSTANTS
    Users,      \* threads that drain the queue, close connections, edit lists
    Owner,      \* the one that also initialises, runs, joins and frees
    Peers,      \* remote addresses
    Entries,    \* white and black list entries
    MaxSockets, \* bound: listening sockets created
    MaxRuns,    \* bound: accept threads launched
    MaxConns    \* bound: connections accepted

ASSUME OwnerAssumption == Owner \in Users
ASSUME ListsAssumption == Peers # {} /\ Peers \subseteq Addresses /\ Entries \subseteq Texts
ASSUME BoundsAssumption == {MaxSockets, MaxRuns, MaxConns} \subseteq Nat

VARIABLES
    phase, job, outcome, used,  \* the runner (JobLifecycle)
    interrupt_required,         \* its stop flag
    alive,                      \* "new", "ready", "freed"
    descriptor,                 \* server->descriptor, 0 for -1
    connections,                \* the queue
    white, black, arrays,       \* the lists, and whether they are allocated
    sockets, listening,         \* listening sockets: created so far, still open
    accepted, peer, open,       \* connections: accepted so far, from whom, still open
    owned,                      \* per user: the nodes it took and did not close
    pc,                         \* of the owner
    wpc, held,                  \* of the accept thread, and the connection it decides on
    verdicts,  \* what the lists have said of the held connection since its accept
    handed,    \* the nodes f_server_get_connection_node returned, in order
    stranded,  \* connections dropped because fcntl failed
    reopened   \* f_server_run was called while a socket was still there

runner   == <<phase, job, outcome, used>>
lists    == <<white, black, arrays>>
sockVars == <<sockets, listening, descriptor>>
connVars == <<accepted, peer, open>>
thread   == <<wpc, held, verdicts>>
ghosts   == <<handed, stranded, reopened>>
vars == <<runner, interrupt_required, alive, connections, lists, sockVars, connVars,
          owned, pc, thread, ghosts>>

Conns == 1..MaxConns
Runs  == 1..MaxRuns
Sockets == 1..MaxSockets
Active == {"launching", "running"}
Final  == {"completed", "interrupted"}

Lifecycle == INSTANCE JobLifecycle WITH
    Jobs <- Runs, Results <- {"NOICE", "SHIT_THREAD_INTERRUPTED"},
    Interrupted <- "SHIT_THREAD_INTERRUPTED"

Listed(p, list) == \E entry \in list : p_server_address_matches(p, entry)

\* What the lists say of a peer at one instant.
Allowed(p) == IF white = {} THEN ~Listed(p, black) ELSE Listed(p, white)

Init ==
    /\ Lifecycle!Init /\ job = 0 /\ interrupt_required = FALSE
    /\ alive = "new" /\ descriptor = 0 /\ connections = <<>>
    /\ white = {} /\ black = {} /\ arrays = FALSE
    /\ sockets = 0 /\ listening = {}
    /\ accepted = 0 /\ peer = [c \in Conns |-> CHOOSE p \in Peers : TRUE] /\ open = {}
    /\ owned = [u \in Users |-> {}]
    /\ pc = "out" /\ wpc = "none" /\ held = 0 /\ verdicts = {}
    /\ handed = <<>> /\ stranded = {} /\ reopened = FALSE

\* A call of the API, on a server that exists and that nobody is freeing.
Usable == alive = "ready" /\ pc \notin {"free_stop", "free_join", "free_drain"}

\* A failed f_server_initialize leaves a server nobody may use.
f_server_initialize ==
    /\ alive = "new" /\ alive' = "ready" /\ arrays' = TRUE
    /\ Lifecycle!Create
    /\ UNCHANGED <<interrupt_required, connections, white, black, sockVars, connVars,
                   owned, pc, thread, ghosts>>

-----------------------------------------------------------------------------
(* The lists.  An entry is added under the lock, in the first empty slot.  *)

Relist ==
    /\ UNCHANGED <<runner, interrupt_required, alive, connections, arrays, sockVars,
                   connVars, owned, pc, wpc, held, ghosts>>
    /\ verdicts' = verdicts \cup (IF held = 0 THEN {} ELSE {Allowed(peer[held])'})

f_server_append_to_whitelist(entry) ==
    Usable /\ white' = white \cup {entry} /\ UNCHANGED black /\ Relist

f_server_append_to_blacklist(entry) ==
    Usable /\ black' = black \cup {entry} /\ UNCHANGED white /\ Relist

-----------------------------------------------------------------------------
(* f_server_run: test the status, create the socket, run the runner.       *)

RunCheckSkipped ==  \* mutant: does not ask whether the accept thread is running
    /\ Usable /\ pc = "out" /\ pc' = "run_socket"
    /\ UNCHANGED <<runner, interrupt_required, alive, connections, lists, sockVars,
                   connVars, owned, thread, ghosts>>

\* SHIT_ALREADY_INITIALIZED, when the thread is running, changes nothing.
RunCheck ==
    /\ Usable /\ pc = "out" /\ phase \notin Active
    /\ pc' = "run_socket"
    /\ UNCHANGED <<runner, interrupt_required, alive, connections, lists, sockVars,
                   connVars, owned, thread, ghosts>>

\* f_socket_create_server stores what it got, or -1, over the old descriptor.
\* On port 0 it may succeed beside an older socket.
CreateServer ==
    /\ pc = "run_socket" /\ reopened' = (reopened \/ descriptor # 0)
    /\ \/ /\ sockets < MaxSockets
          /\ sockets' = sockets + 1 /\ descriptor' = sockets + 1
          /\ listening' = listening \cup {sockets + 1}
          /\ pc' = "run_launch"
       \/ descriptor' = 0 /\ pc' = "out" /\ UNCHANGED <<sockets, listening>>
    /\ UNCHANGED <<runner, interrupt_required, alive, connections, lists, connVars,
                   owned, thread, handed, stranded>>

\* f_runner_run joins the finished job, takes the idle runner, clears the flag.
RunCollect ==
    /\ pc = "run_launch" /\ Lifecycle!Collect
    /\ UNCHANGED <<interrupt_required, alive, connections, lists, sockVars, connVars,
                   owned, pc, thread, ghosts>>

RunLaunch ==
    /\ pc = "run_launch" /\ \E j \in Runs : j = job + 1 /\ Lifecycle!Launch(j)
    /\ interrupt_required' = FALSE /\ pc' = "run_create"
    /\ UNCHANGED <<alive, connections, lists, sockVars, connVars, owned, thread, ghosts>>

RunCreate ==
    /\ pc = "run_create" /\ wpc' = "start" /\ pc' = "out"
    /\ UNCHANGED <<runner, interrupt_required, alive, connections, lists, sockVars,
                   connVars, owned, held, verdicts, ghosts>>

RunCreateFails ==  \* SHIT_THREAD_FAILURE; the socket stays
    /\ pc = "run_create" /\ Lifecycle!GiveUp /\ pc' = "out"
    /\ UNCHANGED <<interrupt_required, alive, connections, lists, sockVars, connVars,
                   owned, thread, ghosts>>

f_server_run ==
    RunCheck \/ CreateServer \/ RunCollect \/ RunLaunch \/ RunCreate \/ RunCreateFails

\* f_runner_stop and f_runner_join on the server: "stopping it uses exactly
\* the API already introduced".  Nobody asks twice for the same job.
f_runner_stop ==
    /\ Usable /\ phase = "running" /\ ~interrupt_required
    /\ interrupt_required' = TRUE
    /\ UNCHANGED <<runner, alive, connections, lists, sockVars, connVars, owned, pc,
                   thread, ghosts>>

f_runner_join ==
    /\ Usable /\ pc = "out" /\ Lifecycle!Collect
    /\ UNCHANGED <<interrupt_required, alive, connections, lists, sockVars, connVars,
                   owned, pc, thread, ghosts>>

-----------------------------------------------------------------------------
(* p_server_run_callback: the accept thread.                               *)

Quiet == UNCHANGED <<alive, lists, sockVars, owned, pc, handed, reopened>>

ThreadStart ==
    /\ wpc = "start" /\ Lifecycle!Start /\ wpc' = "select"
    /\ UNCHANGED <<interrupt_required, connections, connVars, held, verdicts, stranded>>
    /\ Quiet

\* Nobody connects within the period, or accept fails.
SelectIdle ==
    /\ wpc = "select" /\ wpc' = "poll"
    /\ UNCHANGED <<runner, interrupt_required, connections, connVars, held, verdicts,
                   stranded>>
    /\ Quiet

\* select fails, on a signal for instance: the loop is left after the poll.
SelectFails ==
    /\ wpc = "select" /\ wpc' = "poll_broken"
    /\ UNCHANGED <<runner, interrupt_required, connections, connVars, held, verdicts,
                   stranded>>
    /\ Quiet

Accept(p) ==
    /\ wpc = "select" /\ descriptor \in listening /\ accepted < MaxConns
    /\ accepted' = accepted + 1 /\ held' = accepted + 1
    /\ peer' = [peer EXCEPT ![accepted + 1] = p]
    /\ open' = open \cup {accepted + 1}
    /\ verdicts' = {Allowed(p)}
    /\ wpc' = "white"
    /\ UNCHANGED <<runner, interrupt_required, connections, stranded>>
    /\ Quiet

\* The thread lets go of the connection, which is still in open', or not.
Drop(left) ==
    /\ open' = left /\ held' = 0 /\ verdicts' = {} /\ wpc' = "poll"
    /\ UNCHANGED <<runner, interrupt_required, connections, accepted, peer>>
    /\ Quiet

Decide(step) ==
    /\ wpc' = step
    /\ UNCHANGED <<runner, interrupt_required, connections, connVars, held, verdicts,
                   stranded>>
    /\ Quiet

WhiteList ==
    /\ wpc = "white"
    /\ \/ Listed(peer[held], white) /\ Decide("admit")
       \/ white = {} /\ Decide("black")
       \/ /\ white # {} /\ ~Listed(peer[held], white)
          /\ Drop(open \ {held}) /\ UNCHANGED stranded

BlackListIgnored ==  \* mutant: the black list is not looked at
    wpc = "black" /\ Decide("admit")

BlackList ==
    /\ wpc = "black"
    /\ \/ ~Listed(peer[held], black) /\ Decide("admit")
       \/ Listed(peer[held], black) /\ Drop(open \ {held}) /\ UNCHANGED stranded

\* fcntl fails: the descriptor is neither queued nor closed.
Strand ==
    /\ wpc = "admit" /\ Drop(open) /\ stranded' = stranded \cup {held}

NoMemory ==  \* d_malloc fails
    /\ wpc = "admit" /\ Drop(open \ {held}) /\ UNCHANGED stranded

Enqueue ==
    /\ wpc = "admit" /\ connections' = Append(connections, held)
    /\ held' = 0 /\ verdicts' = {} /\ wpc' = "poll"
    /\ UNCHANGED <<runner, interrupt_required, connVars, stranded>> /\ Quiet

PollBoth ==  \* mutant: leaves the loop only when stopped and broken
    /\ wpc \in {"poll", "poll_broken"}
    /\ IF wpc = "poll_broken" /\ interrupt_required
         THEN Lifecycle!Finish("SHIT_THREAD_INTERRUPTED") /\ wpc' = "none"
         ELSE wpc' = "select" /\ UNCHANGED runner
    /\ UNCHANGED <<interrupt_required, connections, connVars, held, verdicts, stranded>>
    /\ Quiet

\* d_runner_is_interrupt_required, then the condition of the loop.
Poll ==
    /\ wpc \in {"poll", "poll_broken"}
    /\ IF wpc = "poll_broken" \/ interrupt_required
         THEN /\ Lifecycle!Finish(IF interrupt_required THEN "SHIT_THREAD_INTERRUPTED"
                                                      ELSE "NOICE")
              /\ wpc' = "none"
         ELSE wpc' = "select" /\ UNCHANGED runner
    /\ UNCHANGED <<interrupt_required, connections, connVars, held, verdicts, stranded>>
    /\ Quiet

p_server_run_callback ==
    \/ ThreadStart \/ SelectIdle \/ SelectFails \/ (\E p \in Peers : Accept(p))
    \/ WhiteList \/ BlackList \/ Strand \/ NoMemory \/ Enqueue \/ Poll

-----------------------------------------------------------------------------
(* The users drain the queue and close what they took.                     *)

GetKeepsNode(u) ==  \* mutant: the node is returned but stays in the queue
    /\ Usable /\ connections # <<>>
    /\ owned' = [owned EXCEPT ![u] = @ \cup {Head(connections)}]
    /\ handed' = Append(handed, Head(connections))
    /\ UNCHANGED <<runner, interrupt_required, alive, connections, lists, sockVars,
                   connVars, pc, thread, stranded, reopened>>

f_server_get_connection_node(u) ==
    /\ Usable /\ connections # <<>>
    /\ owned' = [owned EXCEPT ![u] = @ \cup {Head(connections)}]
    /\ connections' = Tail(connections)
    /\ handed' = Append(handed, Head(connections))
    /\ UNCHANGED <<runner, interrupt_required, alive, lists, sockVars, connVars, pc,
                   thread, stranded, reopened>>

\* A node is the user's: it can be closed after f_server_free as well.
f_server_connection_free(u, c) ==
    /\ c \in owned[u]
    /\ open' = open \ {c} /\ owned' = [owned EXCEPT ![u] = @ \ {c}]
    /\ UNCHANGED <<runner, interrupt_required, alive, connections, lists, sockVars,
                   accepted, peer, pc, thread, ghosts>>

-----------------------------------------------------------------------------
(* f_server_free: stop, join, and only with a socket give everything back. *)

FreeCall ==
    /\ Usable /\ pc = "out" /\ pc' = "free_stop"
    /\ UNCHANGED <<runner, interrupt_required, alive, connections, lists, sockVars,
                   connVars, owned, thread, ghosts>>

FreeStop ==
    /\ pc = "free_stop" /\ phase # "launching"
    /\ interrupt_required' = (interrupt_required \/ phase = "running")
    /\ pc' = "free_join"
    /\ UNCHANGED <<runner, alive, connections, lists, sockVars, connVars, owned,
                   thread, ghosts>>

FreeJoin ==
    /\ pc = "free_join" /\ pc' = "free_drain"
    /\ \/ phase = "idle" /\ UNCHANGED runner
       \/ Lifecycle!Collect
    /\ UNCHANGED <<interrupt_required, alive, connections, lists, sockVars, connVars,
                   owned, thread, ghosts>>

FreeDrainFirst ==  \* mutant: closes only the head of the queue
    /\ pc = "free_drain" /\ pc' = "out" /\ alive' = "freed"
    /\ connections' = <<>> /\ arrays' = (arrays /\ descriptor = 0)
    /\ open' = open \ (IF connections = <<>> THEN {} ELSE {Head(connections)})
    /\ listening' = listening \ {descriptor} /\ descriptor' = 0
    /\ UNCHANGED <<runner, interrupt_required, white, black, sockets, accepted, peer,
                   owned, thread, ghosts>>

FreeDrain ==
    /\ pc = "free_drain" /\ pc' = "out" /\ alive' = "freed"
    /\ \/ /\ descriptor # 0
          /\ open' = open \ ToSet(connections) /\ connections' = <<>>
          /\ arrays' = FALSE
          /\ listening' = listening \ {descriptor} /\ descriptor' = 0
       \/ /\ descriptor = 0
          /\ UNCHANGED <<open, connections, arrays, listening, descriptor>>
    /\ UNCHANGED <<runner, interrupt_required, white, black, sockets, accepted, peer,
                   owned, thread, ghosts>>

f_server_free == FreeCall \/ FreeStop \/ FreeJoin \/ FreeDrain

-----------------------------------------------------------------------------
User(u) ==
    \/ f_server_get_connection_node(u)
    \/ \E c \in Conns : f_server_connection_free(u, c)

Next ==
    \/ f_server_initialize \/ f_server_run \/ f_runner_stop \/ f_runner_join
    \/ f_server_free \/ p_server_run_callback
    \/ \E entry \in Entries : f_server_append_to_whitelist(entry)
                              \/ f_server_append_to_blacklist(entry)
    \/ \E u \in Users : User(u)

Spec == Init /\ [][Next]_vars

(***************************************************************************)
(* Fairness: the accept thread always moves on, because select waits for   *)
(* d_server_frequency_sleep_milliseconds at most; so does an owner inside  *)
(* f_server_run or f_server_free.  Nobody has to connect or to call.       *)
(***************************************************************************)
Proceed ==
    \/ CreateServer \/ RunCollect \/ RunLaunch \/ RunCreate
    \/ FreeStop \/ FreeJoin \/ FreeDrain

FairSpec == Spec /\ WF_vars(p_server_run_callback) /\ WF_vars(Proceed)

-----------------------------------------------------------------------------
PCs == {"out", "run_socket", "run_launch", "run_create",
        "free_stop", "free_join", "free_drain"}

TypeOK ==
    /\ phase \in Active \cup Final \cup {"idle", "undefined"} /\ job \in 0..MaxRuns
    /\ interrupt_required \in BOOLEAN /\ alive \in {"new", "ready", "freed"}
    /\ descriptor \in {0} \cup listening /\ connections \in Seq(Conns)
    /\ white \subseteq Entries /\ black \subseteq Entries /\ arrays \in BOOLEAN
    /\ sockets \in 0..MaxSockets /\ listening \subseteq 1..sockets
    /\ accepted \in 0..MaxConns /\ peer \in [Conns -> Peers] /\ open \subseteq 1..accepted
    /\ owned \in [Users -> SUBSET Conns] /\ pc \in PCs
    /\ wpc \in {"none", "start", "select", "white", "black", "admit", "poll", "poll_broken"}
    /\ held \in 0..MaxConns /\ verdicts \subseteq BOOLEAN
    /\ handed \in Seq(Conns) /\ stranded \subseteq Conns /\ reopened \in BOOLEAN

\* "hands you ownership of the node and removes it from the internal queue in
\* one step; nothing is freed on your behalf": each open connection is held
\* exactly once, by the accept thread, the queue or one user, and what they
\* hold is open; only a failing fcntl loses one.  They are handed out in the order
\* they were accepted, never twice.
InUse == (IF held = 0 THEN {} ELSE {held}) \cup ToSet(connections)
            \cup UNION {owned[u] : u \in Users}

EveryConnectionHeld ==
    /\ TypeOK
    /\ open = InUse \cup stranded /\ InUse \cap stranded = {}
    /\ IsInjective(connections) /\ held \notin ToSet(connections)
    /\ \A u \in Users : owned[u] \cap ({held} \cup ToSet(connections)) = {}
    /\ \A u, v \in Users : u # v => owned[u] \cap owned[v] = {}
    /\ LET line == handed \o connections
       IN \A i, j \in 1..Len(line) : i < j => line[i] < line[j]

\* While the accept thread uses server->descriptor it is an open socket: no
\* f_server_run replaces it and f_server_free does not close it under it.
AcceptsOnOpenSocket ==
    /\ wpc # "none" => descriptor \in listening
    /\ alive = "freed" => wpc = "none"

\* f_server_free "closes every still-open connection it was holding onto, and
\* closes the listening socket itself", when it is the first socket.
FreeClosesAll ==
    alive = "freed" /\ ~reopened =>
        /\ connections = <<>> /\ listening = {}
        /\ open \subseteq stranded \cup UNION {owned[u] : u \in Users}

\* The same, whatever was called before.
FreeAlwaysClosesAll ==
    alive = "freed" => connections = <<>> /\ listening = {}

\* Every entry a list can hold matches exactly the addresses of the block it
\* stands for.  Nothing here depends on the state: the first one is enough.
EntriesMatchBlocks == alive = "new" => \A e \in Texts : MatchesTheBlock(e)

\* A peer gets into the queue only if, at some instant between its accept and
\* its queueing, the lists as they were then let it in; it is refused only when
\* they refused it at some instant, or when it is on the black list by now.  The
\* two lists are read in two critical sections and may be edited in between.
VerdictsAreJust ==
    [][/\ held # 0 /\ held \in ToSet(connections') => TRUE \in verdicts
       /\ (WhiteList \/ BlackList) /\ held' = 0
          => FALSE \in verdicts \/ Listed(peer[held], black)]_vars

\* A stop ends the accept thread, and f_server_free always comes to its end.
StopsTakeEffect ==
    /\ interrupt_required /\ phase = "running" ~> phase \notin Active
    /\ pc = "free_stop" ~> alive = "freed"

=============================================================================
