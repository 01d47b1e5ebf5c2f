----------------------------- MODULE ServerProofs -----------------------------
(***************************************************************************)
(* Theorems about Server, for any number of users, peers, list entries,    *)
(* sockets, runs and connections.                                          *)
(*                                                                         *)
(* What is held says nothing of the lists, and what is queued nothing of   *)
(* the socket: the invariant ties both to where the owner and the accept   *)
(* thread are.                                                             *)
(***************************************************************************)
EXTENDS Server, TLAPS, SequenceTheorems

\* Where the accept thread and the owner are tells the phase of the runner.
ControlInv ==
  /\ phase = "launching" => wpc = (IF pc = "run_create" THEN "none" ELSE "start")
  /\ phase = "running" => wpc \notin {"none", "start"}
  /\ phase \notin Active => wpc = "none"
  /\ pc = "run_create" => phase = "launching"
  /\ pc \in {"run_socket", "run_launch"} => phase \notin Active
  /\ pc = "free_drain" => phase = "idle"
  /\ pc # "out" => alive = "ready"
  /\ alive = "new" => phase = "undefined"
  /\ alive = "freed" => phase = "idle"

\* The socket is there from its creation on, and the first socket is the only one.
SocketInv ==
  /\ wpc # "none" \/ pc \in {"run_launch", "run_create"} => descriptor \in listening
  /\ alive = "freed" => descriptor = 0
  /\ ~reopened => /\ listening \subseteq {descriptor}
                  /\ descriptor = 0 => connections = <<>>

\* The connection in hand is the last one accepted; those before it went in order.
QueueInv ==
  /\ held # 0 <=> wpc \in {"white", "black", "admit"}
  /\ held # 0 => held = accepted
  /\ \A i \in 1 .. Len(handed \o connections) :
       (handed \o connections)[i] <= (IF held = 0 THEN accepted ELSE accepted - 1)

\* What the lists have said so far is what let the connection get where it is.
VerdictInv ==
  /\ held # 0 => Allowed(peer[held]) \in verdicts
  /\ wpc = "black" => Listed(peer[held], black) \/ TRUE \in verdicts
  /\ wpc = "admit" => TRUE \in verdicts

\* EveryConnectionHeld but for the types.
HoldInv ==
  /\ open = InUse \cup stranded /\ InUse \cap stranded = {}
  /\ IsInjective(connections) /\ held \notin ToSet(connections)
  /\ \A u \in Users : owned[u] \cap ({held} \cup ToSet(connections)) = {}
  /\ \A u, v \in Users : u # v => owned[u] \cap owned[v] = {}
  /\ LET line == handed \o connections
     IN \A i, j \in 1..Len(line) : i < j => line[i] < line[j]

ServerInv ==
  /\ TypeOK /\ HoldInv
  /\ ControlInv /\ SocketInv /\ QueueInv /\ VerdictInv

-----------------------------------------------------------------------------
(***************************************************************************)
(* Sequences of connections.                                               *)
(***************************************************************************)
\* Taking the head of the queue leaves the line of all accepted connections.
LEMMA LineKept ==
  ASSUME NEW S, NEW h \in Seq(S), NEW c \in Seq(S), c # <<>>
  PROVE  /\ Append(h, Head(c)) \o Tail(c) = h \o c
         /\ Append(h, Head(c)) \in Seq(S) /\ Tail(c) \in Seq(S) /\ Head(c) \in S
<1>1. /\ Len(c) \in Nat /\ Len(c) > 0 /\ Len(h) \in Nat
      /\ Len(Tail(c)) = Len(c) - 1
      /\ \A i \in 1 .. Len(c) - 1 : Tail(c)[i] = c[i + 1]
      /\ Head(c) = c[1]
  BY EmptySeq
<1>2. /\ Append(h, Head(c)) \in Seq(S) /\ Tail(c) \in Seq(S) /\ Head(c) \in S
      /\ Len(Append(h, Head(c))) = Len(h) + 1
      /\ \A i \in 1 .. Len(h) : Append(h, Head(c))[i] = h[i]
      /\ Append(h, Head(c))[Len(h) + 1] = Head(c)
  BY <1>1
<1>3. Len(Append(h, Head(c)) \o Tail(c)) = Len(h \o c)
  BY <1>1, <1>2
<1>4. ASSUME NEW i \in 1 .. Len(h \o c)
      PROVE  (Append(h, Head(c)) \o Tail(c))[i] = (h \o c)[i]
  BY <1>1, <1>2
<1> QED BY <1>2, <1>3, <1>4, SeqEqual

\* The members of a queue with one more, and of a queue without its head.
LEMMA QueueMembers ==
  ASSUME NEW S, NEW s \in Seq(S)
  PROVE  /\ \A e \in S : ToSet(Append(s, e)) = ToSet(s) \cup {e}
         /\ \A e \in S : IsInjective(s) /\ e \notin ToSet(s) => IsInjective(Append(s, e))
         /\ s # <<>> /\ IsInjective(s) => /\ ToSet(Tail(s)) = ToSet(s) \ {Head(s)}
                                         /\ Head(s) \in ToSet(s)
                                         /\ IsInjective(Tail(s))
         /\ ToSet(s) \subseteq S
<1>1. ASSUME NEW e \in S
      PROVE  /\ ToSet(Append(s, e)) = ToSet(s) \cup {e}
             /\ IsInjective(s) /\ e \notin ToSet(s) => IsInjective(Append(s, e))
  <2>1. /\ DOMAIN Append(s, e) = 1 .. Len(s) + 1 /\ DOMAIN s = 1 .. Len(s) /\ Len(s) \in Nat
        /\ \A i \in 1 .. Len(s) : Append(s, e)[i] = s[i]
        /\ Append(s, e)[Len(s) + 1] = e
    OBVIOUS
  <2>2. ToSet(Append(s, e)) = ToSet(s) \cup {e}
    BY <2>1 DEF ToSet
  <2> QED BY <2>1, <2>2 DEF IsInjective, ToSet
<1>2. ASSUME s # <<>>, IsInjective(s)
      PROVE  /\ ToSet(Tail(s)) = ToSet(s) \ {Head(s)}
             /\ Head(s) \in ToSet(s)
             /\ IsInjective(Tail(s))
  <2>1. /\ DOMAIN Tail(s) = 1 .. Len(s) - 1 /\ DOMAIN s = 1 .. Len(s) /\ Len(s) \in Nat
        /\ Len(s) > 0 /\ Head(s) = s[1]
        /\ \A i \in 1 .. Len(s) - 1 : Tail(s)[i] = s[i + 1]
    BY <1>2, EmptySeq
  <2>2. ToSet(Tail(s)) \subseteq ToSet(s) \ {Head(s)}
    BY <1>2, <2>1 DEF ToSet, IsInjective
  <2>3. ASSUME NEW i \in 1 .. Len(s), s[i] # Head(s)
        PROVE  s[i] \in ToSet(Tail(s))
    <3>1. i - 1 \in 1 .. Len(s) - 1 /\ Tail(s)[i - 1] = s[i]
      BY <2>1, <2>3
    <3> QED BY <2>1, <3>1 DEF ToSet
  <2>4. Head(s) \in ToSet(s)
    BY <2>1 DEF ToSet
  <2>5. IsInjective(Tail(s))
    BY <1>2, <2>1 DEF IsInjective
  <2> QED BY <2>1, <2>2, <2>3, <2>4, <2>5 DEF ToSet
<1>3. ToSet(s) \subseteq S
  BY DEF ToSet
<1> QED BY <1>1, <1>2, <1>3

\* A line that grows by a number above all of it stays increasing.
LEMMA LineGrows ==
  ASSUME NEW S \in SUBSET Int, NEW h \in Seq(S), NEW c \in Seq(S), NEW e \in S,
         \A i \in 1 .. Len(h \o c) : (h \o c)[i] < e,
         \A i, j \in 1 .. Len(h \o c) : i < j => (h \o c)[i] < (h \o c)[j]
  PROVE  /\ \A i \in 1 .. Len(h \o Append(c, e)) : (h \o Append(c, e))[i] <= e
         /\ \A i, j \in 1 .. Len(h \o Append(c, e)) :
              i < j => (h \o Append(c, e))[i] < (h \o Append(c, e))[j]
<1> DEFINE p == h \o c
           q == h \o Append(c, e)
<1>1. /\ Len(q) = Len(p) + 1 /\ Len(p) \in Nat
      /\ \A i \in 1 .. Len(p) : q[i] = p[i] /\ p[i] \in Int
      /\ q[Len(p) + 1] = e /\ e \in Int
  <2>1. /\ Append(c, e) \in Seq(S) /\ Len(Append(c, e)) = Len(c) + 1 /\ Append(c, e)[Len(c) + 1] = e
        /\ \A i \in 1 .. Len(c) : Append(c, e)[i] = c[i]
        /\ Len(c) \in Nat /\ Len(h) \in Nat
    OBVIOUS
  <2>2. p \in Seq(S) /\ Len(p) = Len(h) + Len(c)
        /\ \A i \in 1 .. Len(h) + Len(c) : p[i] = IF i <= Len(h) THEN h[i] ELSE c[i - Len(h)]
    BY ConcatProperties
  <2>3. Len(q) = Len(h) + Len(Append(c, e))
        /\ \A i \in 1 .. Len(h) + Len(Append(c, e)) :
             q[i] = IF i <= Len(h) THEN h[i] ELSE Append(c, e)[i - Len(h)]
    BY <2>1, ConcatProperties
  <2>4. \A i \in 1 .. Len(p) : p[i] \in S
    BY <2>2, ElementOfSeq
  <2> HIDE DEF p, q
  <2>5. ASSUME NEW i \in 1 .. Len(p) PROVE q[i] = p[i]
    <3>1. i \in 1 .. Len(h) + Len(c) /\ i \in 1 .. Len(h) + Len(Append(c, e))
      BY <2>1, <2>2
    <3>2. CASE i <= Len(h)
      BY <2>2, <2>3, <3>1, <3>2
    <3>3. CASE ~(i <= Len(h))
      <4>1. i - Len(h) \in 1 .. Len(c)
        BY <2>1, <3>1, <3>3
      <4> QED BY <2>1, <2>2, <2>3, <3>1, <3>3, <4>1
    <3> QED BY <3>2, <3>3
  <2>6. Len(q) = Len(p) + 1 /\ Len(p) \in Nat /\ q[Len(p) + 1] = e
    <3>1. Len(p) + 1 = Len(h) + Len(Append(c, e)) /\ Len(p) + 1 - Len(h) = Len(c) + 1
      BY <2>1, <2>2
    <3>2. Len(p) + 1 \in 1 .. Len(h) + Len(Append(c, e)) /\ ~(Len(p) + 1 <= Len(h))
      BY <2>1, <2>2, <3>1
    <3>3. q[Len(p) + 1] = Append(c, e)[Len(c) + 1]
      BY <2>3, <3>1, <3>2
    <3> QED BY <2>1, <2>2, <2>3, <3>1, <3>3
  <2> QED BY <2>4, <2>5, <2>6
<1>2. \A i \in 1 .. Len(p) : p[i] < e
  OBVIOUS
<1>3. \A i, j \in 1 .. Len(p) : i < j => p[i] < p[j]
  OBVIOUS
<1> HIDE DEF p, q
<1>4. \A i \in 1 .. Len(q) : q[i] <= e
  BY <1>1, <1>2
<1>5. \A i, j \in 1 .. Len(q) : i < j => q[i] < q[j]
  BY <1>1, <1>2, <1>3, SMTT(30)
<1> QED BY <1>4, <1>5 DEF p, q

\* What was handed out is the front of the line.
LEMMA LineFront ==
  ASSUME NEW S, NEW h \in Seq(S), NEW c \in Seq(S)
  PROVE  /\ h \o <<>> = h /\ Len(h) <= Len(h \o c)
         /\ \A i \in 1 .. Len(h) : h[i] = (h \o c)[i]
<1>1. h \o <<>> = h
  BY ConcatEmptySeq
<1> QED BY <1>1

-----------------------------------------------------------------------------
(***************************************************************************)
(* The owner, and stopping.                                                *)
(***************************************************************************)
\* The server is set up with an idle runner.
LEMMA f_server_initializeKeeps ==
  ASSUME ServerInv, f_server_initialize
  PROVE  ServerInv'
<1>1. TypeOK'
  BY DEF ServerInv, f_server_initialize, Lifecycle!Create, sockVars, connVars, thread, ghosts,
         TypeOK
<1>2. HoldInv'
  BY DEF ServerInv, f_server_initialize, Lifecycle!Create, sockVars, connVars, thread, ghosts,
         HoldInv, InUse
<1>3. ControlInv'
  BY DEF ServerInv, f_server_initialize, Lifecycle!Create, sockVars, connVars, thread, ghosts,
         ControlInv, Active
<1>4. SocketInv'
  BY DEF ServerInv, f_server_initialize, Lifecycle!Create, sockVars, connVars, thread, ghosts,
         SocketInv
<1>5. QueueInv'
  BY DEF ServerInv, f_server_initialize, Lifecycle!Create, sockVars, connVars, thread, ghosts,
         QueueInv
<1>6. VerdictInv'
  BY DEF ServerInv, f_server_initialize, Lifecycle!Create, sockVars, connVars, thread, ghosts,
         VerdictInv, Allowed, Listed
<1> QED BY <1>1, <1>2, <1>3, <1>4, <1>5, <1>6 DEF ServerInv

\* f_server_run goes on while no accept thread runs.
LEMMA RunCheckKeeps ==
  ASSUME ServerInv, RunCheck
  PROVE  ServerInv'
<1>1. TypeOK'
  BY DEF ServerInv, RunCheck, Usable, runner, lists, sockVars, connVars, thread, ghosts, TypeOK,
         PCs
<1>2. HoldInv'
  BY DEF ServerInv, RunCheck, Usable, runner, lists, sockVars, connVars, thread, ghosts, HoldInv,
         InUse
<1>3. ControlInv'
  BY DEF ServerInv, RunCheck, Usable, runner, lists, sockVars, connVars, thread, ghosts,
         ControlInv
<1>4. SocketInv'
  BY DEF ServerInv, RunCheck, Usable, runner, lists, sockVars, connVars, thread, ghosts, SocketInv
<1>5. QueueInv'
  BY DEF ServerInv, RunCheck, Usable, runner, lists, sockVars, connVars, thread, ghosts, QueueInv
<1>6. VerdictInv'
  BY DEF ServerInv, RunCheck, Usable, runner, lists, sockVars, connVars, thread, ghosts,
         VerdictInv, Allowed, Listed
<1> QED BY <1>1, <1>2, <1>3, <1>4, <1>5, <1>6 DEF ServerInv

\* The socket is created over the field, or is not.
LEMMA CreateServerKeeps ==
  ASSUME ServerInv, CreateServer
  PROVE  ServerInv'
<1>1. TypeOK'
  <2>1. CASE /\ sockets < MaxSockets /\ sockets' = sockets + 1 /\ descriptor' = sockets + 1
             /\ listening' = listening \cup {sockets + 1} /\ pc' = "run_launch"
    <3>1. sockets' \in 0 .. MaxSockets /\ listening' \subseteq 1 .. sockets'
      BY <2>1, BoundsAssumption DEF ServerInv, TypeOK
    <3> QED BY <2>1, <3>1 DEF CreateServer, runner, lists, connVars, thread, ServerInv, TypeOK, PCs
  <2>2. CASE descriptor' = 0 /\ pc' = "out" /\ UNCHANGED <<sockets, listening>>
    BY <2>2 DEF CreateServer, runner, lists, connVars, thread, ServerInv, TypeOK, PCs
  <2> QED BY <2>1, <2>2 DEF CreateServer
<1>2. HoldInv'
  BY DEF ServerInv, CreateServer, runner, lists, connVars, thread, HoldInv, InUse
<1>3. ControlInv'
  BY DEF ServerInv, CreateServer, runner, lists, connVars, thread, ControlInv
<1>4. SocketInv'
  <2>1. wpc = "none" /\ listening \subseteq 1 .. sockets /\ sockets \in Nat
    BY DEF CreateServer, ServerInv, ControlInv, TypeOK, Active
  <2>2. alive # "freed" /\ UNCHANGED <<wpc, alive, connections>>
    BY DEF CreateServer, ServerInv, ControlInv, thread
  <2>3. ASSUME ~reopened'
        PROVE  ~reopened /\ descriptor = 0 /\ listening = {} /\ connections = <<>>
    <3>1. reopened' = (reopened \/ descriptor # 0)
      BY DEF CreateServer
    <3>2. ~reopened /\ descriptor = 0
      BY <2>3, <3>1
    <3>3. connections = <<>> /\ listening \subseteq {0}
      BY <3>2 DEF ServerInv, SocketInv
    <3>4. 0 \notin listening
      BY <2>1
    <3> QED BY <3>2, <3>3, <3>4
  <2>4. CASE /\ sockets' = sockets + 1 /\ descriptor' = sockets + 1
             /\ listening' = listening \cup {sockets + 1}
    <3>1. descriptor' \in listening' /\ descriptor' # 0
      BY <2>1, <2>4
    <3>2. ~reopened' => listening' \subseteq {descriptor'}
      BY <2>3, <2>4
    <3> QED BY <2>2, <3>1, <3>2 DEF ServerInv, SocketInv
  <2>5. CASE descriptor' = 0 /\ pc' = "out" /\ UNCHANGED <<sockets, listening>>
    BY <2>1, <2>2, <2>3, <2>5 DEF ServerInv, SocketInv
  <2> QED BY <2>4, <2>5 DEF CreateServer
<1>5. QueueInv'
  BY DEF ServerInv, CreateServer, runner, lists, connVars, thread, QueueInv
<1>6. VerdictInv'
  BY DEF ServerInv, CreateServer, runner, lists, connVars, thread, VerdictInv, Allowed, Listed
<1> QED BY <1>1, <1>2, <1>3, <1>4, <1>5, <1>6 DEF ServerInv

\* The runner takes in the finished accept thread.
LEMMA RunCollectKeeps ==
  ASSUME ServerInv, RunCollect
  PROVE  ServerInv'
<1>1. TypeOK'
  BY DEF ServerInv, RunCollect, Lifecycle!Collect, lists, sockVars, connVars, thread, ghosts,
         TypeOK
<1>2. HoldInv'
  BY DEF ServerInv, RunCollect, Lifecycle!Collect, lists, sockVars, connVars, thread, ghosts,
         HoldInv, InUse
<1>3. ControlInv'
  BY DEF ServerInv, RunCollect, Lifecycle!Collect, lists, sockVars, connVars, thread, ghosts,
         ControlInv, Active
<1>4. SocketInv'
  BY DEF ServerInv, RunCollect, Lifecycle!Collect, lists, sockVars, connVars, thread, ghosts,
         SocketInv
<1>5. QueueInv'
  BY DEF ServerInv, RunCollect, Lifecycle!Collect, lists, sockVars, connVars, thread, ghosts,
         QueueInv
<1>6. VerdictInv'
  BY DEF ServerInv, RunCollect, Lifecycle!Collect, lists, sockVars, connVars, thread, ghosts,
         VerdictInv, Allowed, Listed
<1> QED BY <1>1, <1>2, <1>3, <1>4, <1>5, <1>6 DEF ServerInv

\* The runner is taken for a new accept thread.
LEMMA RunLaunchKeeps ==
  ASSUME ServerInv, RunLaunch
  PROVE  ServerInv'
<1>1. TypeOK'
  <2>1. phase' = "launching" /\ job' \in 1 .. MaxRuns
    BY DEF RunLaunch, Lifecycle!Launch, Runs
  <2>2. job' \in 0 .. MaxRuns /\ interrupt_required' = FALSE /\ pc' = "run_create"
    BY <2>1, BoundsAssumption DEF RunLaunch
  <2>3. /\ UNCHANGED <<alive, descriptor, connections, white, black, arrays, sockets, listening>>
        /\ UNCHANGED <<accepted, peer, open, owned, wpc, held, verdicts>>
        /\ UNCHANGED <<handed, stranded, reopened>>
    BY DEF RunLaunch, lists, sockVars, connVars, thread, ghosts
  <2> QED BY <2>1, <2>2, <2>3 DEF ServerInv, TypeOK, PCs, Active
<1>2. HoldInv'
  BY DEF ServerInv, RunLaunch, Lifecycle!Launch, Runs, lists, sockVars, connVars, thread, ghosts,
         HoldInv, InUse
<1>3. ControlInv'
  BY DEF ServerInv, RunLaunch, Lifecycle!Launch, Runs, lists, sockVars, connVars, thread, ghosts,
         ControlInv
<1>4. SocketInv'
  BY DEF ServerInv, RunLaunch, Lifecycle!Launch, Runs, lists, sockVars, connVars, thread, ghosts,
         SocketInv
<1>5. QueueInv'
  BY DEF ServerInv, RunLaunch, Lifecycle!Launch, Runs, lists, sockVars, connVars, thread, ghosts,
         QueueInv
<1>6. VerdictInv'
  BY DEF ServerInv, RunLaunch, Lifecycle!Launch, Runs, lists, sockVars, connVars, thread, ghosts,
         VerdictInv, Allowed, Listed
<1> QED BY <1>1, <1>2, <1>3, <1>4, <1>5, <1>6 DEF ServerInv

\* The accept thread exists.
LEMMA RunCreateKeeps ==
  ASSUME ServerInv, RunCreate
  PROVE  ServerInv'
<1>1. TypeOK'
  BY DEF ServerInv, RunCreate, runner, lists, sockVars, connVars, ghosts, TypeOK, PCs
<1>2. HoldInv'
  BY DEF ServerInv, RunCreate, runner, lists, sockVars, connVars, ghosts, HoldInv, InUse
<1>3. ControlInv'
  BY DEF ServerInv, RunCreate, runner, lists, sockVars, connVars, ghosts, ControlInv, Active
<1>4. SocketInv'
  BY DEF ServerInv, RunCreate, runner, lists, sockVars, connVars, ghosts, SocketInv
<1>5. QueueInv'
  BY DEF ServerInv, RunCreate, runner, lists, sockVars, connVars, ghosts, QueueInv, ControlInv,
         Active
<1>6. VerdictInv'
  BY DEF ServerInv, RunCreate, runner, lists, sockVars, connVars, ghosts, VerdictInv, Allowed,
         Listed
<1> QED BY <1>1, <1>2, <1>3, <1>4, <1>5, <1>6 DEF ServerInv

\* The accept thread could not be created.
LEMMA RunCreateFailsKeeps ==
  ASSUME ServerInv, RunCreateFails
  PROVE  ServerInv'
<1>1. TypeOK'
  BY DEF ServerInv, RunCreateFails, Lifecycle!GiveUp, lists, sockVars, connVars, thread, ghosts,
         TypeOK, PCs
<1>2. HoldInv'
  BY DEF ServerInv, RunCreateFails, Lifecycle!GiveUp, lists, sockVars, connVars, thread, ghosts,
         HoldInv, InUse
<1>3. ControlInv'
  BY DEF ServerInv, RunCreateFails, Lifecycle!GiveUp, lists, sockVars, connVars, thread, ghosts,
         ControlInv
<1>4. SocketInv'
  BY DEF ServerInv, RunCreateFails, Lifecycle!GiveUp, lists, sockVars, connVars, thread, ghosts,
         SocketInv
<1>5. QueueInv'
  BY DEF ServerInv, RunCreateFails, Lifecycle!GiveUp, lists, sockVars, connVars, thread, ghosts,
         QueueInv
<1>6. VerdictInv'
  BY DEF ServerInv, RunCreateFails, Lifecycle!GiveUp, lists, sockVars, connVars, thread, ghosts,
         VerdictInv, Allowed, Listed
<1> QED BY <1>1, <1>2, <1>3, <1>4, <1>5, <1>6 DEF ServerInv

\* A stop is asked for.
LEMMA f_runner_stopKeeps ==
  ASSUME ServerInv, f_runner_stop
  PROVE  ServerInv'
<1>1. TypeOK'
  BY DEF ServerInv, f_runner_stop, runner, lists, sockVars, connVars, thread, ghosts, TypeOK
<1>2. HoldInv'
  BY DEF ServerInv, f_runner_stop, runner, lists, sockVars, connVars, thread, ghosts, HoldInv,
         InUse
<1>3. ControlInv'
  BY DEF ServerInv, f_runner_stop, runner, lists, sockVars, connVars, thread, ghosts, ControlInv
<1>4. SocketInv'
  BY DEF ServerInv, f_runner_stop, runner, lists, sockVars, connVars, thread, ghosts, SocketInv
<1>5. QueueInv'
  BY DEF ServerInv, f_runner_stop, runner, lists, sockVars, connVars, thread, ghosts, QueueInv
<1>6. VerdictInv'
  BY DEF ServerInv, f_runner_stop, runner, lists, sockVars, connVars, thread, ghosts, VerdictInv,
         Allowed, Listed
<1> QED BY <1>1, <1>2, <1>3, <1>4, <1>5, <1>6 DEF ServerInv

\* The finished thread is joined.
LEMMA f_runner_joinKeeps ==
  ASSUME ServerInv, f_runner_join
  PROVE  ServerInv'
<1>1. TypeOK'
  BY DEF ServerInv, f_runner_join, Lifecycle!Collect, lists, sockVars, connVars, thread, ghosts,
         TypeOK
<1>2. HoldInv'
  BY DEF ServerInv, f_runner_join, Lifecycle!Collect, lists, sockVars, connVars, thread, ghosts,
         HoldInv, InUse
<1>3. ControlInv'
  BY DEF ServerInv, f_runner_join, Lifecycle!Collect, lists, sockVars, connVars, thread, ghosts,
         ControlInv, Active
<1>4. SocketInv'
  BY DEF ServerInv, f_runner_join, Lifecycle!Collect, lists, sockVars, connVars, thread, ghosts,
         SocketInv
<1>5. QueueInv'
  BY DEF ServerInv, f_runner_join, Lifecycle!Collect, lists, sockVars, connVars, thread, ghosts,
         QueueInv
<1>6. VerdictInv'
  BY DEF ServerInv, f_runner_join, Lifecycle!Collect, lists, sockVars, connVars, thread, ghosts,
         VerdictInv, Allowed, Listed
<1> QED BY <1>1, <1>2, <1>3, <1>4, <1>5, <1>6 DEF ServerInv

\* f_server_free is entered.
LEMMA FreeCallKeeps ==
  ASSUME ServerInv, FreeCall
  PROVE  ServerInv'
<1>1. TypeOK'
  BY DEF ServerInv, FreeCall, Usable, runner, lists, sockVars, connVars, thread, ghosts, TypeOK,
         PCs
<1>2. HoldInv'
  BY DEF ServerInv, FreeCall, Usable, runner, lists, sockVars, connVars, thread, ghosts, HoldInv,
         InUse
<1>3. ControlInv'
  BY DEF ServerInv, FreeCall, Usable, runner, lists, sockVars, connVars, thread, ghosts,
         ControlInv
<1>4. SocketInv'
  BY DEF ServerInv, FreeCall, Usable, runner, lists, sockVars, connVars, thread, ghosts, SocketInv
<1>5. QueueInv'
  BY DEF ServerInv, FreeCall, Usable, runner, lists, sockVars, connVars, thread, ghosts, QueueInv
<1>6. VerdictInv'
  BY DEF ServerInv, FreeCall, Usable, runner, lists, sockVars, connVars, thread, ghosts,
         VerdictInv, Allowed, Listed
<1> QED BY <1>1, <1>2, <1>3, <1>4, <1>5, <1>6 DEF ServerInv

\* It stops the accept thread.
LEMMA FreeStopKeeps ==
  ASSUME ServerInv, FreeStop
  PROVE  ServerInv'
<1>1. TypeOK'
  BY DEF ServerInv, FreeStop, runner, lists, sockVars, connVars, thread, ghosts, TypeOK, PCs
<1>2. HoldInv'
  BY DEF ServerInv, FreeStop, runner, lists, sockVars, connVars, thread, ghosts, HoldInv, InUse
<1>3. ControlInv'
  BY DEF ServerInv, FreeStop, runner, lists, sockVars, connVars, thread, ghosts, ControlInv
<1>4. SocketInv'
  BY DEF ServerInv, FreeStop, runner, lists, sockVars, connVars, thread, ghosts, SocketInv
<1>5. QueueInv'
  BY DEF ServerInv, FreeStop, runner, lists, sockVars, connVars, thread, ghosts, QueueInv
<1>6. VerdictInv'
  BY DEF ServerInv, FreeStop, runner, lists, sockVars, connVars, thread, ghosts, VerdictInv,
         Allowed, Listed
<1> QED BY <1>1, <1>2, <1>3, <1>4, <1>5, <1>6 DEF ServerInv

\* It waits for the accept thread.
LEMMA FreeJoinKeeps ==
  ASSUME ServerInv, FreeJoin
  PROVE  ServerInv'
<1>1. TypeOK'
  BY DEF ServerInv, FreeJoin, Lifecycle!Collect, runner, lists, sockVars, connVars, thread,
         ghosts, TypeOK, PCs
<1>2. HoldInv'
  BY DEF ServerInv, FreeJoin, Lifecycle!Collect, runner, lists, sockVars, connVars, thread,
         ghosts, HoldInv, InUse
<1>3. ControlInv'
  BY DEF ServerInv, FreeJoin, Lifecycle!Collect, runner, lists, sockVars, connVars, thread,
         ghosts, ControlInv, Active
<1>4. SocketInv'
  BY DEF ServerInv, FreeJoin, Lifecycle!Collect, runner, lists, sockVars, connVars, thread,
         ghosts, SocketInv
<1>5. QueueInv'
  BY DEF ServerInv, FreeJoin, Lifecycle!Collect, runner, lists, sockVars, connVars, thread,
         ghosts, QueueInv
<1>6. VerdictInv'
  BY DEF ServerInv, FreeJoin, Lifecycle!Collect, runner, lists, sockVars, connVars, thread,
         ghosts, VerdictInv, Allowed, Listed
<1> QED BY <1>1, <1>2, <1>3, <1>4, <1>5, <1>6 DEF ServerInv

-----------------------------------------------------------------------------
(***************************************************************************)
(* The accept thread.                                                      *)
(***************************************************************************)
\* The thread begins.
LEMMA ThreadStartKeeps ==
  ASSUME ServerInv, ThreadStart
  PROVE  ServerInv'
<1>1. TypeOK'
  BY DEF ServerInv, ThreadStart, Quiet, Lifecycle!Start, lists, sockVars, connVars, TypeOK, PCs,
         Active, Final
<1>2. HoldInv'
  BY DEF ServerInv, ThreadStart, Quiet, Lifecycle!Start, lists, sockVars, connVars, HoldInv, InUse
<1>3. ControlInv'
  BY DEF ServerInv, ThreadStart, Quiet, Lifecycle!Start, lists, sockVars, connVars, ControlInv,
         Active
<1>4. SocketInv'
  BY DEF ServerInv, ThreadStart, Quiet, Lifecycle!Start, lists, sockVars, connVars, SocketInv
<1>5. QueueInv'
  BY DEF ServerInv, ThreadStart, Quiet, Lifecycle!Start, lists, sockVars, connVars, QueueInv
<1>6. VerdictInv'
  BY DEF ServerInv, ThreadStart, Quiet, Lifecycle!Start, lists, sockVars, connVars, VerdictInv,
         Allowed, Listed
<1> QED BY <1>1, <1>2, <1>3, <1>4, <1>5, <1>6 DEF ServerInv

\* select gives nothing.
LEMMA SelectIdleKeeps ==
  ASSUME ServerInv, SelectIdle
  PROVE  ServerInv'
<1>1. TypeOK'
  BY DEF ServerInv, SelectIdle, Quiet, runner, lists, sockVars, connVars, TypeOK
<1>2. HoldInv'
  BY DEF ServerInv, SelectIdle, Quiet, runner, lists, sockVars, connVars, HoldInv, InUse
<1>3. ControlInv'
  BY DEF ServerInv, SelectIdle, Quiet, runner, lists, sockVars, connVars, ControlInv
<1>4. SocketInv'
  BY DEF ServerInv, SelectIdle, Quiet, runner, lists, sockVars, connVars, SocketInv
<1>5. QueueInv'
  BY DEF ServerInv, SelectIdle, Quiet, runner, lists, sockVars, connVars, QueueInv
<1>6. VerdictInv'
  BY DEF ServerInv, SelectIdle, Quiet, runner, lists, sockVars, connVars, VerdictInv, Allowed,
         Listed
<1> QED BY <1>1, <1>2, <1>3, <1>4, <1>5, <1>6 DEF ServerInv

\* select fails.
LEMMA SelectFailsKeeps ==
  ASSUME ServerInv, SelectFails
  PROVE  ServerInv'
<1>1. TypeOK'
  BY DEF ServerInv, SelectFails, Quiet, runner, lists, sockVars, connVars, TypeOK
<1>2. HoldInv'
  BY DEF ServerInv, SelectFails, Quiet, runner, lists, sockVars, connVars, HoldInv, InUse
<1>3. ControlInv'
  BY DEF ServerInv, SelectFails, Quiet, runner, lists, sockVars, connVars, ControlInv
<1>4. SocketInv'
  BY DEF ServerInv, SelectFails, Quiet, runner, lists, sockVars, connVars, SocketInv
<1>5. QueueInv'
  BY DEF ServerInv, SelectFails, Quiet, runner, lists, sockVars, connVars, QueueInv
<1>6. VerdictInv'
  BY DEF ServerInv, SelectFails, Quiet, runner, lists, sockVars, connVars, VerdictInv, Allowed,
         Listed
<1> QED BY <1>1, <1>2, <1>3, <1>4, <1>5, <1>6 DEF ServerInv

\* The thread polls its stop flag, and goes on or ends.
LEMMA PollKeeps ==
  ASSUME ServerInv, Poll
  PROVE  ServerInv'
<1>1. TypeOK'
  BY DEF ServerInv, Poll, Quiet, Lifecycle!Finish, runner, lists, sockVars, connVars, TypeOK, PCs,
         Active, Final
<1>2. HoldInv'
  BY DEF ServerInv, Poll, Quiet, Lifecycle!Finish, runner, lists, sockVars, connVars, HoldInv,
         InUse
<1>3. ControlInv'
  BY DEF ServerInv, Poll, Quiet, Lifecycle!Finish, runner, lists, sockVars, connVars, ControlInv
<1>4. SocketInv'
  BY DEF ServerInv, Poll, Quiet, Lifecycle!Finish, runner, lists, sockVars, connVars, SocketInv
<1>5. QueueInv'
  BY DEF ServerInv, Poll, Quiet, Lifecycle!Finish, runner, lists, sockVars, connVars, QueueInv
<1>6. VerdictInv'
  BY DEF ServerInv, Poll, Quiet, Lifecycle!Finish, runner, lists, sockVars, connVars, VerdictInv,
         Allowed, Listed
<1> QED BY <1>1, <1>2, <1>3, <1>4, <1>5, <1>6 DEF ServerInv

\* A peer connects, and the lists say what they think of it.
LEMMA AcceptKeeps ==
  ASSUME ServerInv, NEW p \in Peers, Accept(p)
  PROVE  ServerInv'
<1>1. TypeOK'
  <2>1. accepted' \in 1 .. MaxConns /\ held' = accepted' /\ open' \subseteq 1 .. accepted'
        /\ peer' \in [Conns -> Peers] /\ accepted' \in 0 .. MaxConns /\ held' \in 0 .. MaxConns
    BY BoundsAssumption DEF Accept, ServerInv, TypeOK, Conns
  <2>2. wpc' = "white" /\ verdicts' \subseteq BOOLEAN
    BY DEF Accept, Allowed, Listed
  <2> QED BY <2>1, <2>2 DEF Accept, Quiet, runner, lists, sockVars, ServerInv, TypeOK
<1>2. HoldInv'
  <2>1. /\ held = 0 /\ held' = accepted + 1 /\ open' = open \cup {accepted + 1}
        /\ accepted + 1 \notin open /\ accepted + 1 # 0
        /\ UNCHANGED <<connections, handed, owned, stranded>>
    BY DEF Accept, Quiet, ServerInv, QueueInv, TypeOK
  <2>2. accepted + 1 \notin ToSet(connections) /\ accepted + 1 \notin stranded
        /\ \A u \in Users : accepted + 1 \notin owned[u]
    BY <2>1 DEF ServerInv, HoldInv, InUse
  <2>3. InUse' = InUse \cup {accepted + 1}
    BY <2>1 DEF InUse
  <2> QED BY <2>1, <2>2, <2>3 DEF ServerInv, HoldInv
<1>3. ControlInv'
  BY DEF ServerInv, Accept, Quiet, runner, lists, sockVars, ControlInv
<1>4. SocketInv'
  BY DEF ServerInv, Accept, Quiet, runner, lists, sockVars, SocketInv
<1>5. QueueInv'
  BY DEF ServerInv, Accept, Quiet, runner, lists, sockVars, QueueInv, TypeOK, ControlInv, Active
<1>6. VerdictInv'
  <2>1. /\ wpc' = "white" /\ held' = accepted + 1 /\ verdicts' = {Allowed(p)}
        /\ peer' = [peer EXCEPT ![accepted + 1] = p] /\ UNCHANGED <<white, black>>
    BY DEF Accept, Quiet, lists
  <2>2. peer'[held'] = p
    BY <2>1, BoundsAssumption DEF Accept, ServerInv, TypeOK, Conns
  <2>3. Allowed(peer[held])' = Allowed(p)
    BY <2>1, <2>2 DEF Allowed, Listed
  <2> QED BY <2>1, <2>3 DEF VerdictInv
<1> QED BY <1>1, <1>2, <1>3, <1>4, <1>5, <1>6 DEF ServerInv

\* What holds while the thread decides on a connection.
LEMMA Deciding ==
  ASSUME ServerInv, wpc \in {"white", "black", "admit"}
  PROVE  /\ held \in Conns /\ held # 0 /\ held = accepted /\ accepted \in Nat /\ MaxConns \in Nat
         /\ held \in open /\ held \notin stranded /\ held \notin ToSet(connections)
         /\ \A u \in Users : held \notin owned[u]
         /\ phase = "running" /\ pc # "run_create" /\ phase \in Active
<1>1. held # 0 /\ held = accepted
  BY DEF ServerInv, QueueInv
<1>2. held \in Conns /\ accepted \in Nat /\ MaxConns \in Nat
  BY <1>1, BoundsAssumption DEF ServerInv, TypeOK, Conns
<1>3. phase = "running" /\ phase \in Active /\ pc # "run_create"
  BY DEF ServerInv, ControlInv, TypeOK, Active, Final
<1>4. held \in open /\ held \notin stranded /\ held \notin ToSet(connections)
      /\ \A u \in Users : held \notin owned[u]
  BY <1>1 DEF ServerInv, HoldInv, InUse
<1> QED BY <1>1, <1>2, <1>3, <1>4

\* The thread goes on with the connection in hand.
LEMMA DecideKeeps ==
  ASSUME ServerInv, wpc \in {"white", "black"}, NEW place \in {"black", "admit"}, Decide(place),
         Listed(peer[held], black) \/ TRUE \in verdicts,
         place = "admit" => TRUE \in verdicts
  PROVE  ServerInv'
<1>1. /\ wpc' = place
      /\ UNCHANGED <<phase, job, outcome, used, interrupt_required, connections, held, verdicts>>
      /\ UNCHANGED <<accepted, peer, open, stranded, alive, white, black, arrays, sockets>>
      /\ UNCHANGED <<listening, descriptor, owned, pc, handed, reopened>>
  BY DEF Decide, Quiet, runner, connVars, lists, sockVars
<1>2. held # 0 /\ phase = "running" /\ pc # "run_create"
  BY Deciding
<1>3. TypeOK'
  BY <1>1 DEF ServerInv, TypeOK
<1>4. HoldInv'
  BY <1>1 DEF ServerInv, HoldInv, InUse
<1>5. ControlInv'
  BY <1>1, <1>2 DEF ServerInv, ControlInv, Active
<1>6. SocketInv'
  BY <1>1 DEF ServerInv, SocketInv
<1>7. QueueInv'
  BY <1>1, <1>2 DEF ServerInv, QueueInv
<1>8. VerdictInv'
  BY <1>1, <1>2 DEF ServerInv, VerdictInv, Allowed, Listed
<1> QED BY <1>3, <1>4, <1>5, <1>6, <1>7, <1>8 DEF ServerInv

\* The thread lets go of the connection in hand: it closes it, or loses it.
LEMMA DropKeeps ==
  ASSUME ServerInv, wpc \in {"white", "black", "admit"}, NEW left, Drop(left),
         \/ left = open \ {held} /\ UNCHANGED stranded
         \/ left = open /\ stranded' = stranded \cup {held}
  PROVE  ServerInv'
<1>1. /\ wpc' = "poll" /\ held' = 0 /\ verdicts' = {} /\ open' = left
      /\ UNCHANGED <<phase, job, outcome, used, interrupt_required, connections, accepted, peer>>
      /\ UNCHANGED <<alive, white, black, arrays, sockets, listening, descriptor>>
      /\ UNCHANGED <<owned, pc, handed, reopened>>
  BY DEF Drop, Quiet, runner, lists, sockVars
<1>2. /\ held \in Conns /\ held # 0 /\ held = accepted /\ accepted \in Nat /\ MaxConns \in Nat
      /\ held \in open /\ held \notin stranded /\ held \notin ToSet(connections)
      /\ \A u \in Users : held \notin owned[u]
      /\ phase = "running" /\ pc # "run_create"
  BY Deciding
<1>3. TypeOK'
  <2>1. open \subseteq 1 .. accepted /\ stranded \subseteq Conns
    BY DEF ServerInv, TypeOK
  <2>2. open' \subseteq open
    BY <1>1
  <2>3. stranded' \subseteq Conns
    BY <1>2, <2>1
  <2>4. held' \in 0 .. MaxConns /\ verdicts' \subseteq BOOLEAN
    BY <1>1, <1>2
  <2> QED BY <1>1, <2>1, <2>2, <2>3, <2>4 DEF ServerInv, TypeOK
<1>4. HoldInv'
  <2>1. InUse' = InUse \ {held} /\ 0 \notin ToSet(connections) /\ \A u \in Users : 0 \notin owned[u]
    <3>1. InUse \subseteq Nat \ {0}
      BY DEF ServerInv, HoldInv, TypeOK
    <3> QED BY <1>1, <1>2, <3>1 DEF InUse
  <2>2. held \in InUse
    BY <1>2 DEF InUse
  <2>3. open' = InUse' \cup stranded' /\ InUse' \cap stranded' = {}
    BY <1>1, <1>2, <2>1, <2>2 DEF ServerInv, HoldInv
  <2> QED BY <1>1, <2>1, <2>3 DEF ServerInv, HoldInv
<1>5. ControlInv'
  BY <1>1, <1>2 DEF ServerInv, ControlInv, Active
<1>6. SocketInv'
  BY <1>1, <1>2 DEF ServerInv, SocketInv
<1>7. QueueInv'
  <2>1. ASSUME NEW i \in 1 .. Len(handed \o connections)
        PROVE  (handed \o connections)[i] <= accepted
    <3>1. (handed \o connections)[i] \in Conns
      BY ElementOfSeq, ConcatProperties DEF ServerInv, TypeOK
    <3>2. (handed \o connections)[i] <= accepted - 1
      BY <1>2 DEF ServerInv, QueueInv
    <3> QED BY <1>2, <3>1, <3>2 DEF Conns
  <2> QED BY <1>1, <2>1 DEF QueueInv
<1>8. VerdictInv'
  BY <1>1 DEF VerdictInv
<1> QED BY <1>3, <1>4, <1>5, <1>6, <1>7, <1>8 DEF ServerInv

\* The white list lets the connection go on, or refuses it.
LEMMA WhiteListKeeps ==
  ASSUME ServerInv, WhiteList
  PROVE  ServerInv'
<1>1. wpc = "white" /\ Allowed(peer[held]) \in verdicts
  BY Deciding DEF WhiteList, ServerInv, VerdictInv
<1>2. CASE Listed(peer[held], white) /\ Decide("admit")
  <2>1. Allowed(peer[held]) = TRUE
    BY <1>2 DEF Allowed, Listed
  <2> QED BY <1>1, <1>2, <2>1, DecideKeeps
<1>3. CASE white = {} /\ Decide("black")
  <2>1. ~Listed(peer[held], black) => Allowed(peer[held]) = TRUE
    BY <1>3 DEF Allowed
  <2> QED BY <1>1, <1>3, <2>1, DecideKeeps
<1>4. CASE Drop(open \ {held}) /\ UNCHANGED stranded
  BY <1>1, <1>4, DropKeeps
<1> QED BY <1>2, <1>3, <1>4 DEF WhiteList

\* The black list lets the connection go on, or refuses it.
LEMMA BlackListKeeps ==
  ASSUME ServerInv, BlackList
  PROVE  ServerInv'
<1>1. CASE ~Listed(peer[held], black) /\ Decide("admit")
  BY <1>1, DecideKeeps DEF BlackList, ServerInv, VerdictInv
<1>2. CASE Drop(open \ {held}) /\ UNCHANGED stranded
  BY <1>2, DropKeeps DEF BlackList
<1> QED BY <1>1, <1>2 DEF BlackList

\* The connection is neither queued nor closed.
LEMMA StrandKeeps ==
  ASSUME ServerInv, Strand
  PROVE  ServerInv'
  BY DropKeeps DEF Strand

\* There is no memory for the node of the connection.
LEMMA NoMemoryKeeps ==
  ASSUME ServerInv, NoMemory
  PROVE  ServerInv'
  BY DropKeeps DEF NoMemory

\* The connection goes to the end of the queue.
LEMMA EnqueueKeeps ==
  ASSUME ServerInv, Enqueue
  PROVE  ServerInv'
<1>1. /\ wpc = "admit" /\ connections' = Append(connections, held)
      /\ wpc' = "poll" /\ held' = 0 /\ verdicts' = {}
      /\ UNCHANGED <<phase, job, outcome, used, interrupt_required, accepted, peer, open>>
      /\ UNCHANGED <<alive, white, black, arrays, sockets, listening, descriptor>>
      /\ UNCHANGED <<owned, pc, handed, stranded, reopened>>
  BY DEF Enqueue, Quiet, runner, connVars, lists, sockVars
<1>2. /\ held \in Conns /\ held # 0 /\ held = accepted /\ accepted \in Nat /\ MaxConns \in Nat
      /\ held \notin ToSet(connections)
      /\ \A u \in Users : held \notin owned[u]
      /\ phase = "running" /\ pc # "run_create"
  BY <1>1, Deciding
<1>3. connections \in Seq(Conns) /\ handed \in Seq(Conns)
  BY DEF ServerInv, TypeOK
<1>4. /\ Append(connections, held) \in Seq(Conns)
      /\ ToSet(Append(connections, held)) = ToSet(connections) \cup {held}
      /\ IsInjective(Append(connections, held))
  <2>1. IsInjective(connections)
    BY DEF ServerInv, HoldInv
  <2>2. Append(connections, held) \in Seq(Conns)
    BY <1>2, <1>3
  <2> QED BY <1>2, <1>3, <2>1, <2>2, QueueMembers
<1>5. TypeOK'
  BY <1>1, <1>2, <1>4 DEF ServerInv, TypeOK
<1>6. /\ \A i \in 1 .. Len(handed \o connections') : (handed \o connections')[i] <= accepted
      /\ \A i, j \in 1 .. Len(handed \o connections') :
           i < j => (handed \o connections')[i] < (handed \o connections')[j]
  <2>1. \A i, j \in 1 .. Len(handed \o connections) :
          i < j => (handed \o connections)[i] < (handed \o connections)[j]
    BY DEF ServerInv, HoldInv
  <2>2. \A i \in 1 .. Len(handed \o connections) : (handed \o connections)[i] < held
    <3> TAKE i \in 1 .. Len(handed \o connections)
    <3>1. (handed \o connections)[i] \in Conns
      BY <1>3, ElementOfSeq, ConcatProperties
    <3>2. (handed \o connections)[i] <= accepted - 1
      BY <1>2 DEF ServerInv, QueueInv
    <3> QED BY <1>2, <3>1, <3>2 DEF Conns
  <2>3. Conns \in SUBSET Int
    BY DEF Conns
  <2> QED BY <1>1, <1>2, <1>3, <2>1, <2>2, <2>3, LineGrows
<1>7. HoldInv'
  <2>1. InUse' = InUse /\ 0 \notin ToSet(connections') /\ \A u \in Users : 0 \notin owned[u]
    <3>1. InUse \subseteq Nat \ {0}
      BY DEF ServerInv, HoldInv, TypeOK
    <3> QED BY <1>1, <1>2, <1>4, <3>1 DEF InUse
  <2>2. open' = InUse' \cup stranded' /\ InUse' \cap stranded' = {}
    BY <1>1, <2>1 DEF ServerInv, HoldInv
  <2>3. \A u \in Users : owned[u] \cap ToSet(connections') = {}
    BY <1>1, <1>2, <1>4 DEF ServerInv, HoldInv
  <2>4. \A u \in Users : owned'[u] \cap ({held'} \cup ToSet(connections')) = {}
    BY <1>1, <2>1, <2>3
  <2>5. held' \notin ToSet(connections') /\ IsInjective(connections')
    BY <1>1, <1>4, <2>1
  <2>6. handed' = handed /\ \A u, v \in Users : u # v => owned'[u] \cap owned'[v] = {}
    BY <1>1 DEF ServerInv, HoldInv
  <2> QED BY <1>6, <2>2, <2>4, <2>5, <2>6 DEF HoldInv
<1>8. ControlInv'
  BY <1>1, <1>2 DEF ServerInv, ControlInv, Active
<1>9. SocketInv'
  <2>1. descriptor \in listening /\ descriptor # 0
    BY <1>1 DEF ServerInv, SocketInv, TypeOK
  <2> QED BY <1>1, <2>1 DEF ServerInv, SocketInv
<1>10. QueueInv'
  BY <1>1, <1>6 DEF QueueInv
<1>11. VerdictInv'
  BY <1>1 DEF VerdictInv
<1> QED BY <1>5, <1>7, <1>8, <1>9, <1>10, <1>11 DEF ServerInv

-----------------------------------------------------------------------------
(***************************************************************************)
(* The users, and the end.                                                 *)
(***************************************************************************)
\* Who may hold a connection, also after a step.
LEMMA InUseMembers ==
  ASSUME NEW x
  PROVE  /\ x \in InUse <=> \/ held # 0 /\ x = held
                            \/ x \in ToSet(connections)
                            \/ \E u \in Users : x \in owned[u]
         /\ x \in InUse' <=> \/ held' # 0 /\ x = held'
                             \/ x \in ToSet(connections')
                             \/ \E u \in Users : x \in owned'[u]
  BY DEF InUse

\* An entry for the white list.
LEMMA f_server_append_to_whitelistKeeps ==
  ASSUME ServerInv, NEW entry \in Entries, f_server_append_to_whitelist(entry)
  PROVE  ServerInv'
<1>1. TypeOK'
  <2>1. /\ white' \subseteq Entries /\ black' \subseteq Entries
    BY DEF f_server_append_to_whitelist, ServerInv, TypeOK
  <2>2. verdicts' \subseteq BOOLEAN
    BY DEF f_server_append_to_whitelist, Relist, Allowed, Listed, ServerInv, TypeOK
  <2>3. /\ UNCHANGED <<phase, job, outcome, used, interrupt_required, alive, connections, arrays>>
        /\ UNCHANGED <<sockets, listening, descriptor, accepted, peer, open, owned, pc, wpc>>
        /\ UNCHANGED <<held, handed, stranded, reopened>>
    BY DEF f_server_append_to_whitelist, Relist, runner, sockVars, connVars, ghosts
  <2> QED BY <2>1, <2>2, <2>3 DEF ServerInv, TypeOK
<1>2. HoldInv'
  BY DEF ServerInv, f_server_append_to_whitelist, Relist, runner, sockVars, connVars, ghosts,
         HoldInv, InUse
<1>3. ControlInv'
  BY DEF ServerInv, f_server_append_to_whitelist, Relist, runner, sockVars, connVars, ghosts,
         ControlInv
<1>4. SocketInv'
  BY DEF ServerInv, f_server_append_to_whitelist, Relist, runner, sockVars, connVars, ghosts,
         SocketInv
<1>5. QueueInv'
  BY DEF ServerInv, f_server_append_to_whitelist, Relist, runner, sockVars, connVars, ghosts,
         QueueInv
<1>6. VerdictInv'
  <2>1. held # 0 => Allowed(peer[held])' \in verdicts'
    BY DEF f_server_append_to_whitelist, Relist, thread
  <2>2. /\ UNCHANGED <<wpc, held, peer>> /\ verdicts \subseteq verdicts'
        /\ white \subseteq white' /\ black \subseteq black'
    BY DEF f_server_append_to_whitelist, Relist, connVars
  <2>3. \A p \in Peers : Listed(p, black) => Listed(p, black')
    BY <2>2 DEF Listed
  <2>4. wpc = "black" => peer[held] \in Peers
    BY DEF ServerInv, QueueInv, TypeOK, Conns
  <2>5. wpc = "black" => Listed(peer[held], black') \/ TRUE \in verdicts'
    BY <2>2, <2>3, <2>4 DEF ServerInv, VerdictInv
  <2> QED BY <2>1, <2>2, <2>5 DEF ServerInv, VerdictInv
<1> QED BY <1>1, <1>2, <1>3, <1>4, <1>5, <1>6 DEF ServerInv

\* An entry for the black list.
LEMMA f_server_append_to_blacklistKeeps ==
  ASSUME ServerInv, NEW entry \in Entries, f_server_append_to_blacklist(entry)
  PROVE  ServerInv'
<1>1. TypeOK'
  <2>1. /\ white' \subseteq Entries /\ black' \subseteq Entries
    BY DEF f_server_append_to_blacklist, ServerInv, TypeOK
  <2>2. verdicts' \subseteq BOOLEAN
    BY DEF f_server_append_to_blacklist, Relist, Allowed, Listed, ServerInv, TypeOK
  <2>3. /\ UNCHANGED <<phase, job, outcome, used, interrupt_required, alive, connections, arrays>>
        /\ UNCHANGED <<sockets, listening, descriptor, accepted, peer, open, owned, pc, wpc>>
        /\ UNCHANGED <<held, handed, stranded, reopened>>
    BY DEF f_server_append_to_blacklist, Relist, runner, sockVars, connVars, ghosts
  <2> QED BY <2>1, <2>2, <2>3 DEF ServerInv, TypeOK
<1>2. HoldInv'
  BY DEF ServerInv, f_server_append_to_blacklist, Relist, runner, sockVars, connVars, ghosts,
         HoldInv, InUse
<1>3. ControlInv'
  BY DEF ServerInv, f_server_append_to_blacklist, Relist, runner, sockVars, connVars, ghosts,
         ControlInv
<1>4. SocketInv'
  BY DEF ServerInv, f_server_append_to_blacklist, Relist, runner, sockVars, connVars, ghosts,
         SocketInv
<1>5. QueueInv'
  BY DEF ServerInv, f_server_append_to_blacklist, Relist, runner, sockVars, connVars, ghosts,
         QueueInv
<1>6. VerdictInv'
  <2>1. held # 0 => Allowed(peer[held])' \in verdicts'
    BY DEF f_server_append_to_blacklist, Relist, thread
  <2>2. /\ UNCHANGED <<wpc, held, peer>> /\ verdicts \subseteq verdicts'
        /\ white \subseteq white' /\ black \subseteq black'
    BY DEF f_server_append_to_blacklist, Relist, connVars
  <2>3. \A p \in Peers : Listed(p, black) => Listed(p, black')
    BY <2>2 DEF Listed
  <2>4. wpc = "black" => peer[held] \in Peers
    BY DEF ServerInv, QueueInv, TypeOK, Conns
  <2>5. wpc = "black" => Listed(peer[held], black') \/ TRUE \in verdicts'
    BY <2>2, <2>3, <2>4 DEF ServerInv, VerdictInv
  <2> QED BY <2>1, <2>2, <2>5 DEF ServerInv, VerdictInv
<1> QED BY <1>1, <1>2, <1>3, <1>4, <1>5, <1>6 DEF ServerInv

\* A user takes the head of the queue.
LEMMA f_server_get_connection_nodeKeeps ==
  ASSUME ServerInv, NEW u \in Users, f_server_get_connection_node(u)
  PROVE  ServerInv'
<1>1. TypeOK'
  <2>1. connections' \in Seq(Conns) /\ handed' \in Seq(Conns) /\ Head(connections) \in Conns
    BY LineKept, SMTT(20) DEF f_server_get_connection_node, ServerInv, TypeOK
  <2>2. owned' \in [Users -> SUBSET Conns]
    BY <2>1 DEF f_server_get_connection_node, ServerInv, TypeOK
  <2>3. /\ UNCHANGED <<phase, job, outcome, used, interrupt_required, alive, white, black, arrays>>
        /\ UNCHANGED <<sockets, listening, descriptor, accepted, peer, open, pc, wpc, held>>
        /\ UNCHANGED <<verdicts, stranded, reopened>>
    BY DEF f_server_get_connection_node, runner, lists, sockVars, connVars, thread
  <2> QED BY <2>1, <2>2, <2>3 DEF ServerInv, TypeOK
<1>2. HoldInv'
  <2> DEFINE head == Head(connections)
  <2>1. /\ connections # <<>> /\ connections' = Tail(connections)
        /\ handed' = Append(handed, head)
        /\ owned' = [owned EXCEPT ![u] = @ \cup {head}]
        /\ UNCHANGED <<open, held, stranded>>
    BY DEF f_server_get_connection_node, connVars, thread
  <2>2. /\ connections \in Seq(Conns) /\ handed \in Seq(Conns)
        /\ owned \in [Users -> SUBSET Conns]
    BY DEF ServerInv, TypeOK
  <2>3. handed' \o connections' = handed \o connections
    BY <2>1, <2>2, LineKept
  <2>4. /\ ToSet(connections') = ToSet(connections) \ {head} /\ head \in ToSet(connections)
        /\ IsInjective(connections')
    BY <2>1, <2>2, QueueMembers DEF ServerInv, HoldInv
  <2>5. /\ owned'[u] = owned[u] \cup {head}
        /\ \A v \in Users : v # u => owned'[v] = owned[v]
    BY <2>1, <2>2
  <2>6. InUse' = InUse
    <3>1. ASSUME NEW x
          PROVE  (\E v \in Users : x \in owned'[v]) <=> x = head \/ \E v \in Users : x \in owned[v]
      <4> HIDE DEF head
      <4> QED BY <2>5
    <3> HIDE DEF head
    <3>2. \A x : x \in InUse' <=> x \in InUse
      BY <2>1, <2>4, <3>1, InUseMembers
    <3> QED BY <3>2
  <2>7. /\ open = InUse \cup stranded /\ InUse \cap stranded = {} /\ held \notin ToSet(connections)
        /\ \A v \in Users : owned[v] \cap ({held} \cup ToSet(connections)) = {}
        /\ \A v, w \in Users : v # w => owned[v] \cap owned[w] = {}
    BY DEF ServerInv, HoldInv
  <2> HIDE DEF head
  <2>8. held' \notin ToSet(connections') /\ held # head
    BY <2>1, <2>4, <2>7
  <2>9. \A v \in Users : owned'[v] \cap ({held'} \cup ToSet(connections')) = {}
    BY <2>1, <2>4, <2>5, <2>7, <2>8
  <2>10. \A v, w \in Users : v # w => owned'[v] \cap owned'[w] = {}
    BY <2>4, <2>5, <2>7
  <2> QED BY <2>1, <2>3, <2>4, <2>6, <2>7, <2>8, <2>9, <2>10 DEF ServerInv, HoldInv
<1>3. ControlInv'
  BY DEF ServerInv, f_server_get_connection_node, runner, lists, sockVars, connVars, thread,
         ControlInv
<1>4. SocketInv'
  BY DEF ServerInv, f_server_get_connection_node, runner, lists, sockVars, connVars, thread,
         SocketInv
<1>5. QueueInv'
  <2>1. handed' \o connections' = handed \o connections
    BY LineKept, SMTT(20) DEF f_server_get_connection_node, ServerInv, TypeOK
  <2>2. UNCHANGED <<held, wpc, accepted>>
    BY DEF f_server_get_connection_node, thread, connVars
  <2> QED BY <2>1, <2>2 DEF ServerInv, QueueInv
<1>6. VerdictInv'
  BY DEF ServerInv, f_server_get_connection_node, runner, lists, sockVars, connVars, thread,
         VerdictInv, Allowed, Listed
<1> QED BY <1>1, <1>2, <1>3, <1>4, <1>5, <1>6 DEF ServerInv

\* A user closes a connection of his.
LEMMA f_server_connection_freeKeeps ==
  ASSUME ServerInv, NEW u \in Users, NEW c \in Conns, f_server_connection_free(u,c)
  PROVE  ServerInv'
<1>1. TypeOK'
  <2>1. owned' \in [Users -> SUBSET Conns] /\ open' \subseteq 1 .. accepted
    BY DEF f_server_connection_free, ServerInv, TypeOK
  <2>2. /\ UNCHANGED <<phase, job, outcome, used, interrupt_required, alive, connections, arrays>>
        /\ UNCHANGED <<white, black, sockets, listening, descriptor, accepted, peer, pc, wpc>>
        /\ UNCHANGED <<held, verdicts, handed, stranded, reopened>>
    BY DEF f_server_connection_free, runner, lists, sockVars, thread, ghosts
  <2> QED BY <2>1, <2>2 DEF ServerInv, TypeOK
<1>2. HoldInv'
  <2>1. /\ c \in owned[u] /\ open' = open \ {c} /\ owned' = [owned EXCEPT ![u] = @ \ {c}]
        /\ UNCHANGED <<connections, handed, held, stranded>>
    BY DEF f_server_connection_free, thread, ghosts
  <2>2. /\ owned \in [Users -> SUBSET Conns]
        /\ open = InUse \cup stranded /\ InUse \cap stranded = {} /\ held \notin ToSet(connections)
        /\ \A v \in Users : owned[v] \cap ({held} \cup ToSet(connections)) = {}
        /\ \A v, w \in Users : v # w => owned[v] \cap owned[w] = {}
    BY DEF ServerInv, HoldInv, TypeOK
  <2>3. /\ owned'[u] = owned[u] \ {c}
        /\ \A v \in Users : v # u => owned'[v] = owned[v] /\ c \notin owned[v]
        /\ \A v \in Users : owned'[v] = owned[v] \ {c}
    BY <2>1, <2>2
  <2>4. c \notin ToSet(connections) /\ c # held /\ c \in InUse
    BY <2>1, <2>2 DEF InUse
  <2>5. InUse' = InUse \ {c}
    <3>1. \A x : (\E v \in Users : x \in owned'[v]) <=> x # c /\ \E v \in Users : x \in owned[v]
      BY <2>3
    <3>2. \A x : x \in InUse' <=> x \in InUse /\ x # c
      BY <2>1, <2>4, <3>1, InUseMembers
    <3> QED BY <3>2
  <2>6. open' = InUse' \cup stranded' /\ InUse' \cap stranded' = {}
    BY <2>1, <2>2, <2>4, <2>5
  <2>7. \A v \in Users : owned'[v] \cap ({held'} \cup ToSet(connections')) = {}
    BY <2>1, <2>2, <2>3
  <2>8. \A v, w \in Users : v # w => owned'[v] \cap owned'[w] = {}
    BY <2>2, <2>3
  <2> QED BY <2>1, <2>2, <2>6, <2>7, <2>8 DEF ServerInv, HoldInv
<1>3. ControlInv'
  BY DEF ServerInv, f_server_connection_free, runner, lists, sockVars, thread, ghosts, ControlInv
<1>4. SocketInv'
  BY DEF ServerInv, f_server_connection_free, runner, lists, sockVars, thread, ghosts, SocketInv
<1>5. QueueInv'
  BY DEF ServerInv, f_server_connection_free, runner, lists, sockVars, thread, ghosts, QueueInv
<1>6. VerdictInv'
  BY DEF ServerInv, f_server_connection_free, runner, lists, sockVars, thread, ghosts, VerdictInv,
         Allowed, Listed
<1> QED BY <1>1, <1>2, <1>3, <1>4, <1>5, <1>6 DEF ServerInv

\* f_server_free closes what is left.
LEMMA FreeDrainKeeps ==
  ASSUME ServerInv, FreeDrain
  PROVE  ServerInv'
<1>1. TypeOK'
  <2>1. /\ pc' = "out" /\ alive' = "freed"
        /\ UNCHANGED <<phase, job, outcome, used, interrupt_required, white, black, sockets>>
        /\ UNCHANGED <<accepted, peer, owned, wpc, held, verdicts, handed, stranded, reopened>>
    BY DEF FreeDrain, runner, thread, ghosts
  <2>2. /\ connections' \in Seq(Conns) /\ arrays' \in BOOLEAN /\ open' \subseteq 1 .. accepted
        /\ listening' \subseteq 1 .. sockets /\ descriptor' \in {0} \cup listening'
    BY EmptySeq DEF FreeDrain, ServerInv, TypeOK
  <2> QED BY <2>1, <2>2 DEF ServerInv, TypeOK, PCs
<1>2. HoldInv'
  <2>1. /\ held = 0 /\ UNCHANGED <<owned, held, handed, stranded>>
        /\ connections \in Seq(Conns) /\ handed \in Seq(Conns)
    BY DEF FreeDrain, thread, ghosts, ServerInv, ControlInv, QueueInv, TypeOK, Active
  <2>2. CASE UNCHANGED <<open, connections>>
    BY <2>1, <2>2 DEF ServerInv, HoldInv, InUse
  <2>3. CASE open' = open \ ToSet(connections) /\ connections' = <<>>
    <3>1. /\ ToSet(connections') = {} /\ IsInjective(connections')
      BY <2>3 DEF ToSet, IsInjective
    <3>2. InUse' = InUse \ ToSet(connections) /\ ToSet(connections) \subseteq InUse
      BY <2>1, <3>1 DEF InUse, ServerInv, HoldInv
    <3>3. open' = InUse' \cup stranded' /\ InUse' \cap stranded' = {}
      BY <2>1, <2>3, <3>2 DEF ServerInv, HoldInv
    <3>4. /\ handed' \o connections' = handed /\ Len(handed) <= Len(handed \o connections)
          /\ \A i \in 1 .. Len(handed) : handed[i] = (handed \o connections)[i]
      BY <2>1, <2>3, LineFront
    <3>5. \A i, j \in 1 .. Len(handed) : i < j => handed[i] < handed[j]
      <4>1. Len(handed) \in Nat /\ Len(handed \o connections) \in Nat
        BY <2>1, ConcatProperties, LenProperties
      <4>2. \A i, j \in 1 .. Len(handed \o connections) :
              i < j => (handed \o connections)[i] < (handed \o connections)[j]
        BY DEF ServerInv, HoldInv
      <4>3. \A i \in 1 .. Len(handed) : i \in 1 .. Len(handed \o connections)
        BY <3>4, <4>1
      <4> QED BY <3>4, <4>2, <4>3
    <3>6. \A u \in Users : owned'[u] \cap ({held'} \cup ToSet(connections')) = {}
      BY <2>1, <3>1 DEF ServerInv, HoldInv
    <3> QED BY <2>1, <3>1, <3>3, <3>4, <3>5, <3>6 DEF ServerInv, HoldInv
  <2> QED BY <2>2, <2>3 DEF FreeDrain
<1>3. ControlInv'
  BY DEF ServerInv, FreeDrain, runner, thread, ghosts, ControlInv
<1>4. SocketInv'
  BY DEF ServerInv, FreeDrain, runner, thread, ghosts, SocketInv, ControlInv, Active
<1>5. QueueInv'
  <2>1. /\ held = 0 /\ UNCHANGED <<wpc, held, handed, accepted>>
        /\ connections \in Seq(Conns) /\ handed \in Seq(Conns)
    BY DEF FreeDrain, thread, ghosts, ServerInv, ControlInv, QueueInv, TypeOK, Active
  <2>2. CASE UNCHANGED connections
    BY <2>1, <2>2 DEF ServerInv, QueueInv
  <2>3. CASE connections' = <<>>
    <3>1. /\ handed' \o connections' = handed /\ Len(handed) <= Len(handed \o connections)
          /\ \A i \in 1 .. Len(handed) : handed[i] = (handed \o connections)[i]
      BY <2>1, <2>3, LineFront
    <3>2. Len(handed) \in Nat /\ Len(handed \o connections) \in Nat
      BY <2>1, ConcatProperties, LenProperties
    <3>3. \A i \in 1 .. Len(handed) : handed[i] <= accepted
      <4>1. \A i \in 1 .. Len(handed \o connections) : (handed \o connections)[i] <= accepted
        BY <2>1 DEF ServerInv, QueueInv
      <4> QED BY <3>1, <3>2, <4>1
    <3> QED BY <2>1, <3>1, <3>3 DEF ServerInv, QueueInv
  <2> QED BY <2>2, <2>3 DEF FreeDrain
<1>6. VerdictInv'
  BY DEF ServerInv, FreeDrain, runner, thread, ghosts, VerdictInv, Allowed, Listed
<1> QED BY <1>1, <1>2, <1>3, <1>4, <1>5, <1>6 DEF ServerInv

-----------------------------------------------------------------------------
(***************************************************************************)
(* The invariant holds.                                                    *)
(***************************************************************************)
\* A new server.
LEMMA InitHolds == Init => ServerInv
<1> SUFFICES ASSUME Init PROVE ServerInv
  OBVIOUS
<1>1. /\ phase = "undefined" /\ job = 0 /\ interrupt_required = FALSE /\ alive = "new"
      /\ descriptor = 0 /\ connections = <<>> /\ white = {} /\ black = {} /\ arrays = FALSE
      /\ sockets = 0 /\ listening = {} /\ accepted = 0 /\ open = {} /\ pc = "out"
      /\ wpc = "none" /\ held = 0 /\ verdicts = {} /\ handed = <<>> /\ stranded = {}
      /\ reopened = FALSE
  BY DEF Init, Lifecycle!Init
<1>2. owned \in [Users -> SUBSET Conns] /\ \A u \in Users : owned[u] = {}
  BY DEF Init
<1>3. peer \in [Conns -> Peers]
  BY ListsAssumption DEF Init
<1>4. connections \in Seq(Conns) /\ handed \in Seq(Conns)
  BY <1>1, EmptySeq
<1>5. ToSet(connections) = {} /\ IsInjective(connections) /\ InUse = {}
  <2>1. DOMAIN connections = {}
    BY <1>1
  <2>2. ToSet(connections) = {} /\ IsInjective(connections)
    BY <2>1 DEF ToSet, IsInjective
  <2> QED BY <1>1, <1>2, <2>2 DEF InUse
<1>6. 1 .. Len(handed \o connections) = {}
  BY <1>1
<1>7. TypeOK
  <2>1. MaxRuns \in Nat /\ MaxSockets \in Nat /\ MaxConns \in Nat
    BY BoundsAssumption
  <2>2. job \in 0 .. MaxRuns /\ sockets \in 0 .. MaxSockets /\ accepted \in 0 .. MaxConns
        /\ held \in 0 .. MaxConns
    BY <1>1, <2>1
  <2> QED BY <1>1, <1>2, <1>3, <1>4, <2>2 DEF TypeOK, PCs
<1>8. HoldInv
  BY <1>1, <1>2, <1>5, <1>6 DEF HoldInv
<1>9. ControlInv /\ SocketInv /\ VerdictInv
  BY <1>1 DEF ControlInv, SocketInv, VerdictInv, Active
<1>10. QueueInv
  BY <1>1, <1>6 DEF QueueInv
<1> QED BY <1>7, <1>8, <1>9, <1>10 DEF ServerInv

\* A stuttering step.
LEMMA UnchangedKeeps == ServerInv /\ UNCHANGED vars => ServerInv'
<1> SUFFICES ASSUME ServerInv, UNCHANGED vars PROVE ServerInv'
  OBVIOUS
<1> USE DEF vars, runner, lists, sockVars, connVars, thread, ghosts
<1>1. TypeOK'
  BY DEF ServerInv, TypeOK
<1>2. HoldInv'
  BY DEF ServerInv, HoldInv, InUse
<1>3. ControlInv' /\ SocketInv'
  BY DEF ServerInv, ControlInv, SocketInv
<1>4. QueueInv' /\ VerdictInv'
  BY DEF ServerInv, QueueInv, VerdictInv, Allowed, Listed
<1> QED BY <1>1, <1>2, <1>3, <1>4 DEF ServerInv

\* Every step, by the operation it is of.
LEMMA NextKeeps == ServerInv /\ [Next]_vars => ServerInv'
<1> SUFFICES ASSUME ServerInv, [Next]_vars PROVE ServerInv'
  OBVIOUS
<1>1. CASE f_server_initialize
  BY <1>1, f_server_initializeKeeps
<1>2. CASE f_server_run
  BY <1>2, RunCheckKeeps, CreateServerKeeps, RunCollectKeeps, RunLaunchKeeps, RunCreateKeeps,
     RunCreateFailsKeeps DEF f_server_run
<1>3. CASE f_runner_stop
  BY <1>3, f_runner_stopKeeps
<1>4. CASE f_runner_join
  BY <1>4, f_runner_joinKeeps
<1>5. CASE f_server_free
  BY <1>5, FreeCallKeeps, FreeStopKeeps, FreeJoinKeeps, FreeDrainKeeps DEF f_server_free
<1>6. CASE p_server_run_callback
  BY <1>6, ThreadStartKeeps, SelectIdleKeeps, SelectFailsKeeps, AcceptKeeps, WhiteListKeeps,
     BlackListKeeps, StrandKeeps, NoMemoryKeeps, EnqueueKeeps, PollKeeps
     DEF p_server_run_callback
<1>7. CASE \E entry \in Entries : f_server_append_to_whitelist(entry)
                                  \/ f_server_append_to_blacklist(entry)
  BY <1>7, f_server_append_to_whitelistKeeps, f_server_append_to_blacklistKeeps
<1>8. CASE \E u \in Users : User(u)
  BY <1>8, f_server_get_connection_nodeKeeps, f_server_connection_freeKeeps DEF User
<1>9. CASE UNCHANGED vars
  BY <1>9, UnchangedKeeps
<1> QED BY <1>1, <1>2, <1>3, <1>4, <1>5, <1>6, <1>7, <1>8, <1>9 DEF Next

-----------------------------------------------------------------------------
\* The account of the owner, the accept thread, its socket and the connections holds in every
\* reachable state.
THEOREM ServerIsAccounted == Spec => []ServerInv
  BY InitHolds, NextKeeps, PTL DEF Spec

\* Each open connection is held exactly once, by the accept thread, the queue or one user, and
\* they are handed out in the order they were accepted, whoever drains the queue and whenever
\* (server.c:233-274, server.c:369-380).
THEOREM ConnectionsAreHeld == Spec => []EveryConnectionHeld
<1>1. ServerInv => EveryConnectionHeld
  BY DEF ServerInv, HoldInv, EveryConnectionHeld
<1> QED BY <1>1, ServerIsAccounted, PTL

\* The accept thread never uses a descriptor that is closed or replaced under it.
THEOREM SocketStaysOpen == Spec => []AcceptsOnOpenSocket
<1>1. ServerInv => AcceptsOnOpenSocket
  BY DEF ServerInv, SocketInv, ControlInv, AcceptsOnOpenSocket, Active
<1> QED BY <1>1, ServerIsAccounted, PTL

\* f_server_free closes what the queue holds and the listening socket, unless f_server_run had
\* been called over an older socket.
THEOREM FreeIsComplete == Spec => []FreeClosesAll
<1>1. ServerInv => FreeClosesAll
  <2> SUFFICES ASSUME ServerInv, alive = "freed", ~reopened
               PROVE  /\ connections = <<>> /\ listening = {}
                      /\ open \subseteq stranded \cup UNION {owned[u] : u \in Users}
    BY DEF FreeClosesAll
  <2>1. connections = <<>> /\ listening = {}
    BY DEF ServerInv, SocketInv, TypeOK
  <2>2. held = 0
    BY DEF ServerInv, ControlInv, QueueInv, Active
  <2>3. ToSet(connections) = {}
    BY <2>1 DEF ToSet
  <2>4. open \subseteq stranded \cup UNION {owned[u] : u \in Users}
    <3>1. \A c \in open : c \in InUse \/ c \in stranded
      BY DEF ServerInv, HoldInv
    <3>2. \A c \in InUse : \E u \in Users : c \in owned[u]
      BY <2>2, <2>3, InUseMembers
    <3> QED BY <3>1, <3>2, Zenon
  <2> QED BY <2>1, <2>4
<1> QED BY <1>1, ServerIsAccounted, PTL

\* A peer is queued only if the lists let it in at some instant since its accept, and refused only
\* if they refused it, or it is on the black list by now (server.c:234-259).
THEOREM VerdictsHold == Spec => VerdictsAreJust
<1> DEFINE Just == /\ held # 0 /\ held \in ToSet(connections') => TRUE \in verdicts
                   /\ (WhiteList \/ BlackList) /\ held' = 0
                        => FALSE \in verdicts \/ Listed(peer[held], black)
<1>1. ServerInv /\ [Next]_vars => [Just]_vars
  <2> SUFFICES ASSUME ServerInv, Next PROVE Just
    OBVIOUS
  <2>1. ASSUME held # 0, held \in ToSet(connections') PROVE TRUE \in verdicts
    <3>1. wpc \in {"white", "black", "admit"} /\ held \notin ToSet(connections) /\ held \in Conns
      BY <2>1, Deciding DEF ServerInv, QueueInv
    <3>2. CASE Enqueue
      BY <3>2 DEF Enqueue, ServerInv, VerdictInv
    <3>3. CASE UNCHANGED connections
      BY <2>1, <3>1, <3>3
    <3>4. CASE \E u \in Users : f_server_get_connection_node(u)
      <4>1. connections # <<>> /\ connections' = Tail(connections)
        BY <3>4 DEF f_server_get_connection_node
      <4>2. ToSet(connections') \subseteq ToSet(connections)
        BY <4>1, QueueMembers DEF ServerInv, HoldInv, TypeOK
      <4> QED BY <2>1, <3>1, <4>2
    <3>5. CASE FreeDrain
      <4>1. pc = "free_drain"
        BY <3>5 DEF FreeDrain
      <4> QED BY <3>1, <4>1 DEF ServerInv, ControlInv, Active
    <3> QED
      BY <3>2, <3>3, <3>4, <3>5
         DEF Next, f_server_initialize, f_server_run, RunCheck, CreateServer, RunCollect,
             RunLaunch, RunCreate, RunCreateFails, f_runner_stop, f_runner_join, f_server_free,
             FreeCall, FreeStop, FreeJoin, p_server_run_callback, ThreadStart, SelectIdle,
             SelectFails, Accept, WhiteList, BlackList, Strand, NoMemory, Poll, Drop, Decide,
             f_server_append_to_whitelist, f_server_append_to_blacklist, Relist, User,
             f_server_connection_free
  <2>2. ASSUME WhiteList, held' = 0 PROVE FALSE \in verdicts
    <3>1. wpc = "white" /\ held # 0 /\ Allowed(peer[held]) \in verdicts
      BY <2>2, Deciding DEF WhiteList, ServerInv, VerdictInv
    <3>2. white # {} /\ ~Listed(peer[held], white)
      BY <2>2, <3>1 DEF WhiteList, Decide, thread
    <3>3. Allowed(peer[held]) = FALSE
      BY <3>2 DEF Allowed, Listed
    <3> QED BY <3>1, <3>3
  <2>3. ASSUME BlackList, held' = 0 PROVE Listed(peer[held], black)
    <3>1. wpc = "black" /\ held # 0
      BY <2>3, Deciding DEF BlackList
    <3> QED BY <2>3, <3>1 DEF BlackList, Decide, thread
  <2> QED BY <2>1, <2>2, <2>3
<1> QED BY <1>1, ServerIsAccounted, PTL DEF VerdictsAreJust, Spec

-----------------------------------------------------------------------------
(* The entries of the lists.                                               *)

\* The mask of an entry has its first m bits set, and no others: the shift never reaches Width,
\* where it would start again.
LEMMA MaskIsPrefix ==
  ASSUME NEW m \in 0 .. Width, NEW i \in Bits
  PROVE  Mask(m)[i] = IF i <= m THEN 1 ELSE 0
<1> USE WidthAssumption
<1>1. CASE m = 0
  BY <1>1 DEF Mask, NoBits, Bits
<1>2. CASE m # 0
  <2>1. PICK d : d = (Width - m) % Width
    OBVIOUS
  <2>2. d = Width - m
    BY <1>2, <2>1
  <2>3. Mask(m)[i] = IF i + d \in Bits THEN AllOnes[i + d] ELSE 0
    BY <1>2, <2>1 DEF Mask, Shl
  <2> QED
    BY <2>2, <2>3 DEF AllOnes, Bits
<1> QED
  BY <1>1, <1>2

\* Two addresses agree under a mask when they agree in its first m bits.
LEMMA MaskedAreEqual ==
  ASSUME NEW m \in 0 .. Width, NEW a \in Addresses, NEW b \in Addresses
  PROVE  And(a, Mask(m)) = And(b, Mask(m)) <=> \A i \in 1 .. m : a[i] = b[i]
<1> USE WidthAssumption
<1>1. ASSUME NEW i \in Bits
      PROVE  /\ And(a, Mask(m))[i] = IF i <= m THEN a[i] ELSE 0
             /\ And(b, Mask(m))[i] = IF i <= m THEN b[i] ELSE 0
  <2>1. Mask(m)[i] = IF i <= m THEN 1 ELSE 0
    BY MaskIsPrefix
  <2>2. a[i] \in {0, 1} /\ b[i] \in {0, 1}
    BY DEF Addresses
  <2> QED
    BY <2>1, <2>2 DEF And
<1>2. 1 .. m \subseteq Bits /\ \A i \in 1 .. m : i <= m
  BY DEF Bits
<1>3. ASSUME And(a, Mask(m)) = And(b, Mask(m)), NEW i \in 1 .. m PROVE a[i] = b[i]
  BY <1>1, <1>2, <1>3
<1>4. ASSUME \A i \in 1 .. m : a[i] = b[i] PROVE And(a, Mask(m)) = And(b, Mask(m))
  <2>1. ASSUME NEW i \in Bits PROVE And(a, Mask(m))[i] = And(b, Mask(m))[i]
    <3>1. i <= m => i \in 1 .. m
      BY DEF Bits
    <3> QED
      BY <1>1, <1>4, <3>1
  <2>2. /\ And(a, Mask(m)) = [i \in Bits |-> And(a, Mask(m))[i]]
        /\ And(b, Mask(m)) = [i \in Bits |-> And(b, Mask(m))[i]]
    BY DEF And
  <2> QED
    BY <2>1, <2>2
<1> QED
  BY <1>3, <1>4

\* For words of any width, an entry of the lists matches the addresses of its block, in
\* p_server_address_matches, and no others: 0.0.0.0/0 matches every peer, a text that is no
\* address none.
THEOREM EntriesAreBlocks == Spec => []EntriesMatchBlocks
<1>1. ASSUME NEW e \in Texts, NEW a \in Addresses
      PROVE  p_server_address_matches(a, e) <=>
               /\ e.base # Unparsable /\ (e.mask # NoMask => e.mask <= Width)
               /\ \A i \in 1 .. (IF e.mask = NoMask THEN Width ELSE e.mask) : a[i] = e.base[i]
  <2>1. /\ e.base \in Addresses \cup {Unparsable}
        /\ e.mask \in {NoMask} \cup 0 .. (Width + 1)
    BY DEF Texts
  <2>2. CASE e.base = Unparsable
    BY <2>2 DEF p_server_address_matches
  <2>3. CASE e.base # Unparsable /\ e.mask = NoMask
    <3>1. a = [i \in Bits |-> a[i]] /\ e.base = [i \in Bits |-> e.base[i]]
      BY <2>1, <2>3 DEF Addresses
    <3>2. a = e.base <=> \A i \in 1 .. Width : a[i] = e.base[i]
      BY <3>1 DEF Bits
    <3> QED
      BY <2>3, <3>2 DEF p_server_address_matches
  <2>4. CASE e.base # Unparsable /\ e.mask # NoMask /\ e.mask <= Width
    <3>1. e.mask \in 0 .. Width /\ e.base \in Addresses
      BY <2>1, <2>4, WidthAssumption
    <3> QED
      BY <2>4, <3>1, MaskedAreEqual DEF p_server_address_matches
  <2>5. CASE e.base # Unparsable /\ e.mask # NoMask /\ ~(e.mask <= Width)
    BY <2>5 DEF p_server_address_matches
  <2> QED
    BY <2>2, <2>3, <2>4, <2>5
<1>2. EntriesMatchBlocks
  BY <1>1 DEF EntriesMatchBlocks, MatchesTheBlock
<1> QED
  BY <1>2, PTL

=============================================================================
