---------------------------- MODULE SocketsProofs ----------------------------
(***************************************************************************)
(* Theorems about Sockets, for any number of descriptors and addresses and *)
(* any timeouts: nothing is leaked and no call waits beyond its timeout.   *)
(***************************************************************************)
EXTENDS Sockets, TLAPS

States ==
    {"new", "listen", "listener", "socket", "connect", "context", "certificate",
     "session", "verify", "handshake", "up", "read", "write", "failed", "closed"}

TypeInv ==
    /\ tls \in BOOLEAN /\ timeout \in Timeouts /\ at \in States
    /\ descriptor \in Files \cup {Closed} /\ context \in BOOLEAN /\ session \in BOOLEAN
    /\ open \subseteq Files /\ contexts \in Nat /\ sessions \in Nat
    /\ left \in Nat /\ budget \in Nat /\ waited \in Nat /\ wakeups \in Nat

\* What is held in each state.
HasDescriptor == {"listen", "listener", "connect", "context", "certificate", "session",
                  "verify", "handshake", "up", "read", "write"}

Held ==
    /\ open = {descriptor} \ {Closed}
    /\ at \in HasDescriptor <=> descriptor # Closed
    /\ contexts = (IF context THEN 1 ELSE 0) /\ sessions = (IF session THEN 1 ELSE 0)
    /\ at \in {"new", "listen", "listener", "socket", "connect", "context", "failed", "closed"}
          => ~context /\ ~session
    /\ at \in {"certificate", "session"} => context /\ ~session
    /\ at \in {"verify", "handshake"} => context /\ session
    /\ at \in {"up", "read", "write"} => context = tls /\ session = tls
    /\ at \in {"context", "certificate", "session", "verify", "handshake"} => tls
    /\ at = "connect" => left > 0

\* What a call has waited and what it may still wait.
InTime ==
    ~Unlimited =>
        /\ at \in Waiting => waited + budget <= timeout
        /\ at \in {"socket", "connect"} => waited + left * timeout <= Addresses * timeout
        /\ at \notin Waiting \cup {"socket", "connect"} => waited = 0

SocketInv == TypeInv /\ Held /\ InTime

LEMMA ConstantsAreNat ==
    /\ Closed \notin Files /\ Addresses \in Nat /\ Wakeups \in Nat
    /\ \A t \in Timeouts : t \in Nat
  BY SocketAssumption

LEMMA InitInv == SocketInit => SocketInv
<1> SUFFICES ASSUME SocketInit PROVE SocketInv
  OBVIOUS
<1> USE DEF SocketInit
<1>1. TypeInv
  BY ConstantsAreNat DEF TypeInv, States
<1>2. Held
  BY DEF Held, HasDescriptor
<1>3. InTime
  BY DEF InTime, Waiting
<1> QED
  BY <1>1, <1>2, <1>3 DEF SocketInv

LEMMA StepInv == SocketInv /\ [SocketNext]_socketVars => SocketInv'
<1> SUFFICES ASSUME SocketInv, [SocketNext]_socketVars PROVE SocketInv'
  OBVIOUS
<1> USE ConstantsAreNat DEF SocketInv, TypeInv, Held, InTime, States, HasDescriptor, Waiting,
       Unlimited, Step, choice, handles, clock, NoClock, NewClock
<1>1. CASE ListenerOpens
  <2>1. TypeInv'
    BY <1>1 DEF ListenerOpens, OpenDescriptor
  <2>2. Held'
    BY <1>1 DEF ListenerOpens, OpenDescriptor
  <2>3. InTime'
    BY <1>1 DEF ListenerOpens, OpenDescriptor
  <2> QED
    BY <2>1, <2>2, <2>3
<1>2. CASE ListenerFails
  <2>1. TypeInv'
    BY <1>2 DEF ListenerFails, CloseDescriptor, KeepSSL
  <2>2. Held'
    BY <1>2 DEF ListenerFails, CloseDescriptor, KeepSSL
  <2>3. InTime'
    BY <1>2 DEF ListenerFails, CloseDescriptor, KeepSSL
  <2> QED
    BY <2>1, <2>2, <2>3
<1>3. CASE Listens
  <2>1. TypeInv'
    BY <1>3 DEF Listens
  <2>2. Held'
    BY <1>3 DEF Listens
  <2>3. InTime'
    BY <1>3 DEF Listens
  <2> QED
    BY <2>1, <2>2, <2>3
<1>4. CASE Resolve
  <2>1. TypeInv'
    BY <1>4 DEF Resolve
  <2>2. Held'
    BY <1>4 DEF Resolve
  <2>3. InTime'
    BY <1>4 DEF Resolve
  <2> QED
    BY <2>1, <2>2, <2>3
<1>5. CASE OpenClient
  <2>1. TypeInv'
    BY <1>5 DEF OpenClient, OpenDescriptor
  <2>2. Held'
    BY <1>5 DEF OpenClient, OpenDescriptor
  <2>3. InTime'
    BY <1>5 DEF OpenClient, OpenDescriptor
  <2> QED
    BY <2>1, <2>2, <2>3
<1>6. CASE OpenClientFails
  <2>1. TypeInv'
    BY <1>6 DEF OpenClientFails
  <2>2. Held'
    BY <1>6 DEF OpenClientFails
  <2>3. InTime'
    BY <1>6 DEF OpenClientFails
  <2> QED
    BY <2>1, <2>2, <2>3
<1>7. CASE NoAddressLeft
  <2>1. TypeInv'
    BY <1>7 DEF NoAddressLeft
  <2>2. Held'
    BY <1>7 DEF NoAddressLeft
  <2>3. InTime'
    BY <1>7 DEF NoAddressLeft
  <2> QED
    BY <2>1, <2>2, <2>3
<1>8. ASSUME NEW w \in 0..timeout, Connected(w) PROVE SocketInv'
  <2>1. TypeInv'
    BY <1>8 DEF Connected
  <2>2. Held'
    BY <1>8 DEF Connected
  <2>3. InTime'
    BY <1>8 DEF Connected
  <2> QED
    BY <2>1, <2>2, <2>3
<1>9. ASSUME NEW w \in 0..timeout, Refused(w) PROVE SocketInv'
  <2>1. TypeInv'
    BY <1>9 DEF Refused, CloseDescriptor, KeepSSL
  <2>2. Held'
    BY <1>9 DEF Refused, CloseDescriptor, KeepSSL
  <2>3. InTime'
    BY <1>9 DEF Refused, CloseDescriptor, KeepSSL
  <2> QED
    BY <2>1, <2>2, <2>3
<1>10. ASSUME NEW w \in 0..timeout, Waits(w) PROVE SocketInv'
  <2>1. TypeInv'
    BY <1>10 DEF Waits
  <2>2. Held'
    BY <1>10 DEF Waits
  <2>3. InTime'
    BY <1>10 DEF Waits
  <2> QED
    BY <2>1, <2>2, <2>3
<1>11. CASE MakeContext
  <2>1. TypeInv'
    BY <1>11 DEF MakeContext
  <2>2. Held'
    BY <1>11 DEF MakeContext
  <2>3. InTime'
    BY <1>11 DEF MakeContext
  <2> QED
    BY <2>1, <2>2, <2>3
<1>12. CASE LoadCertificate
  <2>1. TypeInv'
    BY <1>12 DEF LoadCertificate
  <2>2. Held'
    BY <1>12 DEF LoadCertificate
  <2>3. InTime'
    BY <1>12 DEF LoadCertificate
  <2> QED
    BY <2>1, <2>2, <2>3
<1>13. CASE MakeSession
  <2>1. TypeInv'
    BY <1>13 DEF MakeSession
  <2>2. Held'
    BY <1>13 DEF MakeSession
  <2>3. InTime'
    BY <1>13 DEF MakeSession
  <2> QED
    BY <2>1, <2>2, <2>3
<1>14. CASE SetHost
  <2>1. TypeInv'
    BY <1>14 DEF SetHost
  <2>2. Held'
    BY <1>14 DEF SetHost
  <2>3. InTime'
    BY <1>14 DEF SetHost
  <2> QED
    BY <2>1, <2>2, <2>3
<1>15. CASE HandshakeDone
  <2>1. TypeInv'
    BY <1>15 DEF HandshakeDone
  <2>2. Held'
    BY <1>15 DEF HandshakeDone
  <2>3. InTime'
    BY <1>15 DEF HandshakeDone
  <2> QED
    BY <2>1, <2>2, <2>3
<1>16. CASE SSLFails
  <2>0. /\ contexts' = 0 /\ sessions' = 0 /\ ~context' /\ ~session' /\ at' = "failed"
        /\ open' = {} /\ descriptor' = Closed /\ budget' = 0 /\ waited' = 0 /\ wakeups' = 0
        /\ tls' = tls /\ timeout' = timeout /\ left' = left
    BY <1>16 DEF SSLFails, CloseDescriptor, FreeSSL
  <2>1. TypeInv'
    <3>1. context' \in BOOLEAN /\ session' \in BOOLEAN
      BY <1>16 DEF SSLFails, FreeSSL
    <3>2. open' \subseteq Files /\ at' \in States /\ descriptor' \in Files \cup {Closed}
      BY <2>0
    <3>3. /\ contexts' \in Nat /\ sessions' \in Nat /\ left' \in Nat
          /\ budget' \in Nat /\ waited' \in Nat /\ wakeups' \in Nat
      BY <2>0
    <3>4. tls' \in BOOLEAN /\ timeout' \in Timeouts
      BY <2>0
    <3> QED
      BY <3>1, <3>2, <3>3, <3>4
  <2>2. Held'
    BY <1>16 DEF SSLFails, CloseDescriptor, FreeSSL
  <2>3. InTime'
    BY <1>16 DEF SSLFails, CloseDescriptor, FreeSSL
  <2> QED
    BY <2>1, <2>2, <2>3
<1>17. ASSUME NEW all \in BOOLEAN, ReadCalled PROVE SocketInv'
  <2>1. TypeInv'
    BY <1>17 DEF ReadCalled, Call
  <2>2. Held'
    BY <1>17 DEF ReadCalled, Call
  <2>3. InTime'
    BY <1>17 DEF ReadCalled, Call
  <2> QED
    BY <2>1, <2>2, <2>3
<1>18. CASE Receives
  <2>1. TypeInv'
    BY <1>18 DEF Receives, Return
  <2>2. Held'
    BY <1>18 DEF Receives, Return
  <2>3. InTime'
    BY <1>18 DEF Receives, Return
  <2> QED
    BY <2>1, <2>2, <2>3
<1>19. ASSUME NEW all \in BOOLEAN, WriteCalled PROVE SocketInv'
  <2>1. TypeInv'
    BY <1>19 DEF WriteCalled, Call
  <2>2. Held'
    BY <1>19 DEF WriteCalled, Call
  <2>3. InTime'
    BY <1>19 DEF WriteCalled, Call
  <2> QED
    BY <2>1, <2>2, <2>3
<1>20. ASSUME NEW all \in BOOLEAN, Sends(all) PROVE SocketInv'
  <2>1. TypeInv'
    BY <1>20 DEF Sends, Return, socketVars
  <2>2. Held'
    BY <1>20 DEF Sends, Return, socketVars
  <2>3. InTime'
    BY <1>20 DEF Sends, Return, socketVars
  <2> QED
    BY <2>1, <2>2, <2>3
<1>21. ASSUME NEW from \in {"read", "write"}, GivesUp(from) PROVE SocketInv'
  <2>1. TypeInv'
    BY <1>21 DEF GivesUp, Return
  <2>2. Held'
    BY <1>21 DEF GivesUp, Return
  <2>3. InTime'
    BY <1>21 DEF GivesUp, Return
  <2> QED
    BY <2>1, <2>2, <2>3
<1>22. CASE Close
  <2>0. contexts' = 0 /\ sessions' = 0
    BY <1>22 DEF Close, CloseDescriptor, FreeSSL
  <2>1. TypeInv'
    BY <2>0, <1>22 DEF Close, CloseDescriptor, FreeSSL
  <2>2. Held'
    BY <2>0, <1>22 DEF Close, CloseDescriptor, FreeSSL
  <2>3. InTime'
    BY <2>0, <1>22 DEF Close, CloseDescriptor, FreeSSL
  <2> QED
    BY <2>1, <2>2, <2>3
<1>23. CASE UNCHANGED socketVars
  BY <1>23 DEF socketVars
<1> QED
  BY <1>1, <1>2, <1>3, <1>4, <1>5, <1>6, <1>7, <1>8, <1>9, <1>10, <1>11, <1>12, <1>13, <1>14, <1>15, <1>16, <1>17, <1>18, <1>19, <1>20, <1>21, <1>22, <1>23
     DEF SocketNext, f_socket_create_server, f_socket_create_client, f_socket_create_client_ssl

\* Nothing is leaked: see Sockets.
THEOREM NothingLeaks == SocketSpec => []NothingIsHeld
<1>1. SocketInv => NothingIsHeld
  BY DEF SocketInv, TypeInv, Held, NothingIsHeld, HasDescriptor
<1> QED
  BY InitInv, StepInv, <1>1, PTL DEF SocketSpec

\* No call waits beyond its timeout: see Sockets.
THEOREM CallsAreInTime == SocketSpec => []WithinTimeout
<1>1. SocketInv => WithinTimeout
  BY ConstantsAreNat DEF SocketInv, TypeInv, InTime, WithinTimeout, Waiting, Unlimited
<1> QED
  BY InitInv, StepInv, <1>1, PTL DEF SocketSpec

=============================================================================
