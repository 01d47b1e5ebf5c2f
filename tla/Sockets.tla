------------------------------ MODULE Sockets ------------------------------
(***************************************************************************)
(* One endpoint: the f_socket_* functions of src/src/server.c and their    *)
(* TLS counterparts of src/src/tls.c.  The kernel and OpenSSL are          *)
(* external: what they hold for this program is open, contexts, sessions.  *)
(*                                                                         *)
(* Time is counted in units of select().  As on Linux, select() takes what *)
(* it waited off the timeval, which a call initialises once.               *)
(***************************************************************************)
EXTENDS Naturals

CONSTANTS
    Files,      \* the descriptors the kernel may hand out
    Closed,     \* a descriptor of -1
    Addresses,  \* at most that many from getaddrinfo
    Timeouts,   \* the timeouts of the callers
    Wakeups     \* wakeups per call for which no time has passed

ASSUME SocketAssumption ==
    /\ Closed \notin Files
    /\ Timeouts \subseteq Nat /\ {Addresses, Wakeups} \subseteq Nat

VARIABLES
    tls, timeout,       \* what the caller chose
    at,                 \* the call in progress, or the state between two
    descriptor, context, session,   \* the caller's: context and session are set
    open, contexts, sessions,       \* what really exists
    left,               \* addresses not yet tried
    budget, waited,     \* of the call: the timeval, and the time gone by
    wakeups

choice == <<tls, timeout>>
handles == <<descriptor, context, session, open, contexts, sessions>>
clock == <<budget, waited, wakeups>>
socketVars == <<choice, at, handles, left, clock>>

SocketInit ==
    /\ tls \in BOOLEAN /\ timeout \in Timeouts /\ at = "new"
    /\ descriptor = Closed /\ context = FALSE /\ session = FALSE
    /\ open = {} /\ contexts = 0 /\ sessions = 0
    /\ left = 0 /\ budget = 0 /\ waited = 0 /\ wakeups = 0

Step(from, to) == at \in from /\ at' = to /\ UNCHANGED choice
NoClock == budget' = 0 /\ waited' = 0 /\ wakeups' = 0
NewClock == budget' = timeout /\ waited' = 0 /\ wakeups' = Wakeups

-----------------------------------------------------------------------------
OpenDescriptor(d) ==
    /\ d \in Files \ open /\ open' = open \cup {d} /\ descriptor' = d
    /\ UNCHANGED <<context, session, contexts, sessions>>

CloseDescriptor == open' = open \ {descriptor} /\ descriptor' = Closed

FreeSSL(hasContext, hasSession) ==
    /\ context' = FALSE /\ contexts' = contexts - (IF hasContext THEN 1 ELSE 0)
    /\ session' = FALSE /\ sessions' = sessions - (IF hasSession THEN 1 ELSE 0)

KeepSSL == UNCHANGED <<context, session, contexts, sessions>>

(* f_socket_create_server: any of its steps may fail.                      *)
ListenerOpens ==
    Step({"new"}, "listen") /\ (\E d \in Files : OpenDescriptor(d)) /\ UNCHANGED <<left, clock>>

ListenerFails ==
    \/ Step({"new"}, "failed") /\ UNCHANGED <<handles, left, clock>>
    \/ Step({"listen"}, "failed") /\ CloseDescriptor /\ KeepSSL /\ UNCHANGED <<left, clock>>

Listens == Step({"listen"}, "listener") /\ UNCHANGED <<handles, left, clock>>

f_socket_create_server == ListenerOpens \/ ListenerFails \/ Listens

(* f_socket_create_client: an address after the other.                     *)
Resolve ==
    \/ Step({"new"}, "socket") /\ left' \in 1..Addresses /\ UNCHANGED <<handles, clock>>
    \/ Step({"new"}, "failed") /\ UNCHANGED <<handles, left, clock>>

OpenClient ==
    /\ Step({"socket"}, "connect") /\ left > 0
    /\ \E d \in Files : OpenDescriptor(d)
    /\ UNCHANGED <<left, clock>>

OpenClientFails ==
    /\ Step({"socket"}, "socket") /\ left > 0 /\ left' = left - 1
    /\ descriptor' = Closed /\ UNCHANGED <<context, session, open, contexts, sessions, clock>>

NoAddressLeft == Step({"socket"}, "failed") /\ left = 0 /\ NoClock /\ UNCHANGED <<handles, left>>

\* At once, or when select() has waited for w.
Connected(w) ==
    /\ Step({"connect"}, IF tls THEN "context" ELSE "up") /\ w <= timeout /\ left' = 0
    /\ NoClock /\ UNCHANGED handles

RefusedLeaks(w) ==  \* mutant: the descriptor of an address that failed is not closed
    /\ Step({"connect"}, "socket") /\ left' = left - 1 /\ w <= timeout /\ waited' = waited + w
    /\ descriptor' = Closed /\ UNCHANGED <<open, budget, wakeups>> /\ KeepSSL

\* fcntl, connect or select fails, or the socket has an error.
Refused(w) ==
    /\ Step({"connect"}, "socket") /\ left' = left - 1 /\ w <= timeout /\ waited' = waited + w
    /\ CloseDescriptor /\ KeepSSL /\ UNCHANGED <<budget, wakeups>>

f_socket_create_client ==
    Resolve \/ OpenClient \/ OpenClientFails \/ NoAddressLeft
        \/ \E w \in 0..timeout : Connected(w) \/ Refused(w)

-----------------------------------------------------------------------------
(* The handshake, the reads and the writes wait in a loop.  A plain call   *)
(* whose timeout is 0 waits without a limit, a TLS one not at all.         *)

Waiting == {"handshake", "read", "write"}
Unlimited == ~tls /\ timeout = 0

WaitsAfresh(w) ==  \* mutant: the timeval is initialised in each turn
    /\ at \in Waiting /\ UNCHANGED <<choice, at, handles, left>>
    /\ IF Unlimited THEN w = 0 ELSE w <= budget
    /\ w > 0 \/ wakeups > 0
    /\ budget' = timeout /\ waited' = waited + w
    /\ wakeups' = IF w = 0 THEN wakeups - 1 ELSE wakeups

\* select() has come back after w and the call tries again: there was nothing
\* yet (EAGAIN, a record that is not complete), or, TLS only, select() failed
\* (a signal), which nobody looks at.
Waits(w) ==
    /\ at \in Waiting /\ UNCHANGED <<choice, at, handles, left>>
    /\ IF Unlimited THEN w = 0 ELSE w <= budget
    /\ w > 0 \/ wakeups > 0
    /\ budget' = budget - w /\ waited' = waited + w
    /\ wakeups' = IF w = 0 THEN wakeups - 1 ELSE wakeups

(* f_socket_create_client_ssl, after f_socket_create_client.               *)
MakeContext ==
    /\ Step({"context"}, "certificate") /\ context' = TRUE /\ contexts' = contexts + 1
    /\ UNCHANGED <<descriptor, session, open, sessions, left, clock>>

LoadCertificate == Step({"certificate"}, "session") /\ UNCHANGED <<handles, left, clock>>

MakeSession ==
    /\ Step({"session"}, "verify") /\ session' = TRUE /\ sessions' = sessions + 1
    /\ UNCHANGED <<descriptor, context, open, contexts, left, clock>>

SetHost == Step({"verify"}, "handshake") /\ NewClock /\ UNCHANGED <<handles, left>>

HandshakeDone == Step({"handshake"}, "up") /\ NoClock /\ UNCHANGED <<handles, left>>

\* Each step may fail, and frees what those before it have made.
SSLFails ==
    /\ Step({"context", "certificate", "session", "verify", "handshake"}, "failed")
    /\ FreeSSL(at # "context", at \in {"verify", "handshake"}) /\ CloseDescriptor
    /\ NoClock /\ UNCHANGED left

f_socket_create_client_ssl ==
    MakeContext \/ LoadCertificate \/ MakeSession \/ SetHost \/ HandshakeDone \/ SSLFails

-----------------------------------------------------------------------------
Call(to) == Step({"up"}, to) /\ NewClock /\ UNCHANGED <<handles, left>>
Return(from) == Step({from}, "up") /\ NoClock /\ UNCHANGED <<handles, left>>

\* f_socket_read and f_socket_read_ssl: the first bytes end the call, and so
\* does a timeout, which takes all the time there is, or a failure.
ReadCalled == Call("read")
Receives == Return("read")
GivesUpPlain(from) == ~tls /\ Return(from)  \* mutant: a TLS call ignores the end of its time
GivesUp(from) == Return(from)

\* f_socket_write and f_socket_write_ssl: again until all the bytes are sent.
WriteCalled == Call("write")
Sends(all) ==
    IF all THEN Return("write") ELSE at = "write" /\ UNCHANGED socketVars

\* f_socket_close and f_socket_close_ssl.
Close ==
    /\ Step({"up", "listener", "failed", "closed"}, "closed")
    /\ FreeSSL(context, session) /\ CloseDescriptor /\ NoClock /\ UNCHANGED left

SocketNext ==
    \/ f_socket_create_server \/ f_socket_create_client \/ f_socket_create_client_ssl
    \/ (\E w \in 0..timeout : Waits(w))
    \/ ReadCalled \/ Receives \/ WriteCalled \/ (\E all \in BOOLEAN : Sends(all))
    \/ (\E from \in {"read", "write"} : GivesUp(from)) \/ Close

SocketSpec == SocketInit /\ [][SocketNext]_socketVars

-----------------------------------------------------------------------------
\* What exists in the kernel and in OpenSSL is what the caller holds, and after
\* a failed creation, whichever step failed, or a close, that is nothing.
NothingIsHeld ==
    /\ open = {descriptor} \ {Closed}
    /\ contexts = (IF context THEN 1 ELSE 0) /\ sessions = (IF session THEN 1 ELSE 0)
    /\ at \in {"new", "failed", "closed"} => open = {} /\ ~context /\ ~session
    /\ at = "up" => open # {} /\ context = tls /\ session = tls

\* However often a call is woken up, it waits no longer than its timeout (a
\* creation: than one timeout for each address), unless it has no limit.
WithinTimeout ==
    ~Unlimited => waited <= IF at \in Waiting THEN timeout ELSE Addresses * timeout

=============================================================================
