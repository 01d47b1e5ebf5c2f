--------------------------- MODULE HttpOverSocket ---------------------------
(***************************************************************************)
(* A message over a connection: an endpoint connects, f_http_payload_write *)
(* (src/src/http_payload.c) serialises and sends the message through       *)
(* f_socket_write or f_socket_write_ssl, the peer, whose answer to it is   *)
(* not modelled, holds the other end, and f_http_payload_read takes it     *)
(* from f_socket_read or f_socket_read_ssl.  A reader cannot tell a byte   *)
(* that was not sent yet from one in flight, so it starts when all are.    *)
(***************************************************************************)
EXTENDS HttpPayload, Sockets

allVars == <<httpVars, socketVars>>

\* The caller has no message before the call.
OverInit == Init /\ SocketInit

Connect ==
    /\ f_socket_create_server \/ f_socket_create_client \/ f_socket_create_client_ssl
    /\ UNCHANGED httpVars

WaitsOn == \E w \in 0..timeout : Waits(w) /\ UNCHANGED httpVars

-----------------------------------------------------------------------------
(* f_http_payload_write.                                                   *)

f_http_payload_serialize ==
    \/ /\ SerializeStart \/ p_http_payload_serialize_headers \/ SerializeFails
       /\ at = "up" /\ UNCHANGED socketVars
    \/ SerializeBody /\ WriteCalled

\* n bytes more; what follows the message is the next one of the same sender.
WriteSome(n) ==
    /\ pc = "send" /\ at = "write" /\ n <= Len(raw_payload) - Len(wire)
    /\ LET all == Len(wire) + n = Len(raw_payload) IN
       /\ Sends(all) /\ pc' = IF all THEN "out" ELSE pc
       /\ wire' = wire \o SubSeq(raw_payload, Len(wire) + 1, Len(wire) + n)
                       \o (IF all THEN Trailing ELSE <<>>)
    /\ UNCHANGED <<message, buffer, parsed, starved>>

\* The caller does not learn how much was sent: the connection is of no use.
WriteFails ==
    /\ pc = "send" /\ GivesUp("write") /\ pc' = "over"
    /\ UNCHANGED <<message, wire, buffer, parsed, starved>>

f_http_payload_write ==
    \/ f_http_payload_serialize \/ WriteFails
    \/ at = "write" /\ \E n \in 1..Len(raw_payload) : WriteSome(n)

-----------------------------------------------------------------------------
(* f_http_payload_read, with either read function.                         *)

StartRead == pc = "read" /\ ReadCalled /\ UNCHANGED httpVars

ReadReturns == \E n \in 1..Len(wire) : ReadSome(n) /\ Receives

ReadFails == ReadTimeout /\ GivesUp("read")

\* The rest of the loop runs between the calls.
Between ==
    /\ at = "up" /\ UNCHANGED socketVars
    /\ ReadCall \/ ReadNoMemory \/ f_http_payload_unserialize \/ Compact

f_http_payload_read == StartRead \/ ReadReturns \/ ReadFails \/ Between

\* The blocks go, the pointers to them stay.
f_http_payload_free ==
    /\ pc = "out" /\ step = "completed" /\ pc' = "over" /\ step' = "A"
    /\ UNCHANGED <<message, wire, buffer, premature, payload, starved, socketVars>>

Hangup == (pc = "over" \/ at \in {"failed", "listener"}) /\ Close /\ UNCHANGED httpVars

HttpCall == WaitsOn \/ f_http_payload_write \/ f_http_payload_read

OverNext == Connect \/ HttpCall \/ f_http_payload_free \/ Hangup

\* A call that was made goes on.
OverSpec == OverInit /\ [][OverNext]_allVars /\ WF_allVars(HttpCall)

-----------------------------------------------------------------------------
\* A call that has a limit comes back, whatever its wakeups.
CallsReturn ==
    \A from \in {"read", "write"} : (at = from /\ ~Unlimited) ~> at = "up"

=============================================================================
