--------------------------- MODULE MCHttpPayload ---------------------------
(***************************************************************************)
(* Instances of HttpPayload for TLC: requests and responses with every     *)
(* combination of a few start lines, header sets and bodies.               *)
(***************************************************************************)
EXTENDS HttpOverSocket, TLC

MCNumerals == ("1" :> 1) @@ ("2" :> 2) @@ ("3" :> 3) @@ ("200" :> 200)
MCLowercase == ("Host" :> "host") @@ ("Content-Length" :> "content-length")

MCSymbols ==
    Skippable \cup DOMAIN MCNumerals \cup DOMAIN MCLowercase
        \cup {"NUL", ":", "0", "000", "GET", "POST", "/", "HTTP", "OK", "Not", "Found", "a", "b",
              "x", "content-length"}

Requests ==
    {f_http_payload_set_request_starting_line(f_http_payload_initialize, <<"GET">>, <<"/">>, v)
        : v \in {<<>>, <<"HTTP">>}}

Responses ==
    {f_http_payload_set_response_starting_line(f_http_payload_initialize, <<"HTTP">>, c[1], c[2])
        : c \in {<<0, <<>>>>, <<200, <<"OK">>>>, <<200, <<"Not", " ", "Found">>>>}}

Starts == Requests \cup Responses

Hosts(hs, value) == {f_http_payload_append_header(h, <<"Host">>, value) : h \in hs}

WithBody(hs, body) == {f_http_payload_set_body(h, body, TRUE) : h \in hs}

\* No header, one, a body alone and with a header, in either order; the bodies
\* look like the syntax of a header.
MCMessages ==
    Starts \cup Hosts(Starts, <<"1">>) \cup WithBody(Starts, <<"x", ":", " ">>)
           \cup WithBody(Hosts({h \in Starts : h.version = <<>> \/ h.status_code = 200},
                               <<"a", " ", "b">>), <<"CR", "LF">>)

ASSUME MessagesAreWellFormed == \A h \in MCMessages : WellFormed(h)

\* A header whose value is empty, which is valid.
MCEmptyValue == Starts \cup Hosts(Starts, <<>>)

MCTrailing == <<"GET", " ">>
MCNoTrailing == <<>>

=============================================================================
