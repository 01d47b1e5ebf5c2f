---------------------------- MODULE HttpPayload ----------------------------
(***************************************************************************)
(* s_http_payload (src/src/http_payload.c): one side serialises a message, *)
(* the other reads it from a socket that delivers it in arbitrary pieces,  *)
(* parsing what it can after each piece.                                   *)
(*                                                                         *)
(* A text is a sequence of symbols: a delimiter byte, or a word, whose     *)
(* letters the parser never looks at.  A null pointer is the empty text.   *)
(***************************************************************************)
EXTENDS Naturals, Sequences, SequencesExt

CONSTANTS
    Symbols,      \* what texts are made of
    Methods,      \* m_http_methods_keywords
    Numerals,     \* the numbers, from the words that atoi reads
    Lowercase,    \* the words that tolower changes, and what it makes of them
    Messages,     \* payloads that may be sent
    Trailing,     \* what follows the message on the wire
    BufferSize,   \* d_http_payload_buffer_size
    MinimumSpace  \* d_http_payload_buffer_minimum_space_before_increment

Skippable == {" ", "TAB", "CR", "LF"}
Words == Symbols \ (Skippable \cup {"NUL", ":"})

ASSUME SymbolAssumption ==
    /\ Skippable \cup {"NUL", ":"} \subseteq Symbols /\ {"0", "000"} \subseteq Words
    /\ Methods \subseteq Words /\ Trailing \in Seq(Symbols)
    /\ Numerals \in [DOMAIN Numerals -> Nat] /\ DOMAIN Numerals \subseteq Words \ {"0", "000"}
    /\ "content-length" \notin DOMAIN Lowercase

ASSUME SpaceAssumption ==
    {BufferSize, MinimumSpace} \subseteq Nat /\ 2 <= MinimumSpace
                                             /\ MinimumSpace <= BufferSize

NUL == "NUL"
NewLine == <<"CR", "LF">>
Space == <<" ">>

VARIABLES
    sent,          \* the payload that is serialised
    raw_payload,   \* its bytes so far
    unvisited,     \* the keys the dictionary has still to visit
    lines,         \* ghost: the header lines written, and where each starts
    wire,          \* the bytes not yet received
    in_buffer, payload_size, shift,   \* the accumulators of the caller
    step,          \* current_sequence_step
    premature,     \* premature_start_line_termination
    payload,       \* the fields parsed so far
    pc,            \* where the caller, or f_http_payload_read, is
    starved        \* an allocation has failed that costs a part of the message

message == <<sent, raw_payload, unvisited, lines>>
buffer == <<in_buffer, payload_size, shift>>
parsed == <<step, premature, payload>>
httpVars == <<message, wire, buffer, parsed, pc, starved>>

-----------------------------------------------------------------------------
(* Values.                                                                 *)

atoi(text) == IF Len(text) = 1 /\ text[1] \in DOMAIN Numerals THEN Numerals[text[1]] ELSE 0
itoa(n) == IF n = 0 THEN <<"0">> ELSE <<CHOOSE s \in DOMAIN Numerals : Numerals[s] = n>>
tolower(text) == [i \in 1..Len(text) |->
                     IF text[i] \in DOMAIN Lowercase THEN Lowercase[text[i]] ELSE text[i]]

\* A dictionary after a value was stored under a key.
With(entries, key, value) ==
    [k \in DOMAIN entries \cup {key} |-> IF k = key THEN value ELSE entries[k]]

f_http_payload_initialize ==
    [method |-> <<>>, path |-> <<>>, version |-> <<>>, status_code |-> 0,
     status_message |-> <<>>, configuration |-> <<>>, body |-> <<>>]

\* The content-length of a payload, 0 when it has none.
Announced(h) == IF <<"content-length">> \in DOMAIN h.configuration
                  THEN atoi(h.configuration[<<"content-length">>]) ELSE 0

-----------------------------------------------------------------------------
(* The sender: setters and f_http_payload_serialize.                       *)
(* The setters build the messages to send, with memory for what they store. *)

f_http_payload_set_request_starting_line(h, method, path, version) ==
    [h EXCEPT !.method = method, !.path = path, !.version = version]

f_http_payload_set_response_starting_line(h, version, status_code, text) ==
    [h EXCEPT !.version = version, !.status_code = status_code, !.status_message = text]

f_http_payload_append_header(h, key, value) ==
    [h EXCEPT !.configuration = With(@, key, value)]

f_http_payload_set_body(h, body, set_header) ==
    LET stored == [h EXCEPT !.body = body] IN
    IF set_header
      THEN f_http_payload_append_header(stored, <<"content-length">>, itoa(Len(body)))
      ELSE stored

StatusText(h) == IF h.status_code \in 100..599 THEN itoa(h.status_code) ELSE <<"000">>

StartFields(h) == IF h.method # <<>> THEN <<h.method, h.path, h.version>>
                                     ELSE <<h.version, StatusText(h), h.status_message>>

StartLine(h) ==
    StartFields(h)[1] \o Space \o StartFields(h)[2] \o Space \o StartFields(h)[3] \o NewLine

HeaderLine(h, key) == key \o <<":", " ">> \o h.configuration[key] \o NewLine

\* At most the announced size of the body is written.
BodyPart(h) == SubSeq(h.body, 1, IF Announced(h) > Len(h.body) THEN Len(h.body) ELSE Announced(h))

\* The messages that can be told from their bytes.  The start line is set as a
\* request or as a response; its fields and the headers hold nothing that ends
\* them, and none is empty but where a line may end early; no two keys differ by
\* their case only; and what is announced is the body.
Free(delimiters) == Seq(Symbols \ delimiters)

WellFormedStart(h) ==
    /\ h.version \in Free({NUL, " ", "CR"}) /\ h.status_code \in Nat
    /\ \/ /\ \E m \in Methods : h.method = <<m>>
          /\ h.path \in Free({NUL, " ", "CR"}) \ {<<>>}
          /\ h.status_code = 0 /\ h.status_message = <<>>
       \/ /\ h.method = <<>> /\ h.path = <<>> /\ h.status_message \in Free({NUL, "CR"})
          /\ h.version # <<>> /\ \A m \in Methods : h.version # <<m>>
          /\ h.status_code \in 100..599 =>
                \E s \in DOMAIN Numerals : Numerals[s] = h.status_code

WellFormedHeaders(headers) ==
    \A key \in DOMAIN headers :
        /\ key \in Free({NUL, ":", "CR"}) \ {<<>>}
        /\ headers[key] \in Free({NUL, "CR"}) \ {<<>>}
        /\ {headers[key][1], Last(headers[key])} \cap Skippable = {}
        /\ \A k \in DOMAIN headers \cup {<<"content-length">>} : tolower(k) = tolower(key) => k = key

WellFormed(h) ==
    /\ h = [method |-> h.method, path |-> h.path, version |-> h.version,
            status_code |-> h.status_code, status_message |-> h.status_message,
            configuration |-> h.configuration, body |-> h.body]
    /\ WellFormedStart(h) /\ WellFormedHeaders(h.configuration)
    /\ h.body \in Free({NUL}) /\ Len(h.body) = Announced(h)

WellFormedMessages == \A h \in Messages : WellFormed(h)

SerializeStart ==
    /\ pc = "write" /\ pc' = "headers" /\ sent' \in Messages
    /\ raw_payload' = StartLine(sent') /\ lines' = <<>>
    /\ unvisited' = DOMAIN sent'.configuration
    /\ UNCHANGED <<wire, buffer, parsed, starved>>

\* The dictionary is visited in the order of its hashes: some order.  Without
\* memory for its line a header is left out, and nobody is told.
p_http_payload_serialize_headers ==
    /\ pc = "headers"
    /\ \E key \in unvisited :
        /\ unvisited' = unvisited \ {key}
        /\ \/ /\ raw_payload' = raw_payload \o HeaderLine(sent, key)
              /\ lines' = Append(lines, [key |-> key, from |-> Len(raw_payload)])
              /\ UNCHANGED starved
           \/ starved' = TRUE /\ UNCHANGED <<raw_payload, lines>>
    /\ UNCHANGED <<sent, wire, buffer, parsed, pc>>

SerializeBody ==
    /\ pc = "headers" /\ unvisited = {} /\ pc' = "send"
    /\ raw_payload' = raw_payload \o NewLine \o BodyPart(sent)
    /\ UNCHANGED <<sent, unvisited, lines, wire, buffer, parsed, starved>>

\* No memory for the start line, or for the body.
SerializeFails ==
    /\ pc = "write" \/ (pc = "headers" /\ unvisited = {})
    /\ pc' = "over"
    /\ UNCHANGED <<message, wire, buffer, parsed, starved>>

\* What the receiver should make of it: the keys in lower case, no status code
\* out of range.
Received(h) ==
    [h EXCEPT !.configuration =
        [key \in {tolower(k) : k \in DOMAIN h.configuration} |->
            h.configuration[CHOOSE k \in DOMAIN h.configuration : tolower(k) = key]],
              !.status_code = IF h.status_code \in 100..599 THEN h.status_code ELSE 0]

-----------------------------------------------------------------------------
\* Nothing is serialised, and the accumulators of the reader are all zero.
Init ==
    /\ sent = f_http_payload_initialize /\ raw_payload = <<>>
    /\ unvisited = {} /\ lines = <<>> /\ wire = <<>> /\ pc = "write"
    /\ in_buffer = <<>> /\ payload_size = 0 /\ shift = 0
    /\ step = "A" /\ premature = FALSE /\ payload = f_http_payload_initialize
    /\ starved = FALSE

Zeros(n) == [i \in 1..n |-> NUL]

(***************************************************************************)
(* f_http_payload_read: grow the buffer when it is almost full, read,      *)
(* unserialize, drop what was consumed.  It returns on a completed message *)
(* and on any failure, after which it can be called again.                 *)
(***************************************************************************)
ReadCall ==
    pc = "out" /\ step # "completed" /\ pc' = "read"
        /\ UNCHANGED <<message, wire, buffer, parsed, starved>>

Residual == Len(in_buffer) - payload_size
Grown == IF Residual < MinimumSpace THEN in_buffer \o Zeros(BufferSize) ELSE in_buffer

\* d_realloc fails: SHIT_NO_MEMORY.
ReadNoMemory ==
    /\ pc = "read" /\ Grown # in_buffer /\ pc' = "out"
    /\ UNCHANGED <<message, wire, buffer, parsed, starved>>

\* f_read gives up, nothing has arrived in time.
ReadTimeout ==
    /\ pc = "read" /\ pc' = "out" /\ in_buffer' = Grown
    /\ UNCHANGED <<message, wire, payload_size, shift, parsed, starved>>

\* f_read delivers n bytes, at most the space less one.
ReadSome(n) ==
    /\ pc = "read" /\ n <= Len(Grown) - payload_size - 1 /\ n <= Len(wire)
    /\ in_buffer' = [i \in 1..Len(Grown) |->
                        IF i \in payload_size + 1 .. payload_size + n
                          THEN wire[i - payload_size] ELSE Grown[i]]
    /\ payload_size' = payload_size + n
    /\ wire' = SubSeq(wire, n + 1, Len(wire))
    /\ pc' = "parse"
    /\ UNCHANGED <<message, shift, parsed, starved>>

CompactNoClear ==  \* mutant: the end of the buffer is not zeroed after the memmove
    /\ pc = "compact"
    /\ in_buffer' = SubSeq(in_buffer, shift + 1, Len(in_buffer))
                       \o SubSeq(in_buffer, Len(in_buffer) - shift + 1, Len(in_buffer))
    /\ payload_size' = payload_size - shift /\ shift' = 0
    /\ pc' = IF step = "completed" THEN "out" ELSE "read"
    /\ UNCHANGED <<message, wire, parsed, starved>>

Compact ==
    /\ pc = "compact"
    /\ in_buffer' = SubSeq(in_buffer, shift + 1, Len(in_buffer)) \o Zeros(shift)
    /\ payload_size' = payload_size - shift /\ shift' = 0
    /\ pc' = IF step = "completed" THEN "out" ELSE "read"
    /\ UNCHANGED <<message, wire, parsed, starved>>

-----------------------------------------------------------------------------
(* f_http_payload_unserialize: one turn of its loop per action.  The loop  *)
(* goes on for as long as a turn changes the step.                         *)

\* Offsets at which the C string that starts at an offset holds the needle.
Hits(needle, from) ==
    {k \in from .. Len(in_buffer) - Len(needle) :
        /\ SubSeq(in_buffer, k + 1, k + Len(needle)) = needle
        /\ \A i \in from + 1 .. k : in_buffer[i] # NUL}

First(offsets) == CHOOSE k \in offsets : \A j \in offsets : k <= j

\* p_http_payload_unserialize_block: takes the text up to the needle, and the
\* needle.  Without memory for a text there is none and only the length of the
\* needle is taken (a word is one symbol here, of which nothing stays).
Present(needle) == payload_size > shift /\ Hits(needle, shift) # {}

Block(needle, ok) ==
    LET end == First(Hits(needle, shift)) IN
    IF ok THEN [text |-> SubSeq(in_buffer, shift + 1, end), next |-> end + Len(needle)]
          ELSE [text |-> <<>>, next |-> shift + Len(needle)]

\* Whether there is memory for the text, when there is a text.
Allocated(needle, ok) ==
    /\ ok \/ First(Hits(needle, shift)) > shift
    /\ starved' = (starved \/ ~ok)

Goto(s) ==
    /\ step' = s
    /\ pc' = IF s = step \/ s = "completed" THEN "compact" ELSE "parse"

\* Nothing to take: more bytes are needed.
Wait == pc' = "compact" /\ UNCHANGED <<shift, parsed, starved>>

Turn(s) == pc = "parse" /\ step = s /\ UNCHANGED <<message, wire, in_buffer, payload_size>>

\* The method of a request, or the version of a response.
StepA ==
    /\ Turn("A")
    /\ \/ ~Present(Space) /\ Wait
       \/ \E ok \in BOOLEAN : LET b == Block(Space, ok) IN
            /\ Present(Space) /\ Allocated(Space, ok)
            /\ shift' = b.next /\ UNCHANGED premature
            /\ \/ b.text = <<>> /\ Goto("A") /\ UNCHANGED payload
               \/ /\ b.text # <<>> /\ Goto("B")
                  /\ payload' = IF \E m \in Methods : b.text = <<m>>
                                  THEN [payload EXCEPT !.method = b.text]
                                  ELSE [payload EXCEPT !.version = b.text]

SecondField(text) ==
    IF payload.method # <<>> THEN [payload EXCEPT !.path = text]
    ELSE IF atoi(text) \in 100..599 THEN [payload EXCEPT !.status_code = atoi(text)]
    ELSE payload

\* The path or the status code, which ends at a space, or at the end of the
\* line when a new line, looked for from the start of the buffer, comes before.
StepB ==
    /\ Turn("B")
    /\ \/ ~Present(Space) /\ Wait
       \/ /\ Present(Space)
          /\ premature' = (\E k \in Hits(<<"CR">>, 0) : k < First(Hits(Space, shift)))
          /\ LET needle == IF premature' THEN NewLine ELSE Space IN
             \/ ~Present(needle) /\ Goto("B") /\ UNCHANGED <<shift, payload, starved>>
             \/ \E ok \in BOOLEAN : LET b == Block(needle, ok) IN
                  /\ Present(needle) /\ Allocated(needle, ok) /\ shift' = b.next
                  /\ \/ b.text = <<>> /\ Goto("B") /\ UNCHANGED payload
                     \/ /\ b.text # <<>> /\ Goto(IF premature' THEN "key_value" ELSE "C")
                        /\ payload' = SecondField(b.text)

\* The version or the status message, which may be empty.
StepC ==
    /\ Turn("C")
    /\ \/ ~Present(NewLine) /\ Wait
       \/ \E ok \in BOOLEAN : LET b == Block(NewLine, ok) IN
            /\ Present(NewLine) /\ Allocated(NewLine, ok)
            /\ shift' = b.next /\ Goto("key_value")
            /\ premature' = (premature \/ b.text = <<>>)
            /\ payload' = IF b.text = <<>> THEN payload
                          ELSE IF payload.method # <<>> THEN [payload EXCEPT !.version = b.text]
                          ELSE [payload EXCEPT !.status_message = b.text]

Trimmed(text) ==
    LET kept == {i \in 1..Len(text) : text[i] \notin Skippable} IN
    IF kept = {} THEN <<>>
    ELSE SubSeq(text, First(kept), CHOOSE i \in kept : \A j \in kept : j <= i)

Colon(line) == {i \in 1..Len(line) : line[i] = ":"}
Key(line) == SubSeq(line, 1, First(Colon(line)) - 1)
Value(line) == Trimmed(SubSeq(line, First(Colon(line)) + 1, Len(line)))
IsHeader(line) == Colon(line) # {} /\ Key(line) # <<>> /\ Value(line) # <<>>

StepKeyValueCased ==  \* mutant: the key is not put in lower case
    /\ Turn("key_value")
    /\ \/ ~Present(NewLine) /\ Wait
       \/ /\ Present(NewLine) /\ UNCHANGED <<premature, starved>>
          /\ LET b == Block(NewLine, TRUE) IN
             /\ shift' = b.next
             /\ \/ b.text = <<>> /\ Goto("payload") /\ UNCHANGED payload
                \/ /\ IsHeader(b.text) /\ Goto("key_value_again")
                   /\ payload' = [payload EXCEPT !.configuration =
                                     With(@, Key(b.text), Value(b.text))]
                \/ b.text # <<>> /\ ~IsHeader(b.text) /\ Goto("key_value") /\ UNCHANGED payload

StepKeyValueOnce ==  \* mutant: a header does not change the step
    /\ Turn("key_value")
    /\ \/ ~Present(NewLine) /\ Wait
       \/ /\ Present(NewLine) /\ UNCHANGED <<premature, starved>>
          /\ LET b == Block(NewLine, TRUE) IN
             /\ shift' = b.next
             /\ \/ b.text = <<>> /\ Goto("payload") /\ UNCHANGED payload
                \/ /\ IsHeader(b.text) /\ Goto("key_value")
                   /\ payload' = [payload EXCEPT !.configuration =
                                     With(@, tolower(Key(b.text)), Value(b.text))]
                \/ b.text # <<>> /\ ~IsHeader(b.text) /\ Goto("key_value") /\ UNCHANGED payload

\* A header, or the empty line that ends them.  A line that is no header is
\* consumed without a change of step.
StepKeyValue ==
    /\ Turn("key_value")
    /\ \/ ~Present(NewLine) /\ Wait
       \/ \E ok \in BOOLEAN : LET b == Block(NewLine, ok) IN
            /\ Present(NewLine) /\ Allocated(NewLine, ok)
            /\ shift' = b.next /\ UNCHANGED premature
            /\ \/ b.text = <<>> /\ Goto("payload") /\ UNCHANGED payload
               \/ /\ IsHeader(b.text) /\ Goto("key_value_again")
                  /\ payload' = [payload EXCEPT !.configuration =
                                    With(@, tolower(Key(b.text)), Value(b.text))]
               \/ b.text # <<>> /\ ~IsHeader(b.text) /\ Goto("key_value") /\ UNCHANGED payload
       \/ \* no memory for a dictionary node: the line is lost
          /\ Present(NewLine) /\ IsHeader(Block(NewLine, TRUE).text)
          /\ shift' = Block(NewLine, TRUE).next /\ starved' = TRUE
          /\ Goto("key_value") /\ UNCHANGED <<premature, payload>>

StepKeyValueAgain ==
    Turn("key_value_again") /\ Goto("key_value")
        /\ UNCHANGED <<shift, premature, payload, starved>>

\* strncpy: what follows a NUL is zeroed.
Copied(text) ==
    [i \in 1..Len(text) |-> IF \E j \in 1..i : text[j] = NUL THEN NUL ELSE text[i]]

StepPayload ==
    /\ Turn("payload") /\ UNCHANGED premature
    /\ \/ /\ Announced(payload) = 0 /\ Goto("completed")
          /\ UNCHANGED <<shift, payload, starved>>
       \/ /\ Announced(payload) > payload_size - shift /\ Goto("payload")
          /\ UNCHANGED <<shift, payload, starved>>
       \/ /\ Announced(payload) \in 1 .. payload_size - shift
          /\ shift' = shift + Announced(payload) /\ Goto("completed")
          /\ payload' = [payload EXCEPT
                !.body = Copied(SubSeq(in_buffer, shift + 1, shift + Announced(payload)))]
          /\ UNCHANGED starved
       \/ \* no memory for the body
          /\ Announced(payload) \in 1 .. payload_size - shift
          /\ Goto("payload") /\ starved' = TRUE /\ UNCHANGED <<shift, payload>>

f_http_payload_unserialize ==
    \/ StepA \/ StepB \/ StepC \/ StepKeyValue \/ StepKeyValueAgain \/ StepPayload

-----------------------------------------------------------------------------
Steps == {"A", "B", "C", "key_value", "key_value_again", "payload", "completed"}

TypeOK ==
    /\ step \in Steps /\ premature \in BOOLEAN /\ starved \in BOOLEAN
    /\ pc \in {"write", "headers", "send", "out", "read", "parse", "compact", "over"}
    /\ shift <= payload_size /\ payload_size <= Len(in_buffer)
    /\ Len(in_buffer) % BufferSize = 0
    /\ DOMAIN payload = DOMAIN f_http_payload_initialize

\* However the bytes are cut, what one side serialised is what the other side
\* has parsed when it says that the message is completed, and the bytes behind
\* it stay in the buffer for the next message, unless memory ran out.
RoundTrip ==
    step = "completed" /\ ~starved =>
        /\ payload = Received(sent)
        /\ pc = "out" => SubSeq(in_buffer, 1, payload_size) \o wire = Trailing

\* "keeps calling f_http_payload_unserialize until the message is completed":
\* it never waits for bytes once the last one of the message was received.
NeverWaitsInVain ==
    pc \in {"read", "out"} /\ Len(wire) <= Len(Trailing) /\ ~starved => step = "completed"

\* strstr and strchr never look beyond the bytes received: a terminator follows
\* them, and nothing an earlier message left behind.
TerminatorKept ==
    /\ TypeOK
    /\ pc \in {"parse", "compact"} => payload_size < Len(in_buffer)
    /\ \A i \in payload_size + 1 .. Len(in_buffer) : in_buffer[i] = NUL

=============================================================================
