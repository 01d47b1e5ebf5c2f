------------------------------ MODULE HttpProofs ------------------------------
(***************************************************************************)
(* What holds of a message over a connection whatever the messages, the    *)
(* cuts and the sizes of the buffer are: the parser never looks beyond     *)
(* the bytes received, and the connection underneath is used as Sockets    *)
(* says, so that what is proved of it there holds here.                    *)
(*                                                                         *)
(* What carries the first proof: a needle holds no NUL, everything behind  *)
(* the bytes received is NUL, so a needle that is found lies in the bytes  *)
(* received, and shift never passes them.                                  *)
(*                                                                         *)
(* What carries the round trip: the bytes sent are those of the message,   *)
(* line behind line, what was received and what is still to come are the   *)
(* bytes sent, and the parser stands behind the lines it has taken.        *)
(***************************************************************************)
EXTENDS HttpOverSocket, SocketsProofs, SequenceTheorems, WellFoundedInduction

-----------------------------------------------------------------------------
(* Numbers and sequences.                                                  *)

Less == {p \in Nat \X Nat : p[1] < p[2]}

\* The first of some offsets is one of them, and no other comes before it.
LEMMA FirstIsLeast ==
    ASSUME NEW offsets \in SUBSET Nat, offsets # {}
    PROVE  First(offsets) \in offsets /\ \A j \in offsets : First(offsets) <= j
<1>1. \E k \in offsets : \A j \in offsets : k <= j
  <2>1. OpToRel(<, Nat) = Less
    BY Zenon DEF OpToRel, Less
  <2>2. IsWellFoundedOn(Less, Nat)
    BY <2>1, NatLessThanWellFounded, Zenon
  <2>3. PICK k \in offsets : \A j \in offsets : ~ (<<j, k>> \in Less)
    BY <2>2, WFMin
  <2>4. \A i, j \in Nat : i < j => <<i, j>> \in Less
    BY DEF Less
  <2>5. \A j \in offsets : j \in Nat
    OBVIOUS
  <2>6. \A j \in offsets : ~ (j < k)
    BY <2>3, <2>4, <2>5
  <2> QED
    BY <2>5, <2>6
<1> QED
  BY <1>1 DEF First

\* A multiple of b stays one when b is added.
LEMMA Multiples ==
    ASSUME NEW n \in Nat, NEW b \in Nat, 1 <= b, n % b = 0
    PROVE  (n + b) % b = 0
<1>1. n = b * (n \div b)
  OBVIOUS
<1>2. PICK q \in Nat : n = b * q
  <2>1. n \div b \in Nat
    OBVIOUS
  <2> QED
    BY <1>1, <2>1
<1>3. PICK p \in Nat : p = q + 1
  OBVIOUS
<1>4. PICK m : m = n + b
  OBVIOUS
<1>5. m = b * p
  BY <1>2, <1>3, <1>4
<1>6. (b * p) % b = 0
  OBVIOUS
<1> QED
  BY <1>4, <1>5, <1>6

\* What is tabulated over 1 .. n is a sequence of length n.
LEMMA Tabulated ==
    ASSUME NEW n \in Nat, NEW f, DOMAIN f = 1 .. n, f = [i \in 1 .. n |-> f[i]]
    PROVE  (\E S : f \in Seq(S)) /\ Len(f) = n
<1>1. PICK S : S = {f[i] : i \in 1 .. n}
  OBVIOUS
<1>2. f \in [1 .. n -> S]
  BY <1>1
<1>3. f \in Seq(S)
  BY <1>2, SeqDef
<1> QED
  BY <1>3, LenProperties

\* Two texts behind each other, whatever their bytes.
LEMMA Joined ==
    ASSUME NEW S, NEW s \in Seq(S), NEW T, NEW t \in Seq(T)
    PROVE  /\ \E U : s \o t \in Seq(U)
           /\ Len(s \o t) = Len(s) + Len(t)
           /\ \A i \in 1 .. Len(s) + Len(t) :
                (s \o t)[i] = IF i <= Len(s) THEN s[i] ELSE t[i - Len(s)]
<1>1. s \in Seq(S \cup T) /\ t \in Seq(S \cup T)
  BY SeqMonotonic
<1> QED
  BY <1>1, ConcatProperties

LEMMA ZerosAreNul ==
    ASSUME NEW n \in Nat
    PROVE  /\ Zeros(n) \in Seq({NUL}) /\ Len(Zeros(n)) = n
           /\ \A i \in 1 .. n : Zeros(n)[i] = NUL
<1>1. Zeros(n) \in [1 .. n -> {NUL}]
  BY DEF Zeros
<1>2. Zeros(n) \in Seq({NUL})
  BY <1>1, SeqDef
<1> QED
  BY <1>1, <1>2, LenProperties DEF Zeros

-----------------------------------------------------------------------------
(* The accumulators of the caller.                                         *)

\* All bytes behind the received ones are NUL, at least one while parsing.
Terminated ==
    /\ \E S : in_buffer \in Seq(S)
    /\ payload_size \in Nat /\ shift \in Nat
    /\ shift <= payload_size /\ payload_size <= Len(in_buffer)
    /\ Len(in_buffer) % BufferSize = 0
    /\ pc \in {"parse", "compact"} => payload_size < Len(in_buffer)
    /\ \A i \in payload_size + 1 .. Len(in_buffer) : in_buffer[i] = NUL

PlaceTypes ==
    /\ step \in Steps /\ premature \in BOOLEAN /\ starved \in BOOLEAN
    /\ pc \in {"write", "headers", "send", "out", "read", "parse", "compact", "over"}
    /\ DOMAIN payload = DOMAIN f_http_payload_initialize

ParserInv == PlaceTypes /\ Terminated

LEMMA SizesAreNat ==
    /\ BufferSize \in Nat /\ MinimumSpace \in Nat
    /\ 2 <= MinimumSpace /\ MinimumSpace <= BufferSize /\ 1 <= BufferSize
BY SpaceAssumption

\* The needles are short, and hold no NUL.
LEMMA Needles ==
    ASSUME NEW needle \in {NewLine, Space}
    PROVE  Len(needle) \in {1, 2} /\ \A i \in 1 .. Len(needle) : needle[i] # NUL
<1>1. CASE needle = NewLine
  <2>1. Len(needle) = 2 /\ needle[1] = "CR" /\ needle[2] = "LF"
    BY <1>1 DEF NewLine
  <2>2. "CR" # NUL /\ "LF" # NUL
    BY DEF NUL
  <2>3. \A i \in 1 .. Len(needle) : i = 1 \/ i = 2
    BY <2>1
  <2> QED
    BY <2>1, <2>2, <2>3
<1>2. CASE needle = Space
  <2>1. Len(needle) = 1 /\ needle[1] = " "
    BY <1>2 DEF Space
  <2>2. " " # NUL
    BY DEF NUL
  <2>3. \A i \in 1 .. Len(needle) : i = 1
    <3>1. 1 .. Len(needle) = 1 .. 1
      BY <2>1
    <3> QED
      BY <3>1
  <2> QED
    BY <2>1, <2>2, <2>3
<1> QED
  BY <1>1, <1>2

\* A needle that is found lies in the bytes received.
LEMMA HitIsReceived ==
    ASSUME Terminated, NEW needle \in {NewLine, Space}, Present(needle)
    PROVE  /\ First(Hits(needle, shift)) \in Nat
           /\ shift <= First(Hits(needle, shift))
           /\ First(Hits(needle, shift)) + Len(needle) <= payload_size
<1>1. PICK S : in_buffer \in Seq(S)
  BY DEF Terminated
<1>2. Len(in_buffer) \in Nat /\ payload_size \in Nat /\ shift \in Nat
  BY <1>1, LenProperties DEF Terminated
<1>3. PICK size \in {1, 2} : Len(needle) = size
  BY Needles
<1>4. \A i \in 1 .. size : needle[i] # NUL
  BY <1>3, Needles
<1>5. Hits(needle, shift) \in SUBSET Nat /\ Hits(needle, shift) # {}
  <2>1. \A k \in Hits(needle, shift) : k \in shift .. Len(in_buffer) - size
    BY <1>3 DEF Hits
  <2>2. \A k \in shift .. Len(in_buffer) - size : k \in Nat
    BY <1>2
  <2> QED
    BY <2>1, <2>2 DEF Present
<1>6. PICK k : k = First(Hits(needle, shift))
  OBVIOUS
<1>7. k \in Hits(needle, shift)
  BY <1>5, <1>6, FirstIsLeast
<1>8. /\ k \in Nat /\ shift <= k /\ k + size <= Len(in_buffer)
      /\ SubSeq(in_buffer, k + 1, k + size) = needle
      /\ \A i \in shift + 1 .. k : in_buffer[i] # NUL
  BY <1>2, <1>3, <1>7 DEF Hits
<1>9. \A i \in k + 1 .. k + size : in_buffer[i] # NUL
  <2>1. \A i \in k + 1 .. k + size : in_buffer[i] \in S
    BY <1>1, <1>2, <1>8, ElementOfSeq
  <2>2. \A i \in 1 .. size : SubSeq(in_buffer, k + 1, k + size)[i] = in_buffer[k + i]
    <3>1. k + 1 \in Int /\ k + size \in Int
      BY <1>8
    <3>2. PICK m \in Int, n \in Int : m = k + 1 /\ n = k + size
      BY <3>1
    <3>3. \A i \in 1 .. n - m + 1 : SubSeq(in_buffer, m, n)[i] = in_buffer[m + i - 1]
      <4>1. \A i \in m .. n : in_buffer[i] \in S
        BY <2>1, <3>2
      <4> QED
        BY <4>1, SubSeqProperties
    <3>4. \A i \in 1 .. size : i \in 1 .. n - m + 1 /\ m + i - 1 = k + i
      BY <1>8, <3>2
    <3> QED
      BY <3>2, <3>3, <3>4
  <2>3. \A i \in 1 .. size : in_buffer[k + i] # NUL
    BY <1>4, <1>8, <2>2
  <2>4. \A i \in k + 1 .. k + size : i - k \in 1 .. size /\ k + (i - k) = i
    BY <1>8
  <2> QED
    BY <2>3, <2>4
<1>10. ASSUME payload_size < k + size PROVE FALSE
  <2>1. PICK i : i = payload_size + 1
    OBVIOUS
  <2>2. i \in payload_size + 1 .. Len(in_buffer)
    BY <1>2, <1>8, <1>10, <2>1
  <2>3. in_buffer[i] = NUL
    BY <2>2 DEF Terminated
  <2>4. i \in shift + 1 .. k \/ i \in k + 1 .. k + size
    BY <1>2, <1>8, <1>10, <2>1 DEF Terminated
  <2> QED
    BY <1>8, <1>9, <2>3, <2>4
<1> QED
  BY <1>2, <1>3, <1>6, <1>8, <1>10

\* What p_http_payload_unserialize_block takes ends in the bytes received, with
\* and without the memory for a copy.
LEMMA BlockIsReceived ==
    ASSUME Terminated, NEW needle \in {NewLine, Space}, Present(needle), NEW ok \in BOOLEAN,
           ok \/ First(Hits(needle, shift)) > shift
    PROVE  Block(needle, ok).next \in Nat /\ Block(needle, ok).next <= payload_size
<1>1. PICK k : k = First(Hits(needle, shift))
  OBVIOUS
<1>2. k \in Nat /\ shift <= k /\ k + Len(needle) <= payload_size
  BY <1>1, HitIsReceived
<1>3. Len(needle) \in Nat
  BY Needles
<1>4. Block(needle, ok).next = IF ok THEN k + Len(needle) ELSE shift + Len(needle)
  BY <1>1 DEF Block
<1> QED
  BY <1>1, <1>2, <1>3, <1>4 DEF Terminated

-----------------------------------------------------------------------------
(* The turns of the parser.                                                *)

LEMMA GotoStays ==
    ASSUME NEW s \in Steps, Goto(s)
    PROVE  step' \in Steps /\ pc' \in {"parse", "compact"}
BY DEF Goto

\* A turn leaves the buffer alone.
LEMMA TurnKeepsTerminated ==
    ASSUME Terminated, NEW s, Turn(s), pc' \in {"parse", "compact"},
           shift' \in Nat, shift' <= payload_size
    PROVE  Terminated'
BY DEF Turn, Terminated

LEMMA WaitKeepsInv ==
    ASSUME ParserInv, NEW s, Turn(s), Wait PROVE ParserInv'
<1>1. Terminated'
  BY TurnKeepsTerminated DEF ParserInv, Wait, Terminated
<1> QED
  BY <1>1 DEF ParserInv, PlaceTypes, Wait, Turn, parsed

\* A turn that takes a block.
LEMMA TakingKeepsInv ==
    ASSUME ParserInv, NEW s, Turn(s), NEW needle \in {NewLine, Space}, Present(needle),
           NEW ok \in BOOLEAN, Allocated(needle, ok), shift' = Block(needle, ok).next,
           NEW to \in Steps, Goto(to), premature' \in BOOLEAN, DOMAIN payload' = DOMAIN payload
    PROVE  ParserInv'
<1>1. step' \in Steps /\ pc' \in {"parse", "compact"}
  BY GotoStays
<1>2. starved' \in BOOLEAN /\ (ok \/ First(Hits(needle, shift)) > shift)
  BY DEF Allocated, ParserInv, PlaceTypes
<1>3. shift' \in Nat /\ shift' <= payload_size
  BY <1>2, BlockIsReceived DEF ParserInv
<1>4. Terminated'
  BY <1>1, <1>3, TurnKeepsTerminated DEF ParserInv
<1> QED
  BY <1>1, <1>2, <1>4 DEF ParserInv, PlaceTypes

\* A turn that takes nothing.
LEMMA StayingKeepsInv ==
    ASSUME ParserInv, NEW s, Turn(s), NEW to \in Steps, Goto(to), UNCHANGED <<shift, payload>>,
           premature' \in BOOLEAN, starved' \in BOOLEAN
    PROVE  ParserInv'
<1>1. step' \in Steps /\ pc' \in {"parse", "compact"}
  BY GotoStays
<1>2. Terminated'
  BY <1>1, TurnKeepsTerminated DEF ParserInv, Terminated
<1> QED
  BY <1>1, <1>2 DEF ParserInv, PlaceTypes

LEMMA StepAKeepsInv == ASSUME ParserInv, StepA PROVE ParserInv'
<1>1. Turn("A")
  BY DEF StepA
<1>2. CASE Wait
  BY <1>1, <1>2, WaitKeepsInv
<1>3. ASSUME NEW ok \in BOOLEAN, Present(Space), Allocated(Space, ok),
             shift' = Block(Space, ok).next, UNCHANGED premature,
             \/ Goto("A") /\ UNCHANGED payload
             \/ /\ Goto("B")
                /\ payload' = IF \E m \in Methods : Block(Space, ok).text = <<m>>
                                THEN [payload EXCEPT !.method = Block(Space, ok).text]
                                ELSE [payload EXCEPT !.version = Block(Space, ok).text]
      PROVE  ParserInv'
  <2>1. "A" \in Steps /\ "B" \in Steps /\ premature' \in BOOLEAN
    BY <1>3 DEF Steps, ParserInv, PlaceTypes
  <2>2. DOMAIN payload' = DOMAIN payload
    BY <1>3
  <2> QED
    BY <1>1, <1>3, <2>1, <2>2, TakingKeepsInv
<1> QED
  BY <1>2, <1>3 DEF StepA

LEMMA StepBKeepsInv == ASSUME ParserInv, StepB PROVE ParserInv'
<1>1. Turn("B")
  BY DEF StepB
<1>2. CASE Wait
  BY <1>1, <1>2, WaitKeepsInv
<1>3. CASE ~Wait
  <2>1. premature' = (\E k \in Hits(<<"CR">>, 0) : k < First(Hits(Space, shift)))
    BY <1>3 DEF StepB
  <2>2. premature' \in BOOLEAN
    BY <2>1
  <2>3. PICK needle \in {NewLine, Space} : needle = IF premature' THEN NewLine ELSE Space
    OBVIOUS
  <2>4. \/ Goto("B") /\ UNCHANGED <<shift, payload, starved>>
        \/ \E ok \in BOOLEAN :
             /\ Present(needle) /\ Allocated(needle, ok)
             /\ shift' = Block(needle, ok).next
             /\ \/ Goto("B") /\ UNCHANGED payload
                \/ /\ Goto(IF premature' THEN "key_value" ELSE "C")
                   /\ payload' = SecondField(Block(needle, ok).text)
    BY <1>3, <2>3 DEF StepB
  <2>5. "B" \in Steps /\ "C" \in Steps /\ "key_value" \in Steps
    BY DEF Steps
  <2>6. CASE Goto("B") /\ UNCHANGED <<shift, payload, starved>>
    <3>1. starved' \in BOOLEAN
      BY <2>6 DEF ParserInv, PlaceTypes
    <3> QED
      BY <1>1, <2>2, <2>5, <2>6, <3>1, StayingKeepsInv
  <2>7. ASSUME NEW ok \in BOOLEAN, Present(needle), Allocated(needle, ok),
               shift' = Block(needle, ok).next,
               \/ Goto("B") /\ UNCHANGED payload
               \/ /\ Goto(IF premature' THEN "key_value" ELSE "C")
                  /\ payload' = SecondField(Block(needle, ok).text)
        PROVE  ParserInv'
    <3>1. DOMAIN payload' = DOMAIN payload
      BY <2>7 DEF SecondField
    <3>2. PICK to \in Steps : Goto(to)
      BY <2>2, <2>5, <2>7
    <3> QED
      BY <1>1, <2>2, <2>7, <3>1, <3>2, TakingKeepsInv
  <2> QED
    BY <2>4, <2>6, <2>7
<1> QED
  BY <1>2, <1>3

LEMMA StepCKeepsInv == ASSUME ParserInv, StepC PROVE ParserInv'
<1>1. Turn("C")
  BY DEF StepC
<1>2. CASE Wait
  BY <1>1, <1>2, WaitKeepsInv
<1>3. ASSUME NEW ok \in BOOLEAN, Present(NewLine), Allocated(NewLine, ok),
             shift' = Block(NewLine, ok).next, Goto("key_value"),
             premature' = (premature \/ Block(NewLine, ok).text = <<>>),
             payload' = IF Block(NewLine, ok).text = <<>> THEN payload
                        ELSE IF payload.method # <<>>
                               THEN [payload EXCEPT !.version = Block(NewLine, ok).text]
                        ELSE [payload EXCEPT !.status_message = Block(NewLine, ok).text]
      PROVE  ParserInv'
  <2>1. "key_value" \in Steps /\ premature' \in BOOLEAN
    BY <1>3 DEF Steps, ParserInv, PlaceTypes
  <2>2. DOMAIN payload' = DOMAIN payload
    BY <1>3
  <2> QED
    BY <1>1, <1>3, <2>1, <2>2, TakingKeepsInv
<1> QED
  BY <1>2, <1>3 DEF StepC

LEMMA StepKeyValueKeepsInv == ASSUME ParserInv, StepKeyValue PROVE ParserInv'
<1>1. Turn("key_value")
  BY DEF StepKeyValue
<1>2. {"payload", "key_value", "key_value_again"} \subseteq Steps
  BY DEF Steps
<1>3. CASE Wait
  BY <1>1, <1>3, WaitKeepsInv
<1>4. ASSUME NEW ok \in BOOLEAN, Present(NewLine), Allocated(NewLine, ok),
             shift' = Block(NewLine, ok).next, UNCHANGED premature,
             \/ Goto("payload") /\ UNCHANGED payload
             \/ /\ Goto("key_value_again")
                /\ \E h : payload' = [payload EXCEPT !.configuration = h]
             \/ Goto("key_value") /\ UNCHANGED payload
      PROVE  ParserInv'
  <2>1. premature' \in BOOLEAN
    BY <1>4 DEF ParserInv, PlaceTypes
  <2>2. DOMAIN payload' = DOMAIN payload
    BY <1>4
  <2>3. PICK to \in Steps : Goto(to)
    BY <1>2, <1>4
  <2> QED
    BY <1>1, <1>4, <2>1, <2>2, <2>3, TakingKeepsInv
<1>5. ASSUME Present(NewLine), shift' = Block(NewLine, TRUE).next, starved' = TRUE,
             Goto("key_value"), UNCHANGED <<premature, payload>>
      PROVE  ParserInv'
  <2>1. Allocated(NewLine, TRUE) \/ starved' \in BOOLEAN
    BY <1>5
  <2>2. step' \in Steps /\ pc' \in {"parse", "compact"}
    BY <1>2, <1>5, GotoStays
  <2>3. shift' \in Nat /\ shift' <= payload_size
    BY <1>5, BlockIsReceived DEF ParserInv
  <2>4. Terminated'
    BY <1>1, <2>2, <2>3, TurnKeepsTerminated DEF ParserInv
  <2> QED
    BY <1>5, <2>2, <2>4 DEF ParserInv, PlaceTypes
<1> QED
  BY <1>3, <1>4, <1>5 DEF StepKeyValue

LEMMA StepKeyValueAgainKeepsInv == ASSUME ParserInv, StepKeyValueAgain PROVE ParserInv'
<1>1. "key_value" \in Steps
  BY DEF Steps
<1> QED
  BY <1>1, StayingKeepsInv DEF StepKeyValueAgain, ParserInv, PlaceTypes

LEMMA StepPayloadKeepsInv == ASSUME ParserInv, StepPayload PROVE ParserInv'
<1>1. Turn("payload") /\ premature' \in BOOLEAN
  BY DEF StepPayload, ParserInv, PlaceTypes
<1>2. "payload" \in Steps /\ "completed" \in Steps
  BY DEF Steps
<1>3. ASSUME NEW to \in {"payload", "completed"}, Goto(to), UNCHANGED <<shift, payload>>,
             starved' = starved \/ starved' = TRUE
      PROVE  ParserInv'
  BY <1>1, <1>2, <1>3, StayingKeepsInv DEF ParserInv, PlaceTypes
<1>4. ASSUME NEW size, size = Announced(payload), size \in 1 .. payload_size - shift,
             shift' = shift + size, Goto("completed"), UNCHANGED starved,
             \E text : payload' = [payload EXCEPT !.body = text]
      PROVE  ParserInv'
  <2>1. step' \in Steps /\ pc' \in {"parse", "compact"}
    BY <1>2, <1>4, GotoStays
  <2>2. shift' \in Nat /\ shift' <= payload_size
    BY <1>4 DEF ParserInv, Terminated
  <2>3. Terminated'
    BY <1>1, <2>1, <2>2, TurnKeepsTerminated DEF ParserInv
  <2>4. DOMAIN payload' = DOMAIN payload
    BY <1>4
  <2> QED
    BY <1>1, <1>4, <2>1, <2>3, <2>4 DEF ParserInv, PlaceTypes
<1> QED
  BY <1>3, <1>4 DEF StepPayload

LEMMA ParsingKeepsInv == ASSUME ParserInv, f_http_payload_unserialize PROVE ParserInv'
BY StepAKeepsInv, StepBKeepsInv, StepCKeepsInv, StepKeyValueKeepsInv,
   StepKeyValueAgainKeepsInv, StepPayloadKeepsInv DEF f_http_payload_unserialize

-----------------------------------------------------------------------------
(* The loop of f_http_payload_read.                                        *)

\* The buffer after the realloc: there is room, and it is all NUL.
LEMMA GrownIsTerminated ==
    ASSUME Terminated
    PROVE  /\ \E S : Grown \in Seq(S)
           /\ Len(Grown) \in Nat /\ Len(Grown) >= payload_size + 2
           /\ Len(Grown) % BufferSize = 0
           /\ \A i \in payload_size + 1 .. Len(Grown) : Grown[i] = NUL
           /\ \A i \in 1 .. payload_size : Grown[i] = in_buffer[i]
<1>1. PICK S : in_buffer \in Seq(S)
  BY DEF Terminated
<1>2. /\ Len(in_buffer) \in Nat /\ payload_size \in Nat /\ payload_size <= Len(in_buffer)
      /\ Len(in_buffer) % BufferSize = 0
      /\ \A i \in payload_size + 1 .. Len(in_buffer) : in_buffer[i] = NUL
  BY <1>1, LenProperties DEF Terminated
<1>3. CASE Residual < MinimumSpace
  <2>1. Grown = in_buffer \o Zeros(BufferSize)
    BY <1>3 DEF Grown
  <2>2. PICK z : /\ z = Zeros(BufferSize) /\ z \in Seq({NUL}) /\ Len(z) = BufferSize
                 /\ \A i \in 1 .. BufferSize : z[i] = NUL
    BY SizesAreNat, ZerosAreNul
  <2>3. PICK g : g = in_buffer \o z /\ g = Grown
    BY <2>1, <2>2
  <2>4. /\ \E U : g \in Seq(U)
        /\ Len(g) = Len(in_buffer) + BufferSize
        /\ \A i \in 1 .. Len(in_buffer) + BufferSize :
             g[i] = IF i <= Len(in_buffer) THEN in_buffer[i] ELSE z[i - Len(in_buffer)]
    <3>1. PICK a : a = in_buffer
      OBVIOUS
    <3>2. a \in Seq(S) /\ z \in Seq({NUL})
      BY <1>1, <2>2, <3>1
    <3>3. /\ \E U : a \o z \in Seq(U)
          /\ Len(a \o z) = Len(a) + Len(z)
          /\ \A i \in 1 .. Len(a) + Len(z) :
               (a \o z)[i] = IF i <= Len(a) THEN a[i] ELSE z[i - Len(a)]
      BY <3>2, Joined
    <3>4. g = a \o z /\ Len(z) = BufferSize
      BY <2>2, <2>3, <3>1
    <3> QED
      BY <3>1, <3>3, <3>4
  <2>5. Len(g) % BufferSize = 0
    <3>1. PICK n \in Nat : n = Len(in_buffer)
      BY <1>2
    <3>2. PICK size \in Nat : size = BufferSize /\ 1 <= size
      BY SizesAreNat
    <3>3. n % size = 0
      BY <1>2, <3>1, <3>2
    <3>4. (n + size) % size = 0
      BY <3>2, <3>3, Multiples
    <3> QED
      BY <2>4, <3>1, <3>2, <3>4
  <2>6. ASSUME NEW i \in payload_size + 1 .. Len(g) PROVE g[i] = NUL
    <3>1. i \in 1 .. Len(in_buffer) + BufferSize
      BY <1>2, <2>4, SizesAreNat
    <3>2. CASE i <= Len(in_buffer)
      <4>1. i \in payload_size + 1 .. Len(in_buffer)
        BY <1>2, <2>4, <3>2, SizesAreNat
      <4> QED
        BY <1>2, <2>4, <3>1, <3>2, <4>1
    <3>3. CASE ~(i <= Len(in_buffer))
      <4>1. i - Len(in_buffer) \in 1 .. BufferSize
        BY <1>2, <3>1, <3>3, SizesAreNat
      <4> QED
        BY <2>2, <2>4, <3>1, <3>3, <4>1
    <3> QED
      BY <3>2, <3>3
  <2>7. Len(g) \in Nat /\ Len(g) >= payload_size + 2
    BY <1>2, <2>4, SizesAreNat
  <2>8. \A i \in 1 .. payload_size : g[i] = in_buffer[i]
    <3>1. \A i \in 1 .. payload_size : i \in 1 .. Len(in_buffer) + BufferSize /\ i <= Len(in_buffer)
      BY <1>2, SizesAreNat
    <3> QED
      BY <2>4, <3>1
  <2> QED
    BY <2>3, <2>4, <2>5, <2>6, <2>7, <2>8
<1>4. CASE ~(Residual < MinimumSpace)
  <2>1. Grown = in_buffer
    BY <1>4 DEF Grown
  <2>2. Len(in_buffer) >= payload_size + 2
    BY <1>2, <1>4, SizesAreNat DEF Residual
  <2> QED
    BY <1>1, <1>2, <2>1, <2>2
<1> QED
  BY <1>3, <1>4

LEMMA ReadTimeoutKeepsInv == ASSUME ParserInv, ReadTimeout PROVE ParserInv'
<1>1. PICK g : /\ g = Grown /\ \E S : g \in Seq(S)
               /\ Len(g) \in Nat /\ Len(g) >= payload_size + 2
               /\ Len(g) % BufferSize = 0
               /\ \A i \in payload_size + 1 .. Len(g) : g[i] = NUL
  BY GrownIsTerminated DEF ParserInv
<1>2. in_buffer' = g /\ UNCHANGED <<payload_size, shift>> /\ pc' = "out"
  BY <1>1 DEF ReadTimeout
<1>3. Terminated'
  BY <1>1, <1>2 DEF ParserInv, Terminated
<1> QED
  BY <1>3 DEF ParserInv, PlaceTypes, ReadTimeout, parsed

\* The bytes go in front of at least one terminator.
LEMMA ReadSomeKeepsInv ==
    ASSUME ParserInv, NEW n \in Nat, ReadSome(n) PROVE ParserInv'
<1>1. PICK g : /\ g = Grown /\ \E S : g \in Seq(S)
               /\ Len(g) \in Nat /\ Len(g) >= payload_size + 2
               /\ Len(g) % BufferSize = 0
               /\ \A i \in payload_size + 1 .. Len(g) : g[i] = NUL
  BY GrownIsTerminated DEF ParserInv
<1>2. PICK b : /\ b = in_buffer'
               /\ b = [i \in 1 .. Len(g) |->
                         IF i \in payload_size + 1 .. payload_size + n
                           THEN wire[i - payload_size] ELSE g[i]]
  BY <1>1 DEF ReadSome
<1>3. /\ payload_size' = payload_size + n /\ shift' = shift /\ pc' = "parse"
      /\ n <= Len(g) - payload_size - 1
      /\ UNCHANGED parsed /\ UNCHANGED starved
  BY <1>1 DEF ReadSome
<1>4. (\E S : b \in Seq(S)) /\ Len(b) = Len(g)
  <2>1. DOMAIN b = 1 .. Len(g) /\ b = [i \in 1 .. Len(g) |-> b[i]]
    BY <1>2
  <2> QED
    BY <1>1, <2>1, Tabulated
<1>5. payload_size \in Nat /\ shift \in Nat /\ shift <= payload_size
  BY DEF ParserInv, Terminated
<1>6. \A i \in payload_size + n + 1 .. Len(b) : b[i] = NUL
  <2>1. SUFFICES ASSUME NEW i \in payload_size + n + 1 .. Len(b) PROVE b[i] = NUL
    OBVIOUS
  <2>2. /\ i \in 1 .. Len(g) /\ i \notin payload_size + 1 .. payload_size + n
        /\ i \in payload_size + 1 .. Len(g)
    BY <1>1, <1>4, <1>5
  <2> QED
    BY <1>1, <1>2, <2>2
<1>7. Terminated'
  <2>1. /\ payload_size' \in Nat /\ payload_size' < Len(b)
        /\ shift' \in Nat /\ shift' <= payload_size'
    BY <1>1, <1>3, <1>4, <1>5
  <2>2. Len(b) % BufferSize = 0
    BY <1>1, <1>4
  <2>3. payload_size' <= Len(b)
    BY <1>1, <1>4, <2>1
  <2> QED
    BY <1>2, <1>3, <1>4, <1>6, <2>1, <2>2, <2>3 DEF Terminated
<1> QED
  BY <1>3, <1>7 DEF ParserInv, PlaceTypes, parsed

\* The memmove and the memset.
LEMMA CompactKeepsInv ==
    ASSUME ParserInv, Compact
    PROVE  ParserInv' /\ \A i \in 1 .. payload_size - shift : in_buffer'[i] = in_buffer[shift + i]
<1>1. PICK S : in_buffer \in Seq(S)
  BY DEF ParserInv, Terminated
<1>2. /\ Len(in_buffer) \in Nat /\ payload_size \in Nat /\ shift \in Nat
      /\ shift <= payload_size /\ payload_size <= Len(in_buffer)
      /\ Len(in_buffer) % BufferSize = 0
      /\ \A i \in payload_size + 1 .. Len(in_buffer) : in_buffer[i] = NUL
  BY <1>1, LenProperties DEF ParserInv, Terminated
<1>3. PICK size \in Nat : size = Len(in_buffer)
  BY <1>2
<1>4. PICK from \in Int : from = shift + 1
  BY <1>2
<1>5. PICK kept : /\ kept = SubSeq(in_buffer, from, size) /\ kept \in Seq(S)
                  /\ Len(kept) = size - shift
                  /\ \A i \in 1 .. size - shift : kept[i] = in_buffer[i + shift]
  <2>1. \A i \in from .. size : in_buffer[i] \in S
    <3>1. \A i \in from .. size : i \in 1 .. Len(in_buffer)
      BY <1>2, <1>3, <1>4
    <3> QED
      BY <1>1, <3>1, ElementOfSeq
  <2>2. PICK k : k = SubSeq(in_buffer, from, size)
    OBVIOUS
  <2>3. /\ k \in Seq(S) /\ Len(k) = IF from <= size THEN size - from + 1 ELSE 0
        /\ \A i \in 1 .. size - from + 1 : k[i] = in_buffer[from + i - 1]
    BY <2>1, <2>2, SubSeqProperties
  <2>4. Len(k) = size - shift /\ size - from + 1 = size - shift
    BY <1>2, <1>3, <1>4, <2>3
  <2>5. \A i \in 1 .. size - shift : i \in 1 .. size - from + 1 /\ from + i - 1 = i + shift
    BY <1>2, <1>3, <1>4
  <2>6. \A i \in 1 .. size - shift : k[i] = in_buffer[i + shift]
    BY <2>3, <2>5
  <2> QED
    BY <2>2, <2>3, <2>4, <2>6
<1>6. PICK z : /\ z = Zeros(shift) /\ z \in Seq({NUL}) /\ Len(z) = shift
               /\ \A i \in 1 .. shift : z[i] = NUL
  BY <1>2, ZerosAreNul
<1>7. PICK b : b = kept \o z /\ b = in_buffer'
  BY <1>3, <1>4, <1>5, <1>6 DEF Compact
<1>8. /\ \E U : b \in Seq(U)
      /\ Len(b) = Len(kept) + Len(z)
      /\ \A i \in 1 .. Len(kept) + Len(z) :
           b[i] = IF i <= Len(kept) THEN kept[i] ELSE z[i - Len(kept)]
  <2>1. /\ \E U : kept \o z \in Seq(U)
        /\ Len(kept \o z) = Len(kept) + Len(z)
        /\ \A i \in 1 .. Len(kept) + Len(z) :
             (kept \o z)[i] = IF i <= Len(kept) THEN kept[i] ELSE z[i - Len(kept)]
    BY <1>5, <1>6, Joined
  <2> QED
    BY <1>7, <2>1
<1>9. Len(b) = size
  BY <1>2, <1>3, <1>5, <1>6, <1>8
<1>10. ASSUME NEW i \in payload_size - shift + 1 .. size PROVE b[i] = NUL
  <2>1. i \in 1 .. Len(kept) + Len(z)
    BY <1>2, <1>3, <1>5, <1>6
  <2>2. CASE i <= Len(kept)
    <3>1. i \in 1 .. size - shift /\ i + shift \in payload_size + 1 .. Len(in_buffer)
      BY <1>2, <1>3, <1>5, <2>2
    <3>2. b[i] = kept[i]
      BY <1>8, <2>1, <2>2
    <3> QED
      BY <1>2, <1>5, <3>1, <3>2
  <2>3. CASE ~(i <= Len(kept))
    <3>1. i - Len(kept) \in 1 .. shift
      BY <1>2, <1>3, <1>5, <2>3
    <3>2. b[i] = z[i - Len(kept)]
      BY <1>8, <2>1, <2>3
    <3> QED
      BY <1>6, <3>1, <3>2
  <2> QED
    BY <2>2, <2>3
<1>11. /\ payload_size' = payload_size - shift /\ shift' = 0 /\ pc' \in {"out", "read"}
       /\ UNCHANGED parsed /\ UNCHANGED starved
  BY DEF Compact
<1>12. Terminated'
  <2>1. /\ payload_size' \in Nat /\ payload_size' <= Len(b)
        /\ shift' \in Nat /\ shift' <= payload_size'
    BY <1>2, <1>3, <1>9, <1>11
  <2>2. \A i \in payload_size' + 1 .. Len(b) : b[i] = NUL
    BY <1>9, <1>10, <1>11
  <2>3. Len(b) % BufferSize = 0
    BY <1>2, <1>3, <1>9
  <2> QED
    BY <1>7, <1>8, <1>11, <2>1, <2>2, <2>3 DEF Terminated
<1>13. \A i \in 1 .. payload_size - shift : b[i] = in_buffer[shift + i]
  <2>1. \A i \in 1 .. payload_size - shift :
          /\ i \in 1 .. size - shift /\ i \in 1 .. Len(kept) + Len(z) /\ i <= Len(kept)
          /\ i + shift = shift + i
    BY <1>2, <1>3, <1>5, <1>6
  <2> QED
    BY <1>5, <1>8, <2>1
<1>14. ParserInv'
  BY <1>11, <1>12 DEF ParserInv, PlaceTypes, parsed
<1> QED
  BY <1>7, <1>13, <1>14

-----------------------------------------------------------------------------
(* The message and the connection.                                         *)

LEMMA InitEstablishesParser == OverInit => ParserInv
<1> SUFFICES ASSUME OverInit PROVE ParserInv
  OBVIOUS
<1>1. /\ in_buffer = <<>> /\ payload_size = 0 /\ shift = 0 /\ pc = "write" /\ step = "A"
      /\ premature = FALSE /\ starved = FALSE /\ payload = f_http_payload_initialize
  BY DEF OverInit, Init
<1>2. (\E S : in_buffer \in Seq(S)) /\ Len(in_buffer) = 0
  BY <1>1, EmptySeq
<1>3. 0 % BufferSize = 0
  BY SizesAreNat
<1>4. Terminated
  BY <1>1, <1>2, <1>3 DEF Terminated
<1> QED
  BY <1>1, <1>4 DEF ParserInv, PlaceTypes, Steps

\* The steps that leave the accumulators of the reader alone.
LEMMA ElsewhereKeepsInv ==
    ASSUME ParserInv, UNCHANGED <<buffer, premature, payload>>, step' \in {step, "A"},
           starved' \in BOOLEAN,
           pc' = pc \/ pc' \in {"headers", "send", "out", "read", "over"}
    PROVE  ParserInv'
BY DEF ParserInv, PlaceTypes, Terminated, buffer, Steps

LEMMA StepKeepsParser == ParserInv /\ [OverNext]_allVars => ParserInv'
<1> SUFFICES ASSUME ParserInv, [OverNext]_allVars PROVE ParserInv'
  OBVIOUS
<1>0. starved \in BOOLEAN
  BY DEF ParserInv, PlaceTypes
<1>1. ASSUME UNCHANGED httpVars PROVE ParserInv'
  BY <1>0, <1>1, ElsewhereKeepsInv DEF httpVars, parsed
<1>2. CASE UNCHANGED allVars
  BY <1>1, <1>2 DEF allVars
<1>3. CASE Connect \/ WaitsOn \/ Hangup \/ StartRead
  BY <1>1, <1>3 DEF Connect, WaitsOn, Hangup, StartRead
<1>4. CASE f_http_payload_write
  <2>1. CASE SerializeStart
    BY <1>0, <2>1, ElsewhereKeepsInv DEF SerializeStart, parsed
  <2>2. CASE p_http_payload_serialize_headers
    BY <1>0, <2>2, ElsewhereKeepsInv DEF p_http_payload_serialize_headers, parsed
  <2>3. CASE SerializeBody
    BY <1>0, <2>3, ElsewhereKeepsInv DEF SerializeBody, parsed
  <2>4. CASE SerializeFails
    BY <1>0, <2>4, ElsewhereKeepsInv DEF SerializeFails, parsed
  <2>5. CASE WriteFails
    BY <1>0, <2>5, ElsewhereKeepsInv DEF WriteFails, parsed
  <2>6. ASSUME NEW n, WriteSome(n) PROVE ParserInv'
    BY <1>0, <2>6, ElsewhereKeepsInv DEF WriteSome, parsed
  <2> QED
    BY <1>4, <2>1, <2>2, <2>3, <2>4, <2>5, <2>6 DEF f_http_payload_write, f_http_payload_serialize
<1>5. ASSUME NEW n \in 1 .. Len(wire), ReadSome(n) PROVE ParserInv'
  <2>1. n \in Nat
    BY <1>5
  <2> QED
    BY <1>5, <2>1, ReadSomeKeepsInv
<1>6. CASE ReadFails
  BY <1>6, ReadTimeoutKeepsInv DEF ReadFails
<1>7. CASE Between
  <2>1. CASE ReadCall
    BY <1>0, <2>1, ElsewhereKeepsInv DEF ReadCall, parsed
  <2>2. CASE ReadNoMemory
    BY <1>0, <2>2, ElsewhereKeepsInv DEF ReadNoMemory, parsed
  <2> QED
    BY <1>7, <2>1, <2>2, ParsingKeepsInv, CompactKeepsInv DEF Between
<1>8. CASE f_http_payload_free
  BY <1>0, <1>8, ElsewhereKeepsInv DEF f_http_payload_free
<1> QED
  BY <1>2, <1>3, <1>4, <1>5, <1>6, <1>7, <1>8
  DEF OverNext, HttpCall, f_http_payload_read, ReadReturns

\* Whatever the messages are and however they are cut, the parser finds a terminator
\* behind the bytes received before the end of the buffer, so strstr, strchr and strncpy stay
\* in it, and never anything that an earlier message has left behind.
THEOREM TerminatorIsKept == OverSpec => []TerminatorKept
<1>1. ParserInv => TerminatorKept
  BY DEF ParserInv, PlaceTypes, Terminated, TerminatorKept, TypeOK
<1> QED
  BY <1>1, InitEstablishesParser, StepKeepsParser, PTL DEF OverSpec

-----------------------------------------------------------------------------
(* The connection underneath.                                              *)

LEMMA StepUsesSocket == OverNext => [SocketNext]_socketVars
<1> SUFFICES ASSUME OverNext PROVE [SocketNext]_socketVars
  OBVIOUS
<1>1. CASE Connect
  BY <1>1 DEF Connect, SocketNext
<1>2. CASE WaitsOn
  BY <1>2 DEF WaitsOn, SocketNext
<1>3. CASE f_http_payload_write
  <2>1. CASE SerializeBody /\ WriteCalled
    BY <2>1 DEF SocketNext
  <2>2. CASE UNCHANGED socketVars
    BY <2>2
  <2>3. CASE WriteFails
    BY <2>3 DEF WriteFails, SocketNext
  <2>4. ASSUME NEW n, WriteSome(n) PROVE [SocketNext]_socketVars
    <3>1. PICK all \in BOOLEAN : Sends(all)
      BY <2>4 DEF WriteSome
    <3> QED
      BY <3>1 DEF SocketNext
  <2> QED
    BY <1>3, <2>1, <2>2, <2>3, <2>4 DEF f_http_payload_write, f_http_payload_serialize
<1>4. CASE f_http_payload_read
  BY <1>4 DEF f_http_payload_read, StartRead, ReadReturns, ReadFails, Between, SocketNext
<1>5. CASE f_http_payload_free
  BY <1>5 DEF f_http_payload_free
<1>6. CASE Hangup
  BY <1>6 DEF Hangup, SocketNext
<1> QED
  BY <1>1, <1>2, <1>3, <1>4, <1>5, <1>6 DEF OverNext, HttpCall

\* Writing and reading messages uses the connection as Sockets says: every step is a step of the
\* endpoint or invisible to it.
THEOREM MessagesUseSockets == OverSpec => SocketSpec
<1>1. OverInit => SocketInit
  BY DEF OverInit
<1>2. [OverNext]_allVars => [SocketNext]_socketVars
  BY StepUsesSocket DEF allVars
<1> QED
  BY <1>1, <1>2, PTL DEF OverSpec, SocketSpec

\* So no descriptor and no TLS object is left behind by a message, sent or not.
THEOREM MessagesLeakNothing == OverSpec => []NothingIsHeld
BY MessagesUseSockets, NothingLeaks, PTL

\* And no read or write of a message waits longer than the timeout it was given.
THEOREM MessagesAreInTime == OverSpec => []WithinTimeout
BY MessagesUseSockets, CallsAreInTime, PTL

-----------------------------------------------------------------------------
(* The bytes of the message, and where the parser is in them.              *)

\* s holds t behind the offset from.
Holds(s, from, t) == from + Len(t) <= Len(s) /\ \A i \in 1 .. Len(t) : s[from + i] = t[i]

Field(h, i) == StartFields(h)[i]
BehindFirst(h) == Len(Field(h, 1)) + 1
BehindSecond(h) == BehindFirst(h) + Len(Field(h, 2)) + 1
BehindStart(h) == BehindSecond(h) + Len(Field(h, 3)) + 2

\* The offset behind the start line and the first i of the header lines written.
LineLen(h, key) == Len(key) + 2 + Len(h.configuration[key]) + 2
Edge(h, written, i) ==
    IF i = 0 THEN BehindStart(h) ELSE written[i].from + LineLen(h, written[i].key)
LastEdge(h, written) == Edge(h, written, Len(written))

\* The start line and some header lines, one behind the other.
Laid(h, written, bytes) ==
    /\ bytes \in Seq(Symbols) /\ Holds(bytes, 0, StartLine(h))
    /\ \A i \in 1 .. Len(written) :
         /\ written[i].from = Edge(h, written, i - 1)
         /\ Holds(bytes, written[i].from, HeaderLine(h, written[i].key))

\* The empty line and the body behind them.
Ended(h, written, bytes) ==
    /\ Holds(bytes, LastEdge(h, written), NewLine)
    /\ Holds(bytes, LastEdge(h, written) + 2, h.body)
    /\ Len(bytes) = LastEdge(h, written) + 2 + Len(h.body)

\* The keys visited so far, each once.
Visited(h, written, rest) ==
    /\ written \in Seq([key : DOMAIN h.configuration, from : Nat])
    /\ \A i, j \in 1 .. Len(written) : written[i].key = written[j].key => i = j
    /\ \A i \in 1 .. Len(written) : written[i].key \notin rest

\* None of them was left out.
Complete(h, written, rest) ==
    \A key \in DOMAIN h.configuration :
        key \in rest \/ \E i \in 1 .. Len(written) : written[i].key = key

\* What is serialised so far.
Serialised ==
    pc \notin {"write", "over"} =>
        /\ sent \in Messages /\ Laid(sent, lines, raw_payload)
        /\ Visited(sent, lines, unvisited) /\ unvisited \subseteq DOMAIN sent.configuration
        /\ ~starved => Complete(sent, lines, unvisited)
        /\ IF pc = "headers" THEN Len(raw_payload) = LastEdge(sent, lines)
                             ELSE unvisited = {} /\ Ended(sent, lines, raw_payload)

\* All the bytes, and how many of them have left the buffer.
Stream == raw_payload \o Trailing
Gone == Len(raw_payload) + Len(Trailing) - Len(wire) - payload_size
Place == Gone + shift

Reading == pc \in {"out", "read", "parse", "compact"}

\* What was received and what was not are the bytes of the stream.
StreamKept ==
    /\ wire \in Seq(Symbols)
    /\ pc \in {"write", "headers"} => wire = <<>>
    /\ ~Reading => step = "A"
    /\ pc \in {"write", "headers", "send"} =>
         payload_size = 0 /\ shift = 0 /\ payload = f_http_payload_initialize
    /\ pc = "send" => Len(wire) < Len(raw_payload) /\ Holds(raw_payload, 0, wire)
    /\ Reading =>
         /\ 0 <= Gone
         /\ \A i \in 1 .. Len(wire) : wire[i] = Stream[Gone + payload_size + i]
         /\ \A i \in 1 .. payload_size : in_buffer[i] = Stream[Gone + i]
    /\ pc \in {"out", "read"} => shift = 0

\* The payload after n fields of the start line, with some headers and a body.
Fields(h, n, headers, body) ==
    LET request == h.method # <<>> IN
    [method |-> IF request /\ n >= 1 THEN h.method ELSE <<>>,
     path |-> IF request /\ n >= 2 THEN h.path ELSE <<>>,
     version |-> IF n >= (IF request THEN 3 ELSE 1) THEN h.version ELSE <<>>,
     status_code |-> IF ~request /\ n >= 2 /\ h.status_code \in 100 .. 599
                       THEN h.status_code ELSE 0,
     status_message |-> IF ~request /\ n >= 3 THEN h.status_message ELSE <<>>,
     configuration |-> headers, body |-> body]

\* The first i headers, as they are read.
Keyed(h, lower) == h.configuration[CHOOSE k \in DOMAIN h.configuration : tolower(k) = lower]
Headers(h, written, i) ==
    [lower \in {tolower(written[j].key) : j \in 1 .. i} |-> Keyed(h, lower)]

\* The parser at the step s and this place of the message has parsed p.
Taken(h, written, s, place, p) ==
    \/ s = "A" /\ place = 0 /\ p = Fields(h, 0, <<>>, <<>>)
    \/ s = "B" /\ place = BehindFirst(h) /\ p = Fields(h, 1, <<>>, <<>>)
    \/ s = "C" /\ place = BehindSecond(h) /\ p = Fields(h, 2, <<>>, <<>>)
    \/ /\ s \in {"key_value", "key_value_again"}
       /\ \E i \in 0 .. Len(written) :
            place = Edge(h, written, i) /\ p = Fields(h, 3, Headers(h, written, i), <<>>)
    \/ /\ s = "payload" /\ place = LastEdge(h, written) + 2
       /\ p = Fields(h, 3, Headers(h, written, Len(written)), <<>>)
    \/ /\ s = "completed" /\ place = LastEdge(h, written) + 2 + Len(h.body)
       /\ p = Fields(h, 3, Headers(h, written, Len(written)), h.body)

\* The place of the parser is the end of what it has taken.
Follows == Reading /\ ~starved => Taken(sent, lines, step, Place, payload)

\* Who waits for bytes has not all of them.
Awaits ==
    pc \in {"out", "read", "compact"} /\ step # "completed" /\ ~starved => Len(wire) > Len(Trailing)

MessageInv == Serialised /\ StreamKept /\ Follows /\ Awaits
-----------------------------------------------------------------------------
(* Texts.                                                                  *)

Texts == Seq(Symbols)

LEMMA Pairs ==
    ASSUME NEW S, NEW a \in S, NEW b \in S
    PROVE  /\ <<a>> \in Seq(S) /\ Len(<<a>>) = 1 /\ <<a>>[1] = a
           /\ <<a, b>> \in Seq(S) /\ Len(<<a, b>>) = 2 /\ <<a, b>>[1] = a /\ <<a, b>>[2] = b
OBVIOUS

LEMMA Delimiters ==
    /\ Space \in Texts /\ NewLine \in Texts /\ <<":", " ">> \in Texts /\ <<>> \in Texts
    /\ Len(Space) = 1 /\ Len(NewLine) = 2 /\ Len(<<":", " ">>) = 2 /\ Len(<<>>) = 0
    /\ Space[1] = " " /\ NewLine[1] = "CR" /\ NewLine[2] = "LF"
    /\ <<":", " ">>[1] = ":" /\ <<":", " ">>[2] = " "
<1>1. PICK cr \in Symbols, lf \in Symbols, space \in Symbols, colon \in Symbols :
        cr = "CR" /\ lf = "LF" /\ space = " " /\ colon = ":"
  BY SymbolAssumption DEF Skippable
<1>2. <<space>> \in Seq(Symbols) /\ Len(<<space>>) = 1 /\ <<space>>[1] = space
  BY Pairs
<1>3. /\ <<cr, lf>> \in Seq(Symbols) /\ Len(<<cr, lf>>) = 2
      /\ <<cr, lf>>[1] = cr /\ <<cr, lf>>[2] = lf
  BY Pairs
<1>4. /\ <<colon, space>> \in Seq(Symbols) /\ Len(<<colon, space>>) = 2
      /\ <<colon, space>>[1] = colon /\ <<colon, space>>[2] = space
  BY Pairs
<1>5. <<>> \in Seq(Symbols) /\ Len(<<>>) = 0
  BY EmptySeq
<1> QED
  BY <1>1, <1>2, <1>3, <1>4, <1>5, Zenon DEF Texts, Space, NewLine

LEMMA FreeIsText == \A delimiters : Free(delimiters) \subseteq Texts
  BY SeqMonotonic DEF Free, Texts

LEMMA JoinedTexts ==
    ASSUME NEW s \in Texts, NEW t \in Texts
    PROVE  /\ s \o t \in Texts /\ Len(s \o t) = Len(s) + Len(t) /\ Len(s) \in Nat /\ Len(t) \in Nat
           /\ \A i \in 1 .. Len(s) + Len(t) :
                (s \o t)[i] = IF i <= Len(s) THEN s[i] ELSE t[i - Len(s)]
  BY ConcatProperties, LenProperties DEF Texts

LEMMA HoldsLonger ==
    ASSUME NEW s \in Texts, NEW t \in Texts, NEW u \in Texts, NEW from \in Nat, Holds(s, from, u)
    PROVE  Holds(s \o t, from, u)
<1>1. /\ Len(s \o t) = Len(s) + Len(t) /\ Len(s) \in Nat /\ Len(t) \in Nat
      /\ \A i \in 1 .. Len(s) + Len(t) : (s \o t)[i] = IF i <= Len(s) THEN s[i] ELSE t[i - Len(s)]
  BY JoinedTexts
<1>2. Len(u) \in Nat
  BY LenProperties DEF Texts
<1>3. \A i \in 1 .. Len(u) : from + i \in 1 .. Len(s) + Len(t) /\ from + i <= Len(s)
  BY <1>1, <1>2 DEF Holds
<1> QED
  BY <1>1, <1>2, <1>3 DEF Holds

LEMMA HoldsLast ==
    ASSUME NEW s \in Texts, NEW t \in Texts
    PROVE  Holds(s \o t, Len(s), t)
<1>1. /\ Len(s \o t) = Len(s) + Len(t) /\ Len(s) \in Nat /\ Len(t) \in Nat
      /\ \A i \in 1 .. Len(s) + Len(t) : (s \o t)[i] = IF i <= Len(s) THEN s[i] ELSE t[i - Len(s)]
  BY JoinedTexts
<1>2. \A i \in 1 .. Len(t) : /\ Len(s) + i \in 1 .. Len(s) + Len(t) /\ ~ (Len(s) + i <= Len(s))
                             /\ Len(s) + i - Len(s) = i
  BY <1>1
<1> QED
  BY <1>1, <1>2 DEF Holds

LEMMA HoldsParts ==
    ASSUME NEW s \in Texts, NEW t \in Texts, NEW u \in Texts, NEW from \in Nat
    PROVE  Holds(s, from, t \o u) <=> Holds(s, from, t) /\ Holds(s, from + Len(t), u)
<1>1. /\ Len(t \o u) = Len(t) + Len(u) /\ Len(t) \in Nat /\ Len(u) \in Nat
      /\ \A i \in 1 .. Len(t) + Len(u) : (t \o u)[i] = IF i <= Len(t) THEN t[i] ELSE u[i - Len(t)]
  BY JoinedTexts
<1>2. Len(s) \in Nat
  BY LenProperties DEF Texts
<1>3. ASSUME Holds(s, from, t \o u) PROVE Holds(s, from, t) /\ Holds(s, from + Len(t), u)
  <2>1. \A i \in 1 .. Len(t) : i \in 1 .. Len(t) + Len(u) /\ i <= Len(t)
    BY <1>1
  <2>2. Holds(s, from, t)
    BY <1>1, <1>2, <1>3, <2>1 DEF Holds
  <2>3. \A i \in 1 .. Len(u) : /\ Len(t) + i \in 1 .. Len(t) + Len(u) /\ ~ (Len(t) + i <= Len(t))
                               /\ Len(t) + i - Len(t) = i /\ from + (Len(t) + i) = from + Len(t) + i
    BY <1>1
  <2>4. Holds(s, from + Len(t), u)
    BY <1>1, <1>2, <1>3, <2>3 DEF Holds
  <2> QED
    BY <2>2, <2>4
<1>4. ASSUME Holds(s, from, t), Holds(s, from + Len(t), u) PROVE Holds(s, from, t \o u)
  <2>1. from + Len(t \o u) <= Len(s)
    BY <1>1, <1>2, <1>4 DEF Holds
  <2>2. ASSUME NEW i \in 1 .. Len(t \o u) PROVE s[from + i] = (t \o u)[i]
    <3>1. CASE i <= Len(t)
      <4>1. i \in 1 .. Len(t)
        BY <1>1, <2>2, <3>1
      <4> QED
        BY <1>1, <1>4, <2>2, <3>1, <4>1 DEF Holds
    <3>2. CASE ~ (i <= Len(t))
      <4>1. i - Len(t) \in 1 .. Len(u) /\ from + Len(t) + (i - Len(t)) = from + i
        BY <1>1, <2>2, <3>2
      <4> QED
        BY <1>1, <1>4, <2>2, <3>2, <4>1 DEF Holds
    <3> QED
      BY <3>1, <3>2
  <2> QED
    BY <2>1, <2>2 DEF Holds
<1> QED
  BY <1>3, <1>4

-----------------------------------------------------------------------------
(* The fields of a message that is well formed.                            *)

InLine == Free({NUL, "CR"})
InField == Free({NUL, " ", "CR"})

LEMMA FieldsAreInLines == InField \subseteq InLine /\ InLine \subseteq Texts
<1>1. Symbols \ {NUL, " ", "CR"} \subseteq Symbols \ {NUL, "CR"}
  OBVIOUS
<1>2. \A A, B : A \subseteq B => Seq(A) \subseteq Seq(B)
  BY SeqMonotonic
<1>3. InField \subseteq InLine
  BY <1>1, <1>2 DEF InField, InLine, Free
<1> QED
  BY <1>3, FreeIsText DEF InLine

LEMMA WordsAreFields ==
    ASSUME NEW w \in Words
    PROVE  <<w>> \in InField \ {<<>>} /\ Len(<<w>>) = 1 /\ <<w>>[1] = w
<1>1. w \in Symbols \ {NUL, " ", "CR"}
  BY DEF Words, Skippable, NUL
<1>2. <<w>> \in Seq(Symbols \ {NUL, " ", "CR"}) /\ Len(<<w>>) = 1 /\ <<w>>[1] = w
  BY <1>1, Pairs
<1>3. <<w>> # <<>>
  BY <1>2, Delimiters
<1> QED
  BY <1>2, <1>3 DEF InField, Free

\* What StatusText writes is what atoi reads.
LEMMA StatusIsRead ==
    ASSUME NEW h, h.status_code \in Nat,
           h.status_code \in 100 .. 599 => \E s \in DOMAIN Numerals : Numerals[s] = h.status_code
    PROVE  /\ StatusText(h) \in InField \ {<<>>}
           /\ h.status_code \in 100 .. 599 => atoi(StatusText(h)) = h.status_code
           /\ h.status_code \notin 100 .. 599 => atoi(StatusText(h)) = 0
<1>1. CASE h.status_code \in 100 .. 599
  <2>1. PICK w : w = CHOOSE s \in DOMAIN Numerals : Numerals[s] = h.status_code
    OBVIOUS
  <2>2. w \in DOMAIN Numerals /\ Numerals[w] = h.status_code
    BY <1>1, <2>1
  <2>3. w \in Words
    BY <2>2, SymbolAssumption
  <2>4. StatusText(h) = <<w>>
    BY <1>1, <2>1 DEF StatusText, itoa
  <2>5. atoi(<<w>>) = Numerals[w]
    BY <2>2, <2>3, WordsAreFields DEF atoi
  <2> QED
    BY <1>1, <2>2, <2>3, <2>4, <2>5, WordsAreFields
<1>2. CASE h.status_code \notin 100 .. 599
  <2>1. "000" \in Words /\ "000" \notin DOMAIN Numerals
    BY SymbolAssumption
  <2>2. PICK w \in Words : w = "000"
    BY <2>1
  <2>3. StatusText(h) = <<w>>
    BY <1>2, <2>2 DEF StatusText
  <2>4. atoi(<<w>>) = 0
    BY <2>1, <2>2, WordsAreFields DEF atoi
  <2> QED
    BY <1>2, <2>3, <2>4, WordsAreFields
<1> QED
  BY <1>1, <1>2

Request(h) == h.method # <<>>

LEMMA StartFieldsAre ==
    ASSUME NEW h
    PROVE
    /\ Request(h) => Field(h, 1) = h.method /\ Field(h, 2) = h.path /\ Field(h, 3) = h.version
    /\ ~Request(h) => /\ Field(h, 1) = h.version /\ Field(h, 2) = StatusText(h)
                   /\ Field(h, 3) = h.status_message
BY DEF Field, StartFields, Request

LEMMA FieldsAreFree ==
    ASSUME NEW h, WellFormed(h)
    PROVE  /\ Field(h, 1) \in InField \ {<<>>} /\ Field(h, 2) \in InField \ {<<>>} /\ Field(h, 3) \in InLine
           /\ Request(h) <=> \E m \in Methods : Field(h, 1) = <<m>>
<1>1. WellFormedStart(h)
  BY DEF WellFormed
<1>2. CASE Request(h)
  <2>1. /\ h.path \in InField \ {<<>>} /\ h.version \in InField
        /\ \E m \in Methods : h.method = <<m>>
    BY <1>1, <1>2 DEF WellFormedStart, Request, InField
  <2>2. h.method \in InField \ {<<>>}
    BY <2>1, WordsAreFields, SymbolAssumption
  <2> QED
    BY <1>2, <2>1, <2>2, StartFieldsAre, FieldsAreInLines
<1>3. CASE ~Request(h)
  <2>1. /\ h.version \in InField \ {<<>>} /\ h.status_message \in InLine
        /\ \A m \in Methods : h.version # <<m>>
        /\ h.status_code \in Nat
        /\ h.status_code \in 100 .. 599 =>
             \E s \in DOMAIN Numerals : Numerals[s] = h.status_code
    <3>1. \A m \in Methods : m \in Words
      BY SymbolAssumption
    <3>2. \A m \in Methods : h.method # <<m>>
      BY <1>3, <3>1, WordsAreFields DEF Request
    <3> QED
      BY <1>1, <3>2 DEF WellFormedStart, InField, InLine
  <2> QED
    BY <1>3, <2>1, StartFieldsAre, StatusIsRead
<1> QED
  BY <1>2, <1>3

LEMMA FieldsAreTexts ==
    ASSUME NEW h, WellFormed(h)
    PROVE  /\ Field(h, 1) \in Texts /\ Field(h, 2) \in Texts /\ Field(h, 3) \in Texts
           /\ Len(Field(h, 1)) \in Nat \ {0} /\ Len(Field(h, 2)) \in Nat \ {0} /\ Len(Field(h, 3)) \in Nat
           /\ BehindFirst(h) \in Nat /\ BehindSecond(h) \in Nat /\ BehindStart(h) \in Nat
<1>1. Field(h, 1) \in Texts \ {<<>>} /\ Field(h, 2) \in Texts \ {<<>>} /\ Field(h, 3) \in Texts
  BY FieldsAreFree, FieldsAreInLines
<1>2. /\ Len(Field(h, 1)) \in Nat \ {0} /\ Len(Field(h, 2)) \in Nat \ {0} /\ Len(Field(h, 3)) \in Nat
  BY <1>1, EmptySeq, LenProperties DEF Texts
<1> QED
  BY <1>1, <1>2 DEF BehindFirst, BehindSecond, BehindStart

LEMMA StartLineParts ==
    ASSUME NEW h, WellFormed(h), NEW s \in Texts
    PROVE  /\ StartLine(h) \in Texts /\ Len(StartLine(h)) = BehindStart(h)
           /\ Holds(s, 0, StartLine(h)) <=>
                /\ Holds(s, 0, Field(h, 1)) /\ Holds(s, Len(Field(h, 1)), Space)
                /\ Holds(s, BehindFirst(h), Field(h, 2)) /\ Holds(s, BehindFirst(h) + Len(Field(h, 2)), Space)
                /\ Holds(s, BehindSecond(h), Field(h, 3))
                /\ Holds(s, BehindSecond(h) + Len(Field(h, 3)), NewLine)
<1> PICK a, b, c : a = Field(h, 1) /\ b = Field(h, 2) /\ c = Field(h, 3)
  OBVIOUS
<1>0. Space \in Texts /\ Len(Space) = 1 /\ NewLine \in Texts /\ Len(NewLine) = 2 /\ 0 \in Nat
  BY Delimiters
<1>1. a \in Texts /\ b \in Texts /\ c \in Texts
  BY FieldsAreTexts
<1>2. PICK p : p = a \o Space
  OBVIOUS
<1>3. p \in Texts /\ Len(p) = Len(a) + 1 /\ Len(a) \in Nat
      /\ (Holds(s, 0, p) <=> Holds(s, 0, a) /\ Holds(s, Len(a), Space))
  <2>1. p \in Texts /\ Len(p) = Len(a) + Len(Space) /\ Len(a) \in Nat
    BY <1>1, <1>2, <1>0, JoinedTexts
  <2>2. Holds(s, 0, p) <=> Holds(s, 0, a) /\ Holds(s, 0 + Len(a), Space)
    BY <1>0, <1>1, <1>2, HoldsParts
  <2> QED
    BY <2>1, <2>2, <1>0
<1>4. PICK q : q = p \o b
  OBVIOUS
<1>5. q \in Texts /\ Len(q) = Len(a) + 1 + Len(b) /\ Len(b) \in Nat
      /\ (Holds(s, 0, q) <=> Holds(s, 0, p) /\ Holds(s, Len(a) + 1, b))
  <2>1. q \in Texts /\ Len(q) = Len(p) + Len(b) /\ Len(b) \in Nat
    BY <1>1, <1>3, <1>4, JoinedTexts
  <2>2. Holds(s, 0, q) <=> Holds(s, 0, p) /\ Holds(s, 0 + Len(p), b)
    BY <1>1, <1>3, <1>4, HoldsParts
  <2> QED
    BY <1>3, <2>1, <2>2
<1>6. PICK r : r = q \o Space
  OBVIOUS
<1>7. r \in Texts /\ Len(r) = Len(a) + 1 + Len(b) + 1
      /\ (Holds(s, 0, r) <=> Holds(s, 0, q) /\ Holds(s, Len(a) + 1 + Len(b), Space))
  <2>1. r \in Texts /\ Len(r) = Len(q) + Len(Space)
    BY <1>5, <1>6, <1>0, JoinedTexts
  <2>2. Holds(s, 0, r) <=> Holds(s, 0, q) /\ Holds(s, 0 + Len(q), Space)
    BY <1>5, <1>6, <1>0, HoldsParts
  <2> QED
    BY <1>3, <1>5, <2>1, <2>2, <1>0
<1>8. PICK t : t = r \o c
  OBVIOUS
<1>9. t \in Texts /\ Len(t) = Len(a) + 1 + Len(b) + 1 + Len(c) /\ Len(c) \in Nat
      /\ (Holds(s, 0, t) <=> Holds(s, 0, r) /\ Holds(s, Len(a) + 1 + Len(b) + 1, c))
  <2>1. t \in Texts /\ Len(t) = Len(r) + Len(c) /\ Len(c) \in Nat
    BY <1>1, <1>7, <1>8, JoinedTexts
  <2>2. Holds(s, 0, t) <=> Holds(s, 0, r) /\ Holds(s, 0 + Len(r), c)
    BY <1>1, <1>7, <1>8, HoldsParts
  <2> QED
    BY <1>3, <1>5, <1>7, <2>1, <2>2
<1>10. PICK u : u = t \o NewLine
  OBVIOUS
<1>11. u \in Texts /\ Len(u) = Len(a) + 1 + Len(b) + 1 + Len(c) + 2
       /\ (Holds(s, 0, u) <=> Holds(s, 0, t) /\ Holds(s, Len(a) + 1 + Len(b) + 1 + Len(c), NewLine))
  <2>1. u \in Texts /\ Len(u) = Len(t) + Len(NewLine)
    BY <1>9, <1>10, <1>0, JoinedTexts
  <2>2. Holds(s, 0, u) <=> Holds(s, 0, t) /\ Holds(s, 0 + Len(t), NewLine)
    BY <1>9, <1>10, <1>0, HoldsParts
  <2> QED
    BY <1>3, <1>5, <1>9, <2>1, <2>2, <1>0
<1>12. u = StartLine(h)
  BY <1>2, <1>4, <1>6, <1>8, <1>10 DEF StartLine, Field
<1>13. BehindFirst(h) = Len(a) + 1 /\ BehindSecond(h) = Len(a) + 1 + Len(b) + 1
       /\ BehindStart(h) = Len(a) + 1 + Len(b) + 1 + Len(c) + 2
  BY DEF BehindFirst, BehindSecond, BehindStart
<1> QED
  BY <1>3, <1>5, <1>7, <1>9, <1>11, <1>12, <1>13

-----------------------------------------------------------------------------
(* The header lines and the body of a message that is well formed.         *)

\* A header without the end of its line.
Line(h, key) == key \o <<":", " ">> \o h.configuration[key]

LEMMA HoldsIsSubSeq ==
    ASSUME NEW S, NEW s \in Seq(S), NEW T, NEW t \in Seq(T), NEW from \in Nat, Holds(s, from, t)
    PROVE  SubSeq(s, from + 1, from + Len(t)) = t
<1>1. PICK U : U = S \cup T
  OBVIOUS
<1>2. s \in Seq(U) /\ t \in Seq(U)
  BY <1>1, SeqMonotonic
<1>3. PICK size \in Nat : size = Len(t) /\ Len(s) \in Nat
  BY <1>2, LenProperties
<1>4. PICK m \in Int, n \in Int : m = from + 1 /\ n = from + size
  BY <1>3
<1>5. from + size <= Len(s) /\ \A i \in 1 .. size : s[from + i] = t[i]
  BY <1>3 DEF Holds
<1>6. \A i \in m .. n : s[i] \in U
  <2>1. \A i \in m .. n : i \in 1 .. Len(s)
    BY <1>3, <1>4, <1>5
  <2> QED
    BY <1>2, <2>1, ElementOfSeq
<1>7. PICK u : u = SubSeq(s, m, n)
  OBVIOUS
<1>9. u \in Seq(U) /\ Len(u) = size /\ \A i \in 1 .. size : u[i] = s[from + i]
  <2>1. /\ u \in Seq(U) /\ Len(u) = IF m <= n THEN n - m + 1 ELSE 0
        /\ \A i \in 1 .. n - m + 1 : u[i] = s[m + i - 1]
    BY <1>6, <1>7, SubSeqProperties
  <2>2. (IF m <= n THEN n - m + 1 ELSE 0) = size /\ n - m + 1 = size
    BY <1>3, <1>4
  <2>3. \A i \in 1 .. size : m + i - 1 = from + i
    BY <1>4
  <2>4. Len(u) = size
    BY <2>1, <2>2
  <2>5. \A i \in 1 .. size : u[i] = s[m + i - 1]
    BY <2>1, <2>2
  <2> QED
    BY <2>1, <2>3, <2>4, <2>5
<1>8. u = t
  BY <1>2, <1>3, <1>5, <1>9, SeqEqual
<1> QED
  BY <1>3, <1>4, <1>7, <1>8

\* A part of what is held is held.
LEMMA HoldsEnough ==
    ASSUME NEW s \in Texts, NEW t \in Texts, NEW from \in Nat, Holds(s, from, t)
    PROVE  /\ from + Len(t) <= Len(s) /\ Len(s) \in Nat /\ Len(t) \in Nat
           /\ \A i \in 1 .. Len(t) : s[from + i] = t[i]
  BY LenProperties DEF Holds, Texts

LEMMA HeadersAreTexts ==
    ASSUME NEW h, WellFormed(h), NEW key \in DOMAIN h.configuration
    PROVE  /\ key \in Free({NUL, ":", "CR"}) /\ key \in Texts /\ Len(key) \in Nat \ {0}
           /\ h.configuration[key] \in InLine /\ h.configuration[key] \in Texts
           /\ Len(h.configuration[key]) \in Nat \ {0}
           /\ h.configuration[key][1] \notin Skippable
           /\ h.configuration[key][Len(h.configuration[key])] \notin Skippable
<1>1. PICK value : value = h.configuration[key]
  OBVIOUS
<1>2. /\ key \in Free({NUL, ":", "CR"}) \ {<<>>} /\ value \in InLine \ {<<>>}
      /\ {value[1], Last(value)} \cap Skippable = {}
  BY <1>1 DEF WellFormed, WellFormedHeaders, InLine
<1>3. key \in Texts /\ value \in Texts
  BY <1>2, FreeIsText, FieldsAreInLines
<1>4. Len(key) \in Nat \ {0} /\ Len(value) \in Nat \ {0}
  BY <1>2, <1>3, EmptySeq, LenProperties DEF Texts
<1>5. value[1] \notin Skippable /\ value[Len(value)] \notin Skippable
  BY <1>2 DEF Last
<1> QED
  BY <1>1, <1>2, <1>3, <1>4, <1>5

\* A line is a key, a colon, a space and a value.
Parted(line, key, value) ==
    /\ key \in Texts /\ value \in Texts /\ key # <<>> /\ value # <<>>
    /\ line \in Texts /\ Len(line) = Len(key) + 2 + Len(value)
    /\ \A j \in 1 .. Len(key) : line[j] = key[j]
    /\ line[Len(key) + 1] = ":" /\ line[Len(key) + 2] = " "
    /\ \A j \in 1 .. Len(value) : line[Len(key) + 2 + j] = value[j]

LEMMA LineIsText ==
    ASSUME NEW h, WellFormed(h), NEW key \in DOMAIN h.configuration
    PROVE  /\ Line(h, key) \in Texts /\ Len(Line(h, key)) = Len(key) + 2 + Len(h.configuration[key])
           /\ LineLen(h, key) \in Nat /\ LineLen(h, key) = Len(Line(h, key)) + 2
           /\ Parted(Line(h, key), key, h.configuration[key])
<1>1. PICK value : value = h.configuration[key]
  OBVIOUS
<1>2. PICK between : between = <<":", " ">>
  OBVIOUS
<1>3. between \in Texts /\ Len(between) = 2 /\ between[1] = ":" /\ between[2] = " "
  BY <1>2, Delimiters
<1>4. key \in Texts /\ value \in Texts /\ Len(key) \in Nat /\ Len(value) \in Nat
  BY <1>1, HeadersAreTexts
<1>5. PICK p : p = key \o between
  OBVIOUS
<1>6. p \in Texts /\ Len(p) = Len(key) + 2
      /\ \A i \in 1 .. Len(key) + 2 : p[i] = IF i <= Len(key) THEN key[i] ELSE between[i - Len(key)]
  <2>1. /\ p \in Texts /\ Len(p) = Len(key) + Len(between)
        /\ \A i \in 1 .. Len(key) + Len(between) :
             p[i] = IF i <= Len(key) THEN key[i] ELSE between[i - Len(key)]
    BY <1>3, <1>4, <1>5, JoinedTexts
  <2> QED
    BY <1>3, <2>1
<1>7. PICK q : q = p \o value
  OBVIOUS
<1>8. q \in Texts /\ Len(q) = Len(p) + Len(value)
      /\ \A i \in 1 .. Len(p) + Len(value) : q[i] = IF i <= Len(p) THEN p[i] ELSE value[i - Len(p)]
  BY <1>4, <1>6, <1>7, JoinedTexts
<1>9. q = Line(h, key)
  BY <1>1, <1>2, <1>5, <1>7 DEF Line
<1>10. PICK n \in Nat, m \in Nat : n = Len(key) /\ m = Len(value)
  BY <1>4
<1>11. Len(q) = n + 2 + m /\ \A i \in 1 .. n + 2 + m :
                              q[i] = IF i <= n + 2 THEN p[i] ELSE value[i - (n + 2)]
  BY <1>6, <1>8, <1>10
<1>12. /\ \A i \in 1 .. n : p[i] = key[i]
       /\ p[n + 1] = ":" /\ p[n + 2] = " "
  <2>1. \A i \in 1 .. n + 2 : p[i] = IF i <= n THEN key[i] ELSE between[i - n]
    BY <1>6, <1>10
  <2>2. p[n + 1] = between[n + 1 - n] /\ p[n + 2] = between[n + 2 - n]
    BY <2>1
  <2>3. n + 1 - n = 1 /\ n + 2 - n = 2
    OBVIOUS
  <2>4. \A i \in 1 .. n : p[i] = key[i]
    BY <2>1
  <2> QED
    BY <1>3, <2>2, <2>3, <2>4
<1>13. \A i \in 1 .. n + 2 : q[i] = p[i]
  BY <1>10, <1>11
<1>15. /\ \A i \in 1 .. n : q[i] = key[i]
       /\ q[n + 1] = ":" /\ q[n + 2] = " "
  <2>1. n + 1 \in 1 .. n + 2 /\ n + 2 \in 1 .. n + 2 /\ \A i \in 1 .. n : i \in 1 .. n + 2
    BY <1>10
  <2> QED
    BY <1>12, <1>13, <2>1
<1>17. \A i \in 1 .. m : q[n + 2 + i] = value[i]
  <2>1. \A i \in 1 .. m : /\ n + 2 + i \in 1 .. n + 2 + m /\ ~ (n + 2 + i <= n + 2)
                           /\ n + 2 + i - (n + 2) = i
    BY <1>10
  <2> QED
    BY <1>11, <2>1
<1>14. LineLen(h, key) = n + 2 + m + 2
  BY <1>1, <1>10 DEF LineLen
<1>16. /\ q \in Texts /\ Len(q) = Len(key) + 2 + Len(value)
       /\ LineLen(h, key) \in Nat /\ LineLen(h, key) = Len(q) + 2
  <2>1. LineLen(h, key) \in Nat /\ LineLen(h, key) = n + 2 + m + 2
    BY <1>10, <1>14
  <2>2. Len(q) = n + 2 + m
    BY <1>11
  <2>3. q \in Texts
    BY <1>8
  <2> QED
    BY <1>10, <2>1, <2>2, <2>3
<1>18. Parted(q, key, value)
  <2>1. Len(key) # 0 /\ Len(value) # 0
    BY <1>1, HeadersAreTexts
  <2>2. key # <<>> /\ value # <<>>
    BY <2>1, EmptySeq
  <2> QED
    BY <1>4, <1>10, <1>15, <1>16, <1>17, <2>2, Zenon DEF Parted
<1> QED
  BY <1>1, <1>9, <1>16, <1>18

LEMMA HeaderLineParts ==
    ASSUME NEW h, WellFormed(h), NEW key \in DOMAIN h.configuration
    PROVE  /\ HeaderLine(h, key) \in Texts /\ Len(HeaderLine(h, key)) = LineLen(h, key)
           /\ \A s \in Texts : \A from \in Nat :
                Holds(s, from, HeaderLine(h, key)) <=>
                  Holds(s, from, Line(h, key)) /\ Holds(s, from + Len(Line(h, key)), NewLine)
<1>1. PICK q : q = Line(h, key) /\ q \in Texts
  BY LineIsText
<1>7. PICK end : end = NewLine
  OBVIOUS
<1>2. HeaderLine(h, key) = q \o end
  BY <1>1, <1>7 DEF Line, HeaderLine
<1>3. end \in Texts /\ Len(end) = 2
  BY <1>7, Delimiters
<1>4. q \o end \in Texts /\ Len(q \o end) = Len(q) + 2
  <2>1. q \o end \in Texts /\ Len(q \o end) = Len(q) + Len(end)
    BY <1>1, <1>3, JoinedTexts
  <2> QED
    BY <1>3, <2>1
<1>5. LineLen(h, key) = Len(q) + 2
  BY <1>1, LineIsText
<1>6. \A s \in Texts : \A from \in Nat :
        Holds(s, from, q \o end) <=> Holds(s, from, q) /\ Holds(s, from + Len(q), end)
  BY <1>1, <1>3, HoldsParts
<1> QED
  BY <1>1, <1>2, <1>4, <1>5, <1>6, <1>7

LEMMA BodyIsText ==
    ASSUME NEW h, WellFormed(h)
    PROVE  h.body \in Free({NUL}) /\ h.body \in Texts /\ Len(h.body) \in Nat
           /\ Len(h.body) = Announced(h) /\ BodyPart(h) = h.body
<1>1. h.body \in Free({NUL}) /\ Len(h.body) = Announced(h)
  BY DEF WellFormed
<1>2. h.body \in Texts
  BY <1>1, FreeIsText
<1>3. Len(h.body) \in Nat
  BY <1>2, LenProperties DEF Texts
<1>4. SubSeq(h.body, 1, Len(h.body)) = h.body
  BY <1>2, SubSeqFull DEF Texts
<1>5. BodyPart(h) = SubSeq(h.body, 1, Len(h.body))
  BY <1>1, <1>3 DEF BodyPart
<1> QED
  BY <1>1, <1>2, <1>3, <1>4, <1>5

-----------------------------------------------------------------------------
(* The serialiser.                                                         *)

LEMMA EdgesAreNat ==
    ASSUME NEW h, WellFormed(h), NEW written, NEW rest, Visited(h, written, rest)
    PROVE  /\ Len(written) \in Nat
           /\ \A i \in 1 .. Len(written) : /\ written[i].key \in DOMAIN h.configuration
                                           /\ written[i].from \in Nat
           /\ \A i \in 0 .. Len(written) : Edge(h, written, i) \in Nat
           /\ LastEdge(h, written) \in Nat
<1>1. written \in Seq([key : DOMAIN h.configuration, from : Nat])
  BY DEF Visited
<1>2. Len(written) \in Nat
  BY <1>1, LenProperties
<1>3. \A i \in 1 .. Len(written) : written[i] \in [key : DOMAIN h.configuration, from : Nat]
  BY <1>1, ElementOfSeq
<1>4. \A i \in 1 .. Len(written) : /\ written[i].key \in DOMAIN h.configuration
                                   /\ written[i].from \in Nat
  BY <1>3
<1>5. ASSUME NEW i \in 0 .. Len(written) PROVE Edge(h, written, i) \in Nat
  <2>1. CASE i = 0
    BY <2>1, FieldsAreTexts DEF Edge
  <2>2. CASE i # 0
    <3>1. i \in 1 .. Len(written)
      BY <1>2, <1>5, <2>2
    <3>2. LineLen(h, written[i].key) \in Nat /\ written[i].from \in Nat
      BY <1>4, <3>1, LineIsText
    <3> QED
      BY <2>2, <3>2 DEF Edge
  <2> QED
    BY <2>1, <2>2
<1>6. LastEdge(h, written) \in Nat
  BY <1>2, <1>5 DEF LastEdge
<1> QED
  BY <1>2, <1>4, <1>5, <1>6

LEMMA StartIsLaid ==
    ASSUME NEW h, WellFormed(h), NEW written, written = <<>>
    PROVE  /\ Laid(h, written, StartLine(h)) /\ Len(StartLine(h)) = LastEdge(h, written)
           /\ Visited(h, written, DOMAIN h.configuration)
           /\ Complete(h, written, DOMAIN h.configuration)
<1>1. PICK S : S = [key : DOMAIN h.configuration, from : Nat]
  OBVIOUS
<1>2. written \in Seq(S) /\ Len(written) = 0
  BY EmptySeq
<1>3. 1 .. Len(written) = {}
  BY <1>2
<1>4. PICK s : s = StartLine(h) /\ s \in Texts /\ Len(s) = BehindStart(h)
  BY StartLineParts, Delimiters
<1>5. Holds(s, 0, s)
  <2>1. Len(s) \in Nat
    BY <1>4, LenProperties DEF Texts
  <2>2. \A i \in 1 .. Len(s) : 0 + i = i
    BY <2>1
  <2> QED
    BY <2>1, <2>2 DEF Holds
<1>6. Laid(h, written, s)
  BY <1>3, <1>4, <1>5 DEF Laid, Texts
<1>7. LastEdge(h, written) = BehindStart(h)
  BY <1>2 DEF LastEdge, Edge
<1>8. Visited(h, written, DOMAIN h.configuration) /\ Complete(h, written, DOMAIN h.configuration)
  BY <1>1, <1>2, <1>3 DEF Visited, Complete
<1> QED
  BY <1>4, <1>6, <1>7, <1>8

\* What is laid stays laid when more is written.
LEMMA LaidLonger ==
    ASSUME NEW h, WellFormed(h), NEW written, NEW rest, Visited(h, written, rest),
           NEW bytes, Laid(h, written, bytes), NEW more \in Texts
    PROVE  Laid(h, written, bytes \o more)
<1>1. bytes \in Texts /\ bytes \o more \in Texts
  BY JoinedTexts DEF Laid, Texts
<1>2. Holds(bytes \o more, 0, StartLine(h))
  <2>1. Holds(bytes, 0, StartLine(h)) /\ StartLine(h) \in Texts
    BY <1>1, StartLineParts DEF Laid
  <2> QED
    BY <1>1, <2>1, HoldsLonger
<1>3. ASSUME NEW i \in 1 .. Len(written)
      PROVE  /\ written[i].from = Edge(h, written, i - 1)
             /\ Holds(bytes \o more, written[i].from, HeaderLine(h, written[i].key))
  <2>1. written[i].key \in DOMAIN h.configuration /\ written[i].from \in Nat
    BY EdgesAreNat
  <2>2. HeaderLine(h, written[i].key) \in Texts
    BY <2>1, HeaderLineParts
  <2>3. /\ written[i].from = Edge(h, written, i - 1)
        /\ Holds(bytes, written[i].from, HeaderLine(h, written[i].key))
    BY DEF Laid
  <2> QED
    BY <1>1, <2>1, <2>2, <2>3, HoldsLonger
<1> QED
  BY <1>1, <1>2, <1>3 DEF Laid, Texts

\* They are laid, and nothing is behind them.
Flush(h, written, bytes) == Laid(h, written, bytes) /\ Len(bytes) = LastEdge(h, written)

\* One more header.
LEMMA LineIsLaid ==
    ASSUME NEW h, WellFormed(h), NEW written, NEW rest, Visited(h, written, rest),
           NEW bytes, Flush(h, written, bytes),
           NEW key \in rest, key \in DOMAIN h.configuration,
           NEW more, more = bytes \o HeaderLine(h, key),
           NEW new \in [key : DOMAIN h.configuration, from : Nat],
           new.key = key, new.from = Len(bytes), NEW longer, longer = Append(written, new)
    PROVE  /\ Flush(h, longer, more)
           /\ Visited(h, longer, rest \ {key})
           /\ Complete(h, written, rest) => Complete(h, longer, rest \ {key})
<1>1. Laid(h, written, bytes) /\ Len(bytes) = LastEdge(h, written)
  BY DEF Flush
<1>2. PICK n \in Nat : n = Len(written)
  BY EdgesAreNat
<1>3. PICK S : S = [key : DOMAIN h.configuration, from : Nat]
  OBVIOUS
<1>4. written \in Seq(S) /\ LastEdge(h, written) \in Nat
  BY <1>3, EdgesAreNat DEF Visited
<1>5. new \in S /\ new.key = key /\ new.from = Len(bytes)
  BY <1>3
<1>6. /\ longer \in Seq(S) /\ Len(longer) = n + 1 /\ longer[n + 1] = new
      /\ \A i \in 1 .. n : longer[i] = written[i]
  BY <1>2, <1>4, <1>5
<1>7. Laid(h, written, more)
  BY <1>1, HeaderLineParts, LaidLonger
<1>8. bytes \in Texts /\ more \in Texts /\ Len(more) = Len(bytes) + LineLen(h, key)
      /\ Holds(more, Len(bytes), HeaderLine(h, key))
  <2>1. bytes \in Texts
    BY <1>1 DEF Laid, Texts
  <2>2. HeaderLine(h, key) \in Texts /\ Len(HeaderLine(h, key)) = LineLen(h, key)
    BY HeaderLineParts
  <2> QED
    BY <2>1, <2>2, JoinedTexts, HoldsLast
<1>9. \A i \in 0 .. n : Edge(h, longer, i) = Edge(h, written, i)
  <2>1. \A i \in 0 .. n : i = 0 \/ i \in 1 .. n
    BY <1>2
  <2> QED
    BY <1>6, <2>1 DEF Edge
<1>10. Edge(h, written, n) = Len(bytes)
  BY <1>1, <1>2 DEF LastEdge
<1>11. ASSUME NEW i \in 1 .. n + 1
       PROVE  /\ longer[i].from = Edge(h, longer, i - 1)
              /\ Holds(more, longer[i].from, HeaderLine(h, longer[i].key))
  <2>1. CASE i \in 1 .. n
    <3>1. longer[i] = written[i] /\ i - 1 \in 0 .. n
      BY <1>2, <1>6, <2>1
    <3>2. Edge(h, longer, i - 1) = Edge(h, written, i - 1)
      BY <1>9, <3>1
    <3>3. /\ written[i].from = Edge(h, written, i - 1)
          /\ Holds(more, written[i].from, HeaderLine(h, written[i].key))
      BY <1>2, <1>7, <2>1 DEF Laid
    <3> QED
      BY <3>1, <3>2, <3>3
  <2>2. CASE i = n + 1
    <3>1. i - 1 = n /\ n \in 0 .. n
      BY <1>2, <2>2
    <3>2. longer[i] = new
      BY <1>6, <2>2
    <3> QED
      BY <1>5, <1>8, <1>9, <1>10, <3>1, <3>2
  <2>3. i \in 1 .. n \/ i = n + 1
    BY <1>2, <1>11
  <2> QED
    BY <2>1, <2>2, <2>3
<1>12. Laid(h, longer, more)
  BY <1>6, <1>7, <1>11 DEF Laid
<1>13. Len(more) = LastEdge(h, longer)
  <2>1. n + 1 # 0
    BY <1>2
  <2>2. LastEdge(h, longer) = new.from + LineLen(h, new.key)
    BY <1>6, <2>1 DEF LastEdge, Edge
  <2> QED
    BY <1>5, <1>8, <2>2
<1>14. Visited(h, longer, rest \ {key})
  <2>1. \A i, j \in 1 .. n : written[i].key = written[j].key => i = j
    BY <1>2 DEF Visited
  <2>2. \A i \in 1 .. n : written[i].key \notin rest /\ written[i].key # key
    BY <1>2 DEF Visited
  <2>3. \A i \in 1 .. n + 1 : i \in 1 .. n \/ i = n + 1
    BY <1>2
  <2>4. ASSUME NEW i \in 1 .. n + 1, NEW j \in 1 .. n + 1, longer[i].key = longer[j].key
        PROVE  i = j
    BY <1>5, <1>6, <2>1, <2>2, <2>3, <2>4
  <2>5. \A i \in 1 .. n + 1 : longer[i].key \notin rest \ {key}
    BY <1>5, <1>6, <2>2, <2>3
  <2> QED
    BY <1>3, <1>6, <2>4, <2>5 DEF Visited
<1>15. ASSUME Complete(h, written, rest) PROVE Complete(h, longer, rest \ {key})
  <2>1. SUFFICES ASSUME NEW k \in DOMAIN h.configuration, k \notin rest \ {key}
                 PROVE  \E i \in 1 .. Len(longer) : longer[i].key = k
    BY DEF Complete
  <2>2. CASE k = key
    <3>1. n + 1 \in 1 .. Len(longer)
      BY <1>2, <1>6
    <3> QED
      BY <1>5, <1>6, <2>2, <3>1
  <2>3. CASE k # key
    <3>1. PICK i \in 1 .. n : written[i].key = k
      BY <1>2, <1>15, <2>1, <2>3 DEF Complete
    <3>2. i \in 1 .. Len(longer) /\ longer[i] = written[i]
      BY <1>2, <1>6, <3>1
    <3> QED
      BY <3>1, <3>2
  <2> QED
    BY <2>2, <2>3
<1> QED
  BY <1>12, <1>13, <1>14, <1>15 DEF Flush

\* The end.
LEMMA BodyIsLaid ==
    ASSUME NEW h, WellFormed(h), NEW written, NEW rest, Visited(h, written, rest),
           NEW bytes, Laid(h, written, bytes), Len(bytes) = LastEdge(h, written),
           NEW more, more = bytes \o NewLine \o BodyPart(h)
    PROVE  Laid(h, written, more) /\ Ended(h, written, more)
<1>1. PICK end : end = NewLine
  OBVIOUS
<1>2. end \in Texts /\ Len(end) = 2
  BY <1>1, Delimiters
<1>3. h.body \in Texts /\ more = bytes \o end \o h.body
  BY <1>1, BodyIsText
<1>4. bytes \in Texts /\ Len(bytes) \in Nat
  BY LenProperties DEF Laid, Texts
<1>5. PICK p : p = bytes \o end
  OBVIOUS
<1>6. p \in Texts /\ Len(p) = Len(bytes) + Len(end)
  BY <1>2, <1>4, <1>5, JoinedTexts
<1>7. Laid(h, written, p) /\ Holds(p, Len(bytes), end)
  BY <1>2, <1>4, <1>5, LaidLonger, HoldsLast
<1>8. more = p \o h.body
  BY <1>3, <1>5
<1>9. Laid(h, written, more) /\ Holds(more, Len(p), h.body) /\ Len(more) = Len(p) + Len(h.body)
  <2>1. Laid(h, written, p \o h.body)
    BY <1>3, <1>7, LaidLonger
  <2>2. Holds(p \o h.body, Len(p), h.body)
    BY <1>3, <1>6, HoldsLast
  <2>3. Len(p \o h.body) = Len(p) + Len(h.body)
    BY <1>3, <1>6, JoinedTexts
  <2> QED
    BY <1>8, <2>1, <2>2, <2>3
<1>10. Holds(more, Len(bytes), end)
  BY <1>2, <1>3, <1>4, <1>6, <1>7, <1>8, HoldsLonger
<1> QED
  BY <1>1, <1>2, <1>6, <1>9, <1>10 DEF Ended

-----------------------------------------------------------------------------
(* The steps of the serialiser, and those that leave its work alone.       *)

LEMMA SerializeStartLays ==
    ASSUME WellFormedMessages, SerializeStart PROVE Serialised'
<1>1. /\ pc' = "headers" /\ sent' \in Messages /\ raw_payload' = StartLine(sent') /\ lines' = <<>>
      /\ unvisited' = DOMAIN sent'.configuration
  BY DEF SerializeStart
<1>2. WellFormed(sent')
  BY <1>1 DEF WellFormedMessages
<1>3. /\ Laid(sent', lines', raw_payload') /\ Len(raw_payload') = LastEdge(sent', lines')
      /\ Visited(sent', lines', unvisited') /\ Complete(sent', lines', unvisited')
  BY <1>1, <1>2, StartIsLaid
<1> QED
  BY <1>1, <1>3 DEF Serialised

LEMMA SerializeHeadersLays ==
    ASSUME WellFormedMessages, Serialised, p_http_payload_serialize_headers PROVE Serialised'
<1>1. pc = "headers" /\ pc' = "headers" /\ sent' = sent
  BY DEF p_http_payload_serialize_headers
<1>2. /\ sent \in Messages /\ WellFormed(sent) /\ Laid(sent, lines, raw_payload)
      /\ Visited(sent, lines, unvisited) /\ unvisited \subseteq DOMAIN sent.configuration
      /\ ~starved => Complete(sent, lines, unvisited)
      /\ Len(raw_payload) = LastEdge(sent, lines)
  BY <1>1 DEF Serialised, WellFormedMessages
<1>3. PICK key \in unvisited :
        /\ unvisited' = unvisited \ {key}
        /\ \/ /\ raw_payload' = raw_payload \o HeaderLine(sent, key)
              /\ lines' = Append(lines, [key |-> key, from |-> Len(raw_payload)])
              /\ UNCHANGED starved
           \/ starved' = TRUE /\ UNCHANGED <<raw_payload, lines>>
  BY DEF p_http_payload_serialize_headers
<1>4. unvisited' \subseteq DOMAIN sent'.configuration
  BY <1>1, <1>2, <1>3
<1>5. CASE /\ raw_payload' = raw_payload \o HeaderLine(sent, key)
           /\ lines' = Append(lines, [key |-> key, from |-> Len(raw_payload)])
           /\ UNCHANGED starved
  <2>1. PICK longer, more : longer = lines' /\ more = raw_payload'
    OBVIOUS
  <2>3. key \in unvisited /\ key \in DOMAIN sent.configuration
    BY <1>2, <1>3
  <2>4. /\ more = raw_payload \o HeaderLine(sent, key)
        /\ longer = Append(lines, [key |-> key, from |-> Len(raw_payload)])
    BY <1>5, <2>1
  <2>5. PICK new : new = [key |-> key, from |-> Len(raw_payload)]
    OBVIOUS
  <2>6. /\ new \in [key : DOMAIN sent.configuration, from : Nat]
        /\ new.key = key /\ new.from = Len(raw_payload)
    BY <1>2, <2>3, <2>5, EdgesAreNat
  <2>7. longer = Append(lines, new) /\ more = raw_payload \o HeaderLine(sent, key)
    BY <2>4, <2>5
  <2>8. WellFormed(sent) /\ Visited(sent, lines, unvisited)
        /\ Flush(sent, lines, raw_payload)
    BY <1>2 DEF Flush
  <2>2. /\ Laid(sent, longer, more) /\ Len(more) = LastEdge(sent, longer)
        /\ Visited(sent, longer, unvisited \ {key})
        /\ Complete(sent, lines, unvisited) => Complete(sent, longer, unvisited \ {key})
    <3>1. Flush(sent, longer, more)
      BY <2>3, <2>6, <2>7, <2>8, LineIsLaid
    <3>3. Visited(sent, longer, unvisited \ {key})
      BY <2>3, <2>6, <2>7, <2>8, LineIsLaid
    <3>4. Complete(sent, lines, unvisited) => Complete(sent, longer, unvisited \ {key})
      BY <2>3, <2>6, <2>7, <2>8, LineIsLaid
    <3> QED
      BY <3>1, <3>3, <3>4 DEF Flush
  <2> QED
    BY <1>1, <1>2, <1>3, <1>4, <1>5, <2>1, <2>2 DEF Serialised
<1>6. CASE starved' = TRUE /\ UNCHANGED <<raw_payload, lines>>
  <2>1. Visited(sent, lines, unvisited \ {key})
    BY <1>2 DEF Visited
  <2> QED
    BY <1>1, <1>2, <1>3, <1>4, <1>6, <2>1 DEF Serialised
<1> QED
  BY <1>3, <1>5, <1>6

LEMMA SerializeBodyLays ==
    ASSUME WellFormedMessages, Serialised, SerializeBody PROVE Serialised'
<1>1. /\ pc = "headers" /\ pc' = "send" /\ unvisited = {}
      /\ UNCHANGED <<sent, unvisited, lines, starved>>
  BY DEF SerializeBody
<1>2. /\ sent \in Messages /\ WellFormed(sent) /\ Laid(sent, lines, raw_payload)
      /\ Visited(sent, lines, unvisited) /\ unvisited \subseteq DOMAIN sent.configuration
      /\ ~starved => Complete(sent, lines, unvisited)
      /\ Len(raw_payload) = LastEdge(sent, lines)
  BY <1>1 DEF Serialised, WellFormedMessages
<1>3. PICK more : more = raw_payload' /\ more = raw_payload \o NewLine \o BodyPart(sent)
  BY DEF SerializeBody
<1>4. Laid(sent, lines, more) /\ Ended(sent, lines, more)
  BY <1>2, <1>3, BodyIsLaid
<1> QED
  BY <1>1, <1>2, <1>3, <1>4 DEF Serialised

\* Once it is serialised a message stays as it is, and memory does not come back.
LEMMA MessageStays ==
    ASSUME Serialised, UNCHANGED message, starved => starved', starved \in BOOLEAN,
           pc' = pc \/ pc \notin {"write", "headers"} \/ pc' = "over",
           pc' \notin {"write", "headers"} \/ pc' = pc, pc = "over" => pc' = "over"
    PROVE  Serialised'
<1>1. UNCHANGED <<sent, raw_payload, unvisited, lines>>
  BY DEF message
<1> QED
  BY <1>1 DEF Serialised

-----------------------------------------------------------------------------
(* The bytes on the wire and in the buffer.                                *)

LEMMA Sizes ==
    ASSUME ParserInv, Serialised, StreamKept, pc \notin {"write", "over"}
    PROVE  /\ raw_payload \in Texts /\ Trailing \in Texts /\ Stream \in Texts
           /\ Len(raw_payload) \in Nat /\ Len(Trailing) \in Nat
           /\ Len(Stream) = Len(raw_payload) + Len(Trailing)
           /\ wire \in Texts /\ Len(wire) \in Nat
           /\ payload_size \in Nat /\ shift \in Nat /\ shift <= payload_size
           /\ Gone \in Int /\ Place \in Int
<1>1. raw_payload \in Texts /\ Trailing \in Texts /\ wire \in Texts
  BY SymbolAssumption DEF Serialised, Laid, StreamKept, Texts
<1>2. Len(raw_payload) \in Nat /\ Len(Trailing) \in Nat /\ Len(wire) \in Nat
  BY <1>1, LenProperties DEF Texts
<1>3. Stream \in Texts /\ Len(Stream) = Len(raw_payload) + Len(Trailing)
  BY <1>1, JoinedTexts DEF Stream
<1>4. payload_size \in Nat /\ shift \in Nat /\ shift <= payload_size
  BY DEF ParserInv, Terminated
<1>5. Gone \in Int /\ Place \in Int
  BY <1>2, <1>4 DEF Gone, Place
<1> QED
  BY <1>1, <1>2, <1>3, <1>4, <1>5

\* The serialiser sends nothing.
LEMMA SerializingKeepsStream ==
    ASSUME StreamKept, WellFormedMessages, Serialised',
           SerializeStart \/ p_http_payload_serialize_headers \/ SerializeBody \/ SerializeFails
    PROVE  StreamKept'
<1>1. /\ pc \in {"write", "headers"} /\ pc' \in {"headers", "send", "over"}
      /\ UNCHANGED <<wire, payload_size, shift, step, payload>>
  BY DEF SerializeStart, p_http_payload_serialize_headers, SerializeBody, SerializeFails,
         buffer, parsed
<1>2. /\ wire = <<>> /\ step = "A" /\ payload_size = 0 /\ shift = 0
      /\ payload = f_http_payload_initialize /\ wire \in Seq(Symbols)
  BY <1>1 DEF StreamKept, Reading
<1>3. ASSUME pc' = "send"
      PROVE  Len(wire') < Len(raw_payload') /\ Holds(raw_payload', 0, wire')
  <2>1. PICK h, written, bytes, rest :
          h = sent' /\ written = lines' /\ bytes = raw_payload' /\ rest = unvisited'
    OBVIOUS
  <2>2. WellFormed(h) /\ Visited(h, written, rest) /\ Ended(h, written, bytes)
    BY <1>3, <2>1 DEF Serialised, WellFormedMessages
  <2>3. LastEdge(h, written) \in Nat /\ Len(h.body) \in Nat
    BY <2>2, EdgesAreNat, BodyIsText
  <2>4. Len(bytes) \in Nat /\ 0 < Len(bytes)
    BY <2>2, <2>3 DEF Ended
  <2>5. Len(wire') = 0
    BY <1>1, <1>2, EmptySeq
  <2>6. Holds(bytes, 0, wire')
    BY <2>4, <2>5 DEF Holds
  <2> QED
    BY <2>1, <2>4, <2>5, <2>6
<1> QED
  BY <1>1, <1>2, <1>3 DEF StreamKept, Reading

\* A piece of the message goes behind what was sent of it.
LEMMA PieceIsNext ==
    ASSUME NEW s \in Texts, NEW t \in Texts, Holds(s, 0, t), NEW n \in Nat, Len(t) + n <= Len(s)
    PROVE  LET u == t \o SubSeq(s, Len(t) + 1, Len(t) + n) IN
           u \in Texts /\ Len(u) = Len(t) + n /\ Holds(s, 0, u)
<1>1. PICK size \in Nat : size = Len(t) /\ Len(s) \in Nat
  BY LenProperties DEF Texts
<1>2. PICK a \in Int, b \in Int : a = size + 1 /\ b = size + n
  BY <1>1
<1>3. PICK p : p = SubSeq(s, a, b)
  OBVIOUS
<1>4. \A i \in a .. b : s[i] \in Symbols
  <2>1. \A i \in a .. b : i \in 1 .. Len(s)
    BY <1>1, <1>2
  <2> QED
    BY <2>1, ElementOfSeq DEF Texts
<1>5. p \in Texts /\ Len(p) = n /\ \A i \in 1 .. n : p[i] = s[size + i]
  <2>1. /\ p \in Texts /\ Len(p) = IF a <= b THEN b - a + 1 ELSE 0
        /\ \A i \in 1 .. b - a + 1 : p[i] = s[a + i - 1]
    BY <1>3, <1>4, SubSeqProperties DEF Texts
  <2>2. (IF a <= b THEN b - a + 1 ELSE 0) = n /\ b - a + 1 = n
        /\ \A i \in 1 .. n : a + i - 1 = size + i
    BY <1>2
  <2> QED
    BY <2>1, <2>2
<1>6. PICK u : u = t \o p
  OBVIOUS
<1>7. u \in Texts /\ Len(u) = size + n
      /\ \A i \in 1 .. size + n : u[i] = IF i <= size THEN t[i] ELSE p[i - size]
  BY <1>1, <1>5, <1>6, JoinedTexts
<1>8. \A i \in 1 .. size : s[i] = t[i]
  <2>1. \A i \in 1 .. size : 0 + i = i
    BY <1>1
  <2> QED
    BY <1>1, <2>1 DEF Holds
<1>9. ASSUME NEW i \in 1 .. size + n PROVE u[i] = s[i]
  <2>1. CASE i \in 1 .. size
    BY <1>1, <1>7, <1>8, <2>1
  <2>2. CASE i \notin 1 .. size
    <3>1. i - size \in 1 .. n /\ size + (i - size) = i /\ ~ (i <= size)
      BY <1>1, <1>9, <2>2
    <3> QED
      BY <1>5, <1>7, <1>9, <3>1
  <2> QED
    BY <2>1, <2>2
<1>10. Holds(s, 0, u)
  <2>1. \A i \in 1 .. size + n : 0 + i = i
    BY <1>1
  <2> QED
    BY <1>1, <1>7, <1>9, <2>1 DEF Holds
<1> QED
  BY <1>1, <1>2, <1>3, <1>6, <1>7, <1>10

LEMMA WriteSomeKeepsStream ==
    ASSUME ParserInv, Serialised, StreamKept, NEW n \in Nat, WriteSome(n)
    PROVE  StreamKept' /\ (pc' = "out" => Gone' = 0 /\ Len(wire') > Len(Trailing))
<1>1. /\ pc = "send" /\ n <= Len(raw_payload) - Len(wire)
      /\ UNCHANGED <<raw_payload, payload_size, shift, step, payload>>
  BY DEF WriteSome, message, buffer, parsed
<1>2. /\ step = "A" /\ payload_size = 0 /\ shift = 0
      /\ payload = f_http_payload_initialize
      /\ Holds(raw_payload, 0, wire)
  BY <1>1 DEF StreamKept, Reading
<1>3. /\ raw_payload \in Texts /\ Trailing \in Texts /\ Stream \in Texts
      /\ Len(raw_payload) \in Nat /\ Len(Trailing) \in Nat
      /\ Len(Stream) = Len(raw_payload) + Len(Trailing)
      /\ wire \in Texts /\ Len(wire) \in Nat
  BY <1>1, Sizes
<1>4. PICK u : u = wire \o SubSeq(raw_payload, Len(wire) + 1, Len(wire) + n)
  OBVIOUS
<1>5. u \in Texts /\ Len(u) = Len(wire) + n /\ Holds(raw_payload, 0, u)
  BY <1>1, <1>2, <1>3, <1>4, PieceIsNext
<1>6. CASE Len(wire) + n = Len(raw_payload)
  <2>1. pc' = "out" /\ wire' = u \o Trailing
    BY <1>4, <1>6 DEF WriteSome
  <2>2. u = raw_payload
    <3>1. \A i \in 1 .. Len(u) : u[i] = raw_payload[0 + i] /\ 0 + i = i
      BY <1>3, <1>5 DEF Holds
    <3>2. Len(u) = Len(raw_payload) /\ \A i \in 1 .. Len(u) : u[i] = raw_payload[i]
      BY <1>5, <1>6, <3>1
    <3> QED
      BY <1>3, <1>5, <3>2, SeqEqual DEF Texts
  <2>3. wire' = Stream
    BY <2>1, <2>2 DEF Stream
  <2>4. wire' \in Seq(Symbols) /\ Len(wire') = Len(raw_payload) + Len(Trailing)
    BY <1>3, <2>3 DEF Texts
  <2>5. Gone' = 0
    BY <1>1, <1>2, <1>3, <2>4 DEF Gone
  <2>6. Stream' = Stream
    BY <1>1 DEF Stream
  <2>7. \A i \in 1 .. Len(wire') : wire'[i] = Stream'[Gone' + payload_size' + i]
    <3>1. \A i \in 1 .. Len(wire') : 0 + 0 + i = i
      BY <1>3, <2>4
    <3> QED
      BY <1>1, <1>2, <2>3, <2>5, <2>6, <3>1
  <2>8. 1 .. payload_size' = {}
    BY <1>1, <1>2
  <2>9. StreamKept'
    BY <1>1, <1>2, <2>1, <2>4, <2>5, <2>7, <2>8 DEF StreamKept, Reading
  <2>10. Len(wire') > Len(Trailing)
    <3>1. Len(wire) < Len(raw_payload)
      BY <1>1 DEF StreamKept
    <3> QED
      BY <1>3, <2>4, <3>1
  <2> QED
    BY <2>5, <2>9, <2>10
<1>7. CASE Len(wire) + n # Len(raw_payload)
  <2>1. pc' = "send" /\ wire' = u \o <<>>
    BY <1>1, <1>4, <1>7 DEF WriteSome
  <2>2. wire' = u
    BY <1>5, <2>1, ConcatEmptySeq DEF Texts
  <2>3. Len(wire') < Len(raw_payload')
    BY <1>1, <1>3, <1>5, <1>7, <2>2
  <2>4. StreamKept'
    BY <1>1, <1>2, <1>5, <2>1, <2>2, <2>3 DEF StreamKept, Reading, Texts
  <2>5. pc' # "out"
    BY <2>1
  <2> QED
    BY <2>4, <2>5
<1> QED
  BY <1>6, <1>7

LEMMA ReadSomeKeepsStream ==
    ASSUME ParserInv, Serialised, StreamKept, NEW n \in Nat, ReadSome(n)
    PROVE  StreamKept' /\ Gone' = Gone
<1>1. /\ pc = "read" /\ pc' = "parse" /\ n <= Len(Grown) - payload_size - 1 /\ n <= Len(wire)
      /\ UNCHANGED <<raw_payload, shift, step, payload>> /\ payload_size' = payload_size + n
  BY DEF ReadSome, message, parsed
<1>2. PICK g : /\ g = Grown /\ Len(g) \in Nat
               /\ \A i \in 1 .. payload_size : g[i] = in_buffer[i]
  BY GrownIsTerminated DEF ParserInv
<1>3. /\ Len(raw_payload) \in Nat /\ Len(Trailing) \in Nat
      /\ wire \in Texts /\ Len(wire) \in Nat /\ payload_size \in Nat /\ Gone \in Int
  BY <1>1, Sizes
<1>4. PICK size \in Nat, place \in Int : size = payload_size /\ place = Gone
  BY <1>3
<1>5. /\ 0 <= place
      /\ \A i \in 1 .. Len(wire) : wire[i] = Stream[place + size + i]
      /\ \A i \in 1 .. size : in_buffer[i] = Stream[place + i]
      /\ shift = 0
  BY <1>1, <1>4 DEF StreamKept, Reading
<1>6. PICK b : /\ b = in_buffer'
               /\ b = [i \in 1 .. Len(g) |->
                         IF i \in size + 1 .. size + n THEN wire[i - size] ELSE g[i]]
  BY <1>2, <1>4 DEF ReadSome
<1>7. PICK w : w = wire' /\ w = SubSeq(wire, n + 1, Len(wire))
  BY DEF ReadSome
<1>8. w \in Texts /\ Len(w) = Len(wire) - n /\ \A i \in 1 .. Len(wire) - n : w[i] = wire[n + i]
  <2>1. PICK a \in Int, z \in Int : a = n + 1 /\ z = Len(wire)
    BY <1>3
  <2>2. \A i \in a .. z : wire[i] \in Symbols
    <3>1. \A i \in a .. z : i \in 1 .. Len(wire)
      BY <1>3, <2>1
    <3> QED
      BY <1>3, <3>1, ElementOfSeq DEF Texts
  <2>3. /\ w \in Texts /\ Len(w) = IF a <= z THEN z - a + 1 ELSE 0
        /\ \A i \in 1 .. z - a + 1 : w[i] = wire[a + i - 1]
    BY <1>7, <2>1, <2>2, SubSeqProperties DEF Texts
  <2>4. (IF a <= z THEN z - a + 1 ELSE 0) = Len(wire) - n /\ z - a + 1 = Len(wire) - n
        /\ \A i \in 1 .. Len(wire) - n : a + i - 1 = n + i
    BY <1>1, <1>3, <2>1
  <2> QED
    BY <2>3, <2>4
<1>9. Gone' = place
  <2>1. Len(wire') = Len(wire) - n
    BY <1>7, <1>8
  <2>2. Gone' = Len(raw_payload) + Len(Trailing) - (Len(wire) - n) - (payload_size + n)
    BY <1>1, <2>1 DEF Gone
  <2> QED
    BY <1>3, <1>4, <2>2 DEF Gone
<1>10. Stream' = Stream
  BY <1>1 DEF Stream
<1>11. \A i \in 1 .. Len(w) : w[i] = Stream[place + (size + n) + i]
  <2>1. \A i \in 1 .. Len(w) : /\ i \in 1 .. Len(wire) - n /\ n + i \in 1 .. Len(wire)
                               /\ place + size + (n + i) = place + (size + n) + i
    BY <1>1, <1>3, <1>8
  <2> QED
    BY <1>5, <1>8, <2>1
<1>12. ASSUME NEW i \in 1 .. size + n PROVE b[i] = Stream[place + i]
  <2>1. i \in 1 .. Len(g)
    BY <1>1, <1>2, <1>3, <1>4, <1>12
  <2>2. CASE i \in 1 .. size
    <3>1. i \notin size + 1 .. size + n
      BY <2>2
    <3> QED
      BY <1>2, <1>4, <1>5, <1>6, <2>1, <2>2, <3>1
  <2>3. CASE i \in size + 1 .. size + n
    <3>1. i - size \in 1 .. Len(wire) /\ place + size + (i - size) = place + i
      BY <1>1, <1>3, <1>4, <2>3
    <3>2. b[i] = wire[i - size]
      BY <1>6, <2>1, <2>3
    <3> QED
      BY <1>5, <3>1, <3>2
  <2>4. i \in 1 .. size \/ i \in size + 1 .. size + n
    BY <1>12
  <2> QED
    BY <2>2, <2>3, <2>4
<1>13. /\ wire' \in Seq(Symbols) /\ 0 <= Gone'
       /\ \A i \in 1 .. Len(wire') : wire'[i] = Stream'[Gone' + payload_size' + i]
       /\ \A i \in 1 .. payload_size' : in_buffer'[i] = Stream'[Gone' + i]
  BY <1>1, <1>4, <1>5, <1>6, <1>7, <1>8, <1>9, <1>10, <1>11, <1>12 DEF Texts
<1>14. StreamKept'
  BY <1>1, <1>13 DEF StreamKept, Reading
<1> QED
  BY <1>4, <1>9, <1>14

\* The steps that read no byte and move none.
LEMMA SameBytesKeepStream ==
    ASSUME StreamKept,
           raw_payload' = raw_payload, wire' = wire, payload_size' = payload_size,
           \A i \in 1 .. payload_size : in_buffer'[i] = in_buffer[i],
           pc \in {"out", "read", "parse", "compact"},
           pc' \in {"out", "read", "parse", "compact"},
           pc' \in {"out", "read"} => shift' = 0
    PROVE  StreamKept'
<1>1. Stream' = Stream /\ Gone' = Gone
  BY DEF Stream, Gone
<1>2. pc \notin {"write", "headers", "send"} /\ pc' \notin {"write", "headers", "send"}
  BY DEF Reading
<1> QED
  BY <1>1, <1>2 DEF StreamKept, Reading

LEMMA ReadTimeoutKeepsStream ==
    ASSUME ParserInv, StreamKept, ReadTimeout PROVE StreamKept'
<1>1. /\ pc = "read" /\ pc' = "out" /\ in_buffer' = Grown
      /\ UNCHANGED <<raw_payload, wire, payload_size, shift>>
  BY DEF ReadTimeout, message
<1>2. \A i \in 1 .. payload_size : in_buffer'[i] = in_buffer[i]
  BY <1>1, GrownIsTerminated DEF ParserInv
<1>3. shift = 0
  BY <1>1 DEF StreamKept
<1> QED
  BY <1>1, <1>2, <1>3, SameBytesKeepStream

LEMMA CompactKeepsStream ==
    ASSUME ParserInv, Serialised, StreamKept, Compact PROVE StreamKept' /\ Place' = Place
<1>1. /\ pc = "compact" /\ pc' \in {"out", "read"} /\ UNCHANGED <<raw_payload, wire, step, payload>>
      /\ payload_size' = payload_size - shift /\ shift' = 0
  BY DEF Compact, message, parsed
<1>2. \A i \in 1 .. payload_size - shift : in_buffer'[i] = in_buffer[shift + i]
  BY CompactKeepsInv
<1>3. /\ Len(raw_payload) \in Nat /\ Len(Trailing) \in Nat /\ Len(wire) \in Nat
      /\ payload_size \in Nat /\ shift \in Nat /\ shift <= payload_size /\ Gone \in Int
  BY <1>1, Sizes
<1>4. Stream' = Stream /\ Gone' = Gone + shift
  BY <1>1, <1>3 DEF Stream, Gone
<1>5. /\ 0 <= Gone /\ wire \in Seq(Symbols)
      /\ \A i \in 1 .. Len(wire) : wire[i] = Stream[Gone + payload_size + i]
      /\ \A i \in 1 .. payload_size : in_buffer[i] = Stream[Gone + i]
  BY <1>1 DEF StreamKept, Reading
<1>6. \A i \in 1 .. Len(wire) : wire[i] = Stream[Gone' + payload_size' + i]
  <2>1. \A i \in 1 .. Len(wire) : Gone' + payload_size' + i = Gone + payload_size + i
    BY <1>1, <1>3, <1>4
  <2> QED
    BY <1>5, <2>1
<1>7. \A i \in 1 .. payload_size' : in_buffer'[i] = Stream[Gone' + i]
  <2>1. \A i \in 1 .. payload_size' : /\ i \in 1 .. payload_size - shift
                                      /\ shift + i \in 1 .. payload_size
                                      /\ Gone + (shift + i) = Gone' + i
    BY <1>1, <1>3, <1>4
  <2> QED
    BY <1>2, <1>5, <2>1
<1>8. 0 <= Gone'
  BY <1>3, <1>4, <1>5
<1>9. StreamKept'
  BY <1>1, <1>4, <1>5, <1>6, <1>7, <1>8 DEF StreamKept, Reading
<1>10. Place' = Place
  <2>1. Gone' + shift' = Gone + shift
    BY <1>1, <1>3, <1>4
  <2> QED
    BY <2>1 DEF Place
<1> QED
  BY <1>9, <1>10

LEMMA TurnKeepsStream ==
    ASSUME StreamKept, NEW s, Turn(s), pc' \in {"parse", "compact"} PROVE StreamKept'
<1>1. pc = "parse" /\ UNCHANGED <<raw_payload, wire, in_buffer, payload_size>>
  BY DEF Turn, message
<1> QED
  BY <1>1, SameBytesKeepStream

-----------------------------------------------------------------------------
(* What the parser finds.                                                  *)

\* A field of the stream that has been received with its end is found as it is, and one that
\* is not found has not been received with its end.
LEMMA FieldIsFound ==
    ASSUME ParserInv, Serialised, StreamKept, pc = "parse",
           NEW needle \in {NewLine, Space}, NEW field \in Texts,
           \A i \in 1 .. Len(field) : field[i] # NUL /\ field[i] # needle[1],
           Holds(Stream, Place, field), Holds(Stream, Place + Len(field), needle)
    PROVE  /\ Present(needle) =>
                /\ First(Hits(needle, shift)) = shift + Len(field)
                /\ Block(needle, TRUE).text = field
                /\ Block(needle, TRUE).next = shift + Len(field) + Len(needle)
           /\ ~Present(needle) => Gone + payload_size < Place + Len(field) + Len(needle)
<1>1. PICK S : in_buffer \in Seq(S)
  BY DEF ParserInv, Terminated
<1>2. PICK size \in {1, 2} : size = Len(needle)
  BY Needles
<1>3. PICK n \in Nat : n = Len(field)
  BY LenProperties DEF Texts
<1>4. /\ payload_size \in Nat /\ shift \in Nat /\ shift <= payload_size
      /\ Len(in_buffer) \in Nat /\ payload_size < Len(in_buffer)
  BY <1>1, LenProperties DEF ParserInv, Terminated
<1>5. PICK gone \in Int : gone = Gone /\ Place = gone + shift
  BY Sizes DEF Place
<1>6. \A i \in 1 .. payload_size : in_buffer[i] = Stream[gone + i]
  BY <1>5 DEF StreamKept, Reading
<1>7. /\ \A i \in 1 .. n : Stream[gone + shift + i] = field[i]
      /\ \A i \in 1 .. size : Stream[gone + shift + n + i] = needle[i]
  BY <1>2, <1>3, <1>5 DEF Holds
<1>8. PICK end \in Nat : end = shift + n
  BY <1>3, <1>4
<1>9. ASSUME NEW i \in 1 .. n, shift + i <= payload_size PROVE in_buffer[shift + i] = field[i]
  <2>1. shift + i \in 1 .. payload_size /\ gone + (shift + i) = gone + shift + i
    BY <1>3, <1>4, <1>5, <1>9
  <2> QED
    BY <1>6, <1>7, <2>1
<1>10. ASSUME NEW i \in 1 .. size, end + i <= payload_size PROVE in_buffer[end + i] = needle[i]
  <2>1. end + i \in 1 .. payload_size /\ gone + (end + i) = gone + shift + n + i
    BY <1>3, <1>4, <1>5, <1>8, <1>10
  <2> QED
    BY <1>6, <1>7, <2>1
<1>11. PICK hits : hits = Hits(needle, shift)
  OBVIOUS
<1>12. hits \in SUBSET Nat
  <2>1. \A k \in hits : k \in shift .. Len(in_buffer) - size
    BY <1>2, <1>11 DEF Hits
  <2>2. \A k \in shift .. Len(in_buffer) - size : k \in Nat
    BY <1>4
  <2> QED
    BY <2>1, <2>2
<1>13. ASSUME end + size <= payload_size PROVE end \in hits
  <2>1. Holds(in_buffer, end, needle)
    <3>1. \A i \in 1 .. size : end + i <= payload_size
      BY <1>13, <1>2, <1>4, <1>8
    <3> QED
      BY <1>2, <1>4, <1>8, <1>10, <1>13, <3>1 DEF Holds
  <2>2. needle \in Texts
    BY Delimiters
  <2>3. SubSeq(in_buffer, end + 1, end + Len(needle)) = needle
    BY <1>1, <1>8, <2>1, <2>2, HoldsIsSubSeq DEF Texts
  <2>4. \A i \in shift + 1 .. end : in_buffer[i] # NUL
    <3>1. SUFFICES ASSUME NEW i \in shift + 1 .. end PROVE in_buffer[i] # NUL
      OBVIOUS
    <3>2. i - shift \in 1 .. n /\ shift + (i - shift) = i /\ i <= payload_size
      BY <1>2, <1>3, <1>4, <1>8, <1>13, <3>1
    <3> QED
      BY <1>3, <1>9, <3>2
  <2>5. end \in shift .. Len(in_buffer) - size
    BY <1>2, <1>3, <1>4, <1>8, <1>13
  <2> QED
    BY <1>2, <1>11, <2>3, <2>4, <2>5 DEF Hits
<1>14. ASSUME Present(needle)
       PROVE  First(hits) = end /\ end + size <= payload_size
  <2>1. PICK k : k = First(hits)
    OBVIOUS
  <2>2. k \in hits /\ \A j \in hits : k <= j
    BY <1>11, <1>12, <1>14, <2>1, FirstIsLeast DEF Present
  <2>3. k \in Nat /\ shift <= k /\ k + size <= payload_size
    BY <1>2, <1>11, <1>14, <2>1, HitIsReceived DEF ParserInv
  <2>4. in_buffer[k + 1] = needle[1]
    <3>1. PICK a \in Int, b \in Int : a = k + 1 /\ b = k + size
      BY <1>2, <2>3
    <3>2. SubSeq(in_buffer, a, b) = needle
      BY <1>2, <1>11, <2>2, <3>1 DEF Hits
    <3>3. \A i \in a .. b : in_buffer[i] \in S
      <4>1. \A i \in a .. b : i \in 1 .. Len(in_buffer)
        BY <1>4, <2>3, <3>1
      <4> QED
        BY <1>1, <4>1, ElementOfSeq
    <3>4. \A i \in 1 .. b - a + 1 : SubSeq(in_buffer, a, b)[i] = in_buffer[a + i - 1]
      BY <3>3, SubSeqProperties
    <3>5. 1 \in 1 .. b - a + 1 /\ a + 1 - 1 = k + 1
      BY <1>2, <2>3, <3>1
    <3> QED
      BY <3>2, <3>4, <3>5
  <2>5. end <= k
    <3>1. SUFFICES ASSUME k < end PROVE FALSE
      BY <1>8, <2>3
    <3>2. PICK i \in 1 .. n : i = k + 1 - shift
      BY <1>3, <1>4, <1>8, <2>3, <3>1
    <3>3. shift + i = k + 1 /\ shift + i <= payload_size
      BY <1>2, <1>4, <2>3, <3>2
    <3> QED
      BY <1>3, <1>9, <2>4, <3>2, <3>3
  <2>6. end + size <= payload_size
    BY <1>2, <1>4, <1>8, <2>3, <2>5
  <2>7. k <= end
    BY <1>13, <2>2, <2>6
  <2> QED
    BY <1>8, <2>1, <2>3, <2>5, <2>6, <2>7
<1>15. ASSUME Present(needle)
       PROVE  /\ First(Hits(needle, shift)) = shift + Len(field)
              /\ Block(needle, TRUE).text = field
              /\ Block(needle, TRUE).next = shift + Len(field) + Len(needle)
  <2>1. First(Hits(needle, shift)) = end
    BY <1>11, <1>14, <1>15
  <2>2. Holds(in_buffer, shift, field)
    <3>1. \A i \in 1 .. n : shift + i <= payload_size
      BY <1>2, <1>4, <1>8, <1>14, <1>15
    <3> QED
      BY <1>2, <1>3, <1>4, <1>8, <1>9, <1>14, <1>15, <3>1 DEF Holds
  <2>3. SubSeq(in_buffer, shift + 1, end) = field
    BY <1>1, <1>3, <1>4, <1>8, <2>2, HoldsIsSubSeq DEF Texts
  <2> QED
    BY <1>3, <1>8, <2>1, <2>3 DEF Block
<1>16. ASSUME ~Present(needle) PROVE Gone + payload_size < Place + Len(field) + Len(needle)
  <2>1. ~ (end + size <= payload_size)
    <3>1. SUFFICES ASSUME end + size <= payload_size PROVE FALSE
      OBVIOUS
    <3>2. hits # {} /\ payload_size > shift
      BY <1>2, <1>3, <1>4, <1>8, <1>13, <3>1
    <3> QED
      BY <1>11, <1>16, <3>2 DEF Present
  <2> QED
    BY <1>2, <1>3, <1>4, <1>5, <1>8, <2>1
<1> QED
  BY <1>15, <1>16

-----------------------------------------------------------------------------
(* The start line.                                                         *)

LEMMA InLineIsFree ==
    /\ \A t \in InField : \A i \in 1 .. Len(t) : t[i] # NUL /\ t[i] # " " /\ t[i] # "CR"
    /\ \A t \in InLine : \A i \in 1 .. Len(t) : t[i] # NUL /\ t[i] # "CR"
<1>1. ASSUME NEW t \in InField, NEW i \in 1 .. Len(t) PROVE t[i] # NUL /\ t[i] # " " /\ t[i] # "CR"
  <2>1. t[i] \in Symbols \ {NUL, " ", "CR"}
    BY ElementOfSeq DEF InField, Free
  <2> QED
    BY <2>1
<1>2. ASSUME NEW t \in InLine, NEW i \in 1 .. Len(t) PROVE t[i] # NUL /\ t[i] # "CR"
  <2>1. t[i] \in Symbols \ {NUL, "CR"}
    BY ElementOfSeq DEF InLine, Free
  <2> QED
    BY <2>1
<1> QED
  BY <1>1, <1>2

\* What is read is what was serialised, and then the rest of the stream.
LEMMA StreamIsLaid ==
    ASSUME WellFormedMessages, ParserInv, Serialised, StreamKept, pc = "parse"
    PROVE  /\ WellFormed(sent) /\ Visited(sent, lines, unvisited) /\ Laid(sent, lines, raw_payload)
           /\ Ended(sent, lines, raw_payload) /\ (~starved => Complete(sent, lines, {}))
           /\ raw_payload \in Texts /\ Trailing \in Texts /\ Stream \in Texts
           /\ \A from \in Nat : \A t \in Texts : Holds(raw_payload, from, t) =>
                Holds(Stream, from, t) /\ from + Len(t) <= Len(raw_payload)
<1>1. /\ WellFormed(sent) /\ Visited(sent, lines, unvisited) /\ Laid(sent, lines, raw_payload)
      /\ Ended(sent, lines, raw_payload) /\ (~starved => Complete(sent, lines, {}))
  BY DEF WellFormedMessages, Serialised
<1>2. raw_payload \in Texts /\ Trailing \in Texts /\ Stream \in Texts
  BY Sizes
<1>3. ASSUME NEW from \in Nat, NEW t \in Texts, Holds(raw_payload, from, t)
      PROVE  Holds(Stream, from, t) /\ from + Len(t) <= Len(raw_payload)
  <2>1. Holds(raw_payload \o Trailing, from, t)
    BY <1>2, <1>3, HoldsLonger
  <2> QED
    BY <1>3, <2>1 DEF Stream, Holds
<1> QED
  BY <1>1, <1>2, <1>3

\* A field with its end, which the parser is in front of.
Ahead(field, needle) ==
    /\ field \in Texts /\ \A i \in 1 .. Len(field) : field[i] # NUL /\ field[i] # needle[1]
    /\ Holds(Stream, Place, field) /\ Holds(Stream, Place + Len(field), needle)
    /\ Place + Len(field) + Len(needle) <= Len(raw_payload)

LEMMA AheadIsTaken ==
    ASSUME ParserInv, Serialised, StreamKept, NEW s, Turn(s), ~starved',
           NEW needle \in {NewLine, Space}, NEW field, Ahead(field, needle),
           NEW ok \in BOOLEAN, Present(needle), Allocated(needle, ok),
           shift' = Block(needle, ok).next
    PROVE  /\ ok = TRUE /\ Block(needle, ok).text = field
           /\ Gone + shift' = Place + Len(field) + Len(needle)
<1>1. ok = TRUE
  BY DEF Allocated
<1>2. pc = "parse"
  BY DEF Turn
<1>3. Block(needle, TRUE).text = field /\ Block(needle, TRUE).next = shift + Len(field) + Len(needle)
  BY <1>2, FieldIsFound DEF Ahead
<1>4. Len(field) \in Nat /\ Len(needle) \in Nat /\ shift \in Nat /\ Gone \in Int
  BY <1>2, Needles, LenProperties, Sizes DEF Ahead, Texts
<1>5. Gone + shift' = Place + Len(field) + Len(needle)
  <2>1. shift' = shift + Len(field) + Len(needle)
    BY <1>1, <1>3
  <2> QED
    BY <1>4, <2>1 DEF Place
<1> QED
  BY <1>1, <1>3, <1>5

LEMMA AheadIsAwaited ==
    ASSUME ParserInv, Serialised, StreamKept, NEW s, Turn(s),
           NEW needle \in {NewLine, Space}, NEW field, Ahead(field, needle), ~Present(needle)
    PROVE  Len(wire) > Len(Trailing)
<1>1. pc = "parse"
  BY DEF Turn
<1>2. Gone + payload_size < Place + Len(field) + Len(needle)
  BY <1>1, FieldIsFound DEF Ahead
<1>3. /\ Len(raw_payload) \in Nat /\ Len(Trailing) \in Nat /\ Len(wire) \in Nat
      /\ payload_size \in Nat /\ Gone \in Int /\ Place \in Int
  BY <1>1, Sizes
<1>4. Len(field) \in Nat /\ Len(needle) \in Nat
  BY Needles, LenProperties DEF Ahead, Texts
<1>5. Gone + payload_size < Len(raw_payload)
  BY <1>2, <1>3, <1>4 DEF Ahead
<1>6. Gone + payload_size = Len(raw_payload) + Len(Trailing) - Len(wire)
  BY <1>3 DEF Gone
<1> QED
  BY <1>3, <1>5, <1>6

\* A turn that finds nothing.
LEMMA WaitFollows ==
    ASSUME ParserInv, MessageInv, NEW s, Turn(s), Wait, starved \/ Len(wire) > Len(Trailing)
    PROVE  Follows' /\ Awaits'
<1>1. /\ pc = "parse" /\ pc' = "compact"
      /\ UNCHANGED <<sent, raw_payload, lines, wire, payload_size, shift, step, payload, starved>>
  BY DEF Turn, Wait, message, parsed
<1>2. Place' = Place
  BY <1>1 DEF Place, Gone
<1>3. Follows'
  BY <1>1, <1>2 DEF Follows, Reading, MessageInv
<1>4. Awaits'
  BY <1>1 DEF Awaits
<1> QED
  BY <1>3, <1>4

\* A turn that takes something.
LEMMA TurnFollows ==
    ASSUME NEW s, Turn(s), Taken(sent, lines, step', Gone + shift', payload')
    PROVE  Follows'
<1>1. UNCHANGED <<sent, raw_payload, lines, wire, payload_size>>
  BY DEF Turn, message
<1>2. Place' = Gone + shift'
  BY <1>1 DEF Place, Gone
<1> QED
  BY <1>1, <1>2 DEF Follows

LEMMA NoFieldYet ==
    ASSUME NEW h, WellFormed(h)
    PROVE  Fields(h, 0, <<>>, <<>>) = f_http_payload_initialize
BY DEF Fields, f_http_payload_initialize

LEMMA FieldsOfRequest ==
    ASSUME NEW h, Request(h), NEW headers, NEW body
    PROVE  /\ Fields(h, 1, headers, body) =
                [method |-> h.method, path |-> <<>>, version |-> <<>>, status_code |-> 0,
                 status_message |-> <<>>, configuration |-> headers, body |-> body]
           /\ Fields(h, 2, headers, body) =
                [method |-> h.method, path |-> h.path, version |-> <<>>, status_code |-> 0,
                 status_message |-> <<>>, configuration |-> headers, body |-> body]
           /\ Fields(h, 3, headers, body) =
                [method |-> h.method, path |-> h.path, version |-> h.version, status_code |-> 0,
                 status_message |-> <<>>, configuration |-> headers, body |-> body]
BY DEF Fields, Request

LEMMA FieldsOfResponse ==
    ASSUME NEW h, ~Request(h), NEW headers, NEW body
    PROVE  Fields(h, 1, headers, body) =
             [method |-> <<>>, path |-> <<>>, version |-> h.version, status_code |-> 0,
              status_message |-> <<>>, configuration |-> headers, body |-> body]
BY DEF Fields, Request

LEMMA StatusFieldsOfResponse ==
    ASSUME NEW h, ~Request(h), NEW headers, NEW body, NEW code,
           code = IF h.status_code \in 100 .. 599 THEN h.status_code ELSE 0
    PROVE  /\ Fields(h, 2, headers, body) =
                [method |-> <<>>, path |-> <<>>, version |-> h.version, status_code |-> code,
                 status_message |-> <<>>, configuration |-> headers, body |-> body]
           /\ Fields(h, 3, headers, body) =
                [method |-> <<>>, path |-> <<>>, version |-> h.version, status_code |-> code,
                 status_message |-> h.status_message, configuration |-> headers, body |-> body]
BY DEF Fields, Request

LEMMA StartIsAhead ==
    ASSUME WellFormedMessages, ParserInv, Serialised, StreamKept, pc = "parse"
    PROVE  /\ WellFormed(sent) /\ Len(Field(sent, 1)) \in Nat \ {0} /\ Len(Field(sent, 2)) \in Nat \ {0}
           /\ BehindFirst(sent) \in Nat /\ BehindSecond(sent) \in Nat /\ BehindStart(sent) \in Nat
           /\ Place = 0 => Ahead(Field(sent, 1), Space)
           /\ Place = BehindFirst(sent) => Ahead(Field(sent, 2), Space)
           /\ Place = BehindSecond(sent) => Ahead(Field(sent, 3), NewLine)
<1>1. /\ WellFormed(sent) /\ raw_payload \in Texts /\ Holds(raw_payload, 0, StartLine(sent))
      /\ \A from \in Nat : \A t \in Texts : Holds(raw_payload, from, t) =>
           Holds(Stream, from, t) /\ from + Len(t) <= Len(raw_payload)
  BY StreamIsLaid DEF Laid
<1>2. PICK a, b, c : a = Field(sent, 1) /\ b = Field(sent, 2) /\ c = Field(sent, 3)
  OBVIOUS
<1>3. PICK p, q : p = BehindFirst(sent) /\ q = BehindSecond(sent)
  OBVIOUS
<1>4. /\ a \in Texts /\ b \in Texts /\ c \in Texts
      /\ Len(a) \in Nat \ {0} /\ Len(b) \in Nat \ {0} /\ Len(c) \in Nat
      /\ p \in Nat /\ q \in Nat /\ BehindStart(sent) \in Nat
  BY <1>1, <1>2, <1>3, FieldsAreTexts
<1>5. PICK space, end : space = Space /\ end = NewLine
  OBVIOUS
<1>6. /\ space \in Texts /\ Len(space) = 1 /\ space[1] = " "
      /\ end \in Texts /\ Len(end) = 2 /\ end[1] = "CR"
  BY <1>5, Delimiters
<1>7. /\ Holds(raw_payload, 0, a) /\ Holds(raw_payload, Len(a), space)
      /\ Holds(raw_payload, p, b) /\ Holds(raw_payload, p + Len(b), space)
      /\ Holds(raw_payload, q, c) /\ Holds(raw_payload, q + Len(c), end)
  BY <1>1, <1>2, <1>3, <1>5, StartLineParts
<1>8. /\ \A i \in 1 .. Len(a) : a[i] # NUL /\ a[i] # " "
      /\ \A i \in 1 .. Len(b) : b[i] # NUL /\ b[i] # " "
      /\ \A i \in 1 .. Len(c) : c[i] # NUL /\ c[i] # "CR"
  <2>1. a \in InField /\ b \in InField /\ c \in InLine
    BY <1>1, <1>2, FieldsAreFree
  <2> QED
    BY <2>1, InLineIsFree
<1>9. Place = 0 => Ahead(a, space)
  <2>1. Holds(Stream, 0, a) /\ Holds(Stream, Len(a), space) /\ Len(a) + 1 <= Len(raw_payload)
    BY <1>1, <1>4, <1>6, <1>7
  <2>2. 0 + Len(a) = Len(a)
    BY <1>4
  <2> QED
    BY <1>4, <1>6, <1>8, <2>1, <2>2 DEF Ahead
<1>10. Place = p => Ahead(b, space)
  <2>1. p + Len(b) \in Nat
    BY <1>4
  <2>2. Holds(Stream, p, b) /\ Holds(Stream, p + Len(b), space) /\ p + Len(b) + 1 <= Len(raw_payload)
    BY <1>1, <1>4, <1>6, <1>7, <2>1
  <2> QED
    BY <1>4, <1>6, <1>8, <2>2 DEF Ahead
<1>11. Place = q => Ahead(c, end)
  <2>1. q + Len(c) \in Nat
    BY <1>4
  <2>2. Holds(Stream, q, c) /\ Holds(Stream, q + Len(c), end) /\ q + Len(c) + 2 <= Len(raw_payload)
    BY <1>1, <1>4, <1>6, <1>7, <2>1
  <2> QED
    BY <1>4, <1>6, <1>8, <2>2 DEF Ahead
<1> QED
  BY <1>1, <1>2, <1>3, <1>4, <1>5, <1>9, <1>10, <1>11

\* What a turn knows that lacks nothing.
LEMMA TurnKnows ==
    ASSUME WellFormedMessages, ParserInv, MessageInv, NEW s, Turn(s), ~starved', starved => starved'
    PROVE  /\ pc = "parse" /\ ~starved /\ step = s /\ Serialised /\ StreamKept
           /\ Taken(sent, lines, s, Place, payload)
           /\ WellFormed(sent) /\ Visited(sent, lines, unvisited)
           /\ Gone \in Int /\ shift \in Nat
<1>1. pc = "parse" /\ ~starved /\ step = s
  BY DEF Turn
<1>2. Serialised /\ StreamKept /\ Follows
  BY DEF MessageInv
<1>3. Taken(sent, lines, s, Place, payload)
  BY <1>1, <1>2 DEF Follows, Reading
<1>4. WellFormed(sent) /\ Visited(sent, lines, unvisited)
  BY <1>1, <1>2, StreamIsLaid
<1>5. Gone \in Int /\ shift \in Nat
  BY <1>1, <1>2, Sizes
<1> QED
  BY <1>1, <1>2, <1>3, <1>4, <1>5

LEMMA GotoElsewhere ==
    ASSUME NEW s, NEW to, Goto(to), step = s, to # s, to # "completed"
    PROVE  step' = to /\ pc' = "parse"
BY DEF Goto

\* Nobody has to know more of a turn after which something is missing.
LEMMA StarvedFollows == ASSUME starved' PROVE Follows' /\ Awaits'
BY DEF Follows, Awaits

LEMMA StepAFollows ==
    ASSUME WellFormedMessages, ParserInv, MessageInv, StepA PROVE Follows' /\ Awaits'
<1>1. Turn("A")
  BY DEF StepA
<1>2. CASE starved'
  BY <1>2, StarvedFollows
<1>3. CASE ~starved' /\ ~Present(Space) /\ Wait
  <2>1. starved => starved'
    BY <1>3 DEF Wait
  <2>2. Serialised /\ StreamKept /\ pc = "parse" /\ Place = 0
    BY <1>1, <1>3, <2>1, TurnKnows DEF Taken
  <2>3. Ahead(Field(sent, 1), Space)
    BY <2>2, StartIsAhead
  <2>4. Len(wire) > Len(Trailing)
    BY <1>1, <1>3, <2>2, <2>3, AheadIsAwaited
  <2> QED
    BY <1>1, <1>3, <2>4, WaitFollows
<1>4. ASSUME ~starved', NEW ok \in BOOLEAN, Present(Space), Allocated(Space, ok),
             shift' = Block(Space, ok).next,
             \/ Block(Space, ok).text = <<>> /\ Goto("A") /\ UNCHANGED payload
             \/ /\ Block(Space, ok).text # <<>> /\ Goto("B")
                /\ payload' = IF \E m \in Methods : Block(Space, ok).text = <<m>>
                                THEN [payload EXCEPT !.method = Block(Space, ok).text]
                                ELSE [payload EXCEPT !.version = Block(Space, ok).text]
      PROVE  Follows' /\ Awaits'
  <2>1. starved => starved'
    BY <1>4 DEF Allocated
  <2>2. /\ Serialised /\ StreamKept /\ pc = "parse" /\ step = "A" /\ Place = 0
        /\ payload = Fields(sent, 0, <<>>, <<>>) /\ WellFormed(sent)
    BY <1>1, <1>4, <2>1, TurnKnows DEF Taken
  <2>3. PICK field : field = Field(sent, 1) /\ Ahead(field, Space) /\ Len(field) \in Nat \ {0}
    BY <2>2, StartIsAhead
  <2>4. Block(Space, ok).text = field /\ Gone + shift' = Place + Len(field) + Len(Space)
    BY <1>1, <1>4, <2>2, <2>3, AheadIsTaken
  <2>5. field # <<>>
    BY <2>3, EmptySeq
  <2>6. /\ Goto("B")
        /\ payload' = IF \E m \in Methods : field = <<m>>
                        THEN [payload EXCEPT !.method = field] ELSE [payload EXCEPT !.version = field]
    BY <1>4, <2>4, <2>5
  <2>7. step' = "B" /\ pc' = "parse"
    BY <2>2, <2>6, GotoElsewhere
  <2>8. Gone + shift' = BehindFirst(sent)
    <3>1. Len(Space) = 1
      BY Delimiters
    <3>2. BehindFirst(sent) = Len(field) + 1
      BY <2>3 DEF BehindFirst
    <3> QED
      BY <2>2, <2>3, <2>4, <3>1, <3>2
  <2>9. payload' = Fields(sent, 1, <<>>, <<>>)
    <3>1. Request(sent) <=> \E m \in Methods : field = <<m>>
      BY <2>2, <2>3, FieldsAreFree
    <3>2. payload = [method |-> <<>>, path |-> <<>>, version |-> <<>>, status_code |-> 0,
                     status_message |-> <<>>, configuration |-> <<>>, body |-> <<>>]
      BY <2>2, NoFieldYet DEF f_http_payload_initialize
    <3>3. CASE Request(sent)
      <4>1. field = sent.method
        BY <2>3, <3>3, StartFieldsAre
      <4>2. payload' = [payload EXCEPT !.method = field]
        BY <2>6, <3>1, <3>3
      <4>3. payload' = [method |-> field, path |-> <<>>, version |-> <<>>, status_code |-> 0,
                     status_message |-> <<>>, configuration |-> <<>>, body |-> <<>>]
        BY <3>2, <4>2
      <4> QED
        BY <3>3, <4>1, <4>3, FieldsOfRequest
    <3>4. CASE ~Request(sent)
      <4>1. field = sent.version
        BY <2>3, <3>4, StartFieldsAre
      <4>2. payload' = [payload EXCEPT !.version = field]
        BY <2>6, <3>1, <3>4
      <4>3. payload' = [method |-> <<>>, path |-> <<>>, version |-> field, status_code |-> 0,
                     status_message |-> <<>>, configuration |-> <<>>, body |-> <<>>]
        BY <3>2, <4>2
      <4> QED
        BY <3>4, <4>1, <4>3, FieldsOfResponse
    <3> QED
      BY <3>3, <3>4
  <2>10. Taken(sent, lines, step', Gone + shift', payload')
    BY <2>7, <2>8, <2>9 DEF Taken
  <2>11. Follows'
    BY <1>1, <2>10, TurnFollows
  <2>12. Awaits'
    BY <2>7 DEF Awaits
  <2> QED
    BY <2>11, <2>12
<1> QED
  BY <1>2, <1>3, <1>4 DEF StepA

LEMMA NoReturnBefore ==
    ASSUME WellFormedMessages, ParserInv, Serialised, StreamKept, pc = "parse",
           NEW i \in 1 .. BehindSecond(sent) - 1
    PROVE  Stream[i] # "CR"
<1>1. /\ WellFormed(sent) /\ raw_payload \in Texts /\ Holds(raw_payload, 0, StartLine(sent))
      /\ \A from \in Nat : \A t \in Texts : Holds(raw_payload, from, t) =>
           Holds(Stream, from, t) /\ from + Len(t) <= Len(raw_payload)
  BY StreamIsLaid DEF Laid
<1>2. PICK a, b : a = Field(sent, 1) /\ b = Field(sent, 2)
  OBVIOUS
<1>3. /\ a \in Texts /\ b \in Texts /\ Len(a) \in Nat /\ Len(b) \in Nat
      /\ a \in InField /\ b \in InField
  BY <1>1, <1>2, FieldsAreTexts, FieldsAreFree
<1>4. PICK n \in Nat, m \in Nat : n = Len(a) /\ m = Len(b)
  BY <1>3
<1>5. BehindFirst(sent) = n + 1 /\ BehindSecond(sent) = n + 1 + m + 1
  BY <1>2, <1>4 DEF BehindFirst, BehindSecond
<1>6. PICK space : space = Space /\ space \in Texts /\ Len(space) = 1 /\ space[1] = " "
  BY Delimiters
<1>7. /\ Holds(raw_payload, 0, a) /\ Holds(raw_payload, n, space)
      /\ Holds(raw_payload, n + 1, b)
  BY <1>1, <1>2, <1>4, <1>5, <1>6, StartLineParts
<1>8. Holds(Stream, 0, a) /\ Holds(Stream, n, space) /\ Holds(Stream, n + 1, b)
  <2>1. 0 \in Nat /\ n \in Nat /\ n + 1 \in Nat
    BY <1>4
  <2>2. \A from \in Nat : \A t \in Texts : Holds(raw_payload, from, t) => Holds(Stream, from, t)
    BY <1>1
  <2> QED
    BY <1>3, <1>6, <1>7, <2>1, <2>2
<1>9. /\ \A j \in 1 .. n : Stream[0 + j] = a[j]
      /\ \A j \in 1 .. 1 : Stream[n + j] = space[j]
      /\ \A j \in 1 .. m : Stream[n + 1 + j] = b[j]
  BY <1>4, <1>6, <1>8 DEF Holds
<1>10. CASE i <= n
  <2>1. i \in 1 .. n /\ 0 + i = i
    BY <1>4, <1>5, <1>10
  <2>2. a[i] # "CR"
    BY <1>3, <1>4, <2>1, InLineIsFree
  <2> QED
    BY <1>9, <2>1, <2>2
<1>11. CASE i = n + 1
  <2>1. Stream[n + 1] = " "
    <3>1. 1 \in 1 .. 1
      OBVIOUS
    <3> QED
      BY <1>6, <1>9, <3>1
  <2> QED
    BY <1>11, <2>1
<1>12. CASE i > n + 1
  <2>1. i - (n + 1) \in 1 .. m /\ n + 1 + (i - (n + 1)) = i
    BY <1>4, <1>5, <1>12
  <2>2. b[i - (n + 1)] # "CR"
    BY <1>3, <1>4, <2>1, InLineIsFree
  <2> QED
    BY <1>9, <2>1, <2>2
<1> QED
  BY <1>4, <1>5, <1>10, <1>11, <1>12

\* The second field does not end early.
LEMMA NotPremature ==
    ASSUME WellFormedMessages, ParserInv, Serialised, StreamKept, pc = "parse",
           Place = BehindFirst(sent), Present(Space)
    PROVE  \A k \in Hits(<<"CR">>, 0) : ~ (k < First(Hits(Space, shift)))
<1>1. SUFFICES ASSUME NEW k \in Hits(<<"CR">>, 0), k < First(Hits(Space, shift)) PROVE FALSE
  OBVIOUS
<1>2. PICK field : field = Field(sent, 2) /\ Ahead(field, Space) /\ Len(field) \in Nat
  BY StartIsAhead
<1>3. First(Hits(Space, shift)) = shift + Len(field)
  BY <1>2, FieldIsFound DEF Ahead
<1>4. First(Hits(Space, shift)) \in Nat /\ First(Hits(Space, shift)) + Len(Space) <= payload_size
  BY HitIsReceived DEF ParserInv
<1>5. Len(Space) = 1
  BY Delimiters
<1>6. PICK S : in_buffer \in Seq(S) /\ Len(in_buffer) \in Nat
  BY LenProperties DEF ParserInv, Terminated
<1>7. PICK cr : cr = "CR"
  OBVIOUS
<1>8. <<cr>> \in Seq({cr}) /\ Len(<<cr>>) = 1 /\ <<cr>>[1] = cr
  BY Pairs
<1>9. k \in 0 .. Len(in_buffer) - 1 /\ SubSeq(in_buffer, k + 1, k + 1) = <<cr>>
  BY <1>7, <1>8 DEF Hits
<1>10. k + 1 \in 1 .. Len(in_buffer) /\ k + 1 \in Int
  BY <1>6, <1>9
<1>11. in_buffer[k + 1] = cr
  <2>1. PICK a \in Int : a = k + 1
    BY <1>10
  <2>2. \A i \in a .. a : in_buffer[i] \in S
    BY <1>6, <1>10, <2>1, ElementOfSeq
  <2>3. \A i \in 1 .. a - a + 1 : SubSeq(in_buffer, a, a)[i] = in_buffer[a + i - 1]
    BY <2>2, SubSeqProperties
  <2>4. 1 \in 1 .. a - a + 1 /\ a + 1 - 1 = a
    BY <2>1
  <2> QED
    BY <1>8, <1>9, <2>1, <2>3, <2>4
<1>12. payload_size \in Nat /\ shift \in Nat /\ Gone \in Int
  BY Sizes
<1>13. 0 <= Gone /\ \A i \in 1 .. payload_size : in_buffer[i] = Stream[Gone + i]
  BY DEF StreamKept, Reading
<1>14. BehindSecond(sent) = Gone + shift + Len(field) + 1
  BY <1>2 DEF BehindSecond, Place
<1>15. k + 1 \in 1 .. payload_size /\ Gone + (k + 1) \in 1 .. BehindSecond(sent) - 1
  BY <1>1, <1>2, <1>3, <1>4, <1>5, <1>9, <1>12, <1>13, <1>14
<1> QED
  BY <1>7, <1>11, <1>13, <1>15, NoReturnBefore

LEMMA StatusOfResponse ==
    ASSUME NEW h, WellFormed(h), ~Request(h)
    PROVE  /\ h.status_code \in 100 .. 599 => atoi(StatusText(h)) = h.status_code
           /\ h.status_code \notin 100 .. 599 => atoi(StatusText(h)) = 0
<1>1. WellFormedStart(h)
  BY DEF WellFormed
<1>2. \A m \in Methods : h.method # <<m>>
  <2>1. \A m \in Methods : m \in Words
    BY SymbolAssumption
  <2> QED
    BY <2>1, WordsAreFields DEF Request
<1>3. /\ h.status_code \in Nat
      /\ h.status_code \in 100 .. 599 => \E s \in DOMAIN Numerals : Numerals[s] = h.status_code
  BY <1>1, <1>2 DEF WellFormedStart
<1> QED
  BY <1>3, StatusIsRead

LEMMA StepBFollows ==
    ASSUME WellFormedMessages, ParserInv, MessageInv, StepB PROVE Follows' /\ Awaits'
<1>1. Turn("B")
  BY DEF StepB
<1>2. CASE starved'
  BY <1>2, StarvedFollows
<1>3. CASE ~starved' /\ ~Present(Space) /\ Wait
  <2>1. starved => starved'
    BY <1>3 DEF Wait
  <2>2. Serialised /\ StreamKept /\ pc = "parse" /\ Place = BehindFirst(sent)
    BY <1>1, <1>3, <2>1, TurnKnows DEF Taken
  <2>3. Ahead(Field(sent, 2), Space)
    BY <2>2, StartIsAhead
  <2>4. Len(wire) > Len(Trailing)
    BY <1>1, <1>3, <2>2, <2>3, AheadIsAwaited
  <2> QED
    BY <1>1, <1>3, <2>4, WaitFollows
<1>4. CASE ~starved' /\ Present(Space)
  <2>1. /\ premature' = (\E k \in Hits(<<"CR">>, 0) : k < First(Hits(Space, shift)))
        /\ LET needle == IF premature' THEN NewLine ELSE Space IN
           \/ ~Present(needle) /\ Goto("B") /\ UNCHANGED <<shift, payload, starved>>
           \/ \E ok \in BOOLEAN : LET b == Block(needle, ok) IN
                /\ Present(needle) /\ Allocated(needle, ok) /\ shift' = b.next
                /\ \/ b.text = <<>> /\ Goto("B") /\ UNCHANGED payload
                   \/ /\ b.text # <<>> /\ Goto(IF premature' THEN "key_value" ELSE "C")
                      /\ payload' = SecondField(b.text)
    BY <1>4 DEF StepB
  <2>2. starved => starved'
    BY <2>1 DEF Allocated
  <2>3. /\ Serialised /\ StreamKept /\ pc = "parse" /\ step = "B" /\ Place = BehindFirst(sent)
        /\ payload = Fields(sent, 1, <<>>, <<>>) /\ WellFormed(sent)
    BY <1>1, <1>4, <2>2, TurnKnows DEF Taken
  <2>4. ~premature'
    BY <1>4, <2>1, <2>3, NotPremature
  <2>5. PICK ok \in BOOLEAN :
          /\ Present(Space) /\ Allocated(Space, ok) /\ shift' = Block(Space, ok).next
          /\ \/ Block(Space, ok).text = <<>> /\ Goto("B") /\ UNCHANGED payload
             \/ /\ Block(Space, ok).text # <<>> /\ Goto("C")
                /\ payload' = SecondField(Block(Space, ok).text)
    BY <1>4, <2>1, <2>4
  <2>6. PICK field : field = Field(sent, 2) /\ Ahead(field, Space) /\ Len(field) \in Nat \ {0}
    BY <2>3, StartIsAhead
  <2>7. Block(Space, ok).text = field /\ Gone + shift' = Place + Len(field) + Len(Space)
    BY <1>1, <1>4, <2>3, <2>5, <2>6, AheadIsTaken
  <2>8. field # <<>>
    BY <2>6, EmptySeq
  <2>9. Goto("C") /\ payload' = SecondField(field)
    BY <2>5, <2>7, <2>8
  <2>10. step' = "C" /\ pc' = "parse"
    BY <2>3, <2>9, GotoElsewhere
  <2>11. Gone + shift' = BehindSecond(sent)
    <3>1. Len(Space) = 1
      BY Delimiters
    <3>2. BehindSecond(sent) = BehindFirst(sent) + Len(field) + 1
      BY <2>6 DEF BehindSecond
    <3> QED
      BY <2>3, <2>6, <2>7, <3>1, <3>2
  <2>12. payload' = Fields(sent, 2, <<>>, <<>>)
    <3>1. CASE Request(sent)
      <4>1. field = sent.path /\ sent.method # <<>>
        BY <2>6, <3>1, StartFieldsAre DEF Request
      <4>2. payload = [method |-> sent.method, path |-> <<>>, version |-> <<>>, status_code |-> 0,
                       status_message |-> <<>>, configuration |-> <<>>, body |-> <<>>]
        BY <2>3, <3>1, FieldsOfRequest
      <4>3. payload' = [payload EXCEPT !.path = field]
        BY <2>9, <4>1, <4>2 DEF SecondField
      <4>4. payload' = [method |-> sent.method, path |-> field, version |-> <<>>, status_code |-> 0,
                        status_message |-> <<>>, configuration |-> <<>>, body |-> <<>>]
        BY <4>2, <4>3
      <4> QED
        BY <3>1, <4>1, <4>4, FieldsOfRequest
    <3>2. CASE ~Request(sent)
      <4>1. field = StatusText(sent)
        BY <2>6, <3>2, StartFieldsAre
      <4>2. payload = [method |-> <<>>, path |-> <<>>, version |-> sent.version, status_code |-> 0,
                       status_message |-> <<>>, configuration |-> <<>>, body |-> <<>>]
        BY <2>3, <3>2, FieldsOfResponse
      <4>3. PICK code : code = IF sent.status_code \in 100 .. 599 THEN sent.status_code ELSE 0
        OBVIOUS
      <4>4. payload' = IF atoi(field) \in 100 .. 599 THEN [payload EXCEPT !.status_code = atoi(field)]
                                                     ELSE payload
        BY <2>9, <4>2 DEF SecondField
      <4>5. payload' = [method |-> <<>>, path |-> <<>>, version |-> sent.version, status_code |-> code,
                        status_message |-> <<>>, configuration |-> <<>>, body |-> <<>>]
        <5>1. CASE sent.status_code \in 100 .. 599
          <6>1. atoi(field) = sent.status_code /\ code = sent.status_code
            BY <2>3, <3>2, <4>1, <4>3, <5>1, StatusOfResponse
          <6>2. payload' = [payload EXCEPT !.status_code = code]
            BY <4>4, <5>1, <6>1
          <6> QED
            BY <4>2, <6>2
        <5>2. CASE sent.status_code \notin 100 .. 599
          <6>1. atoi(field) = 0 /\ code = 0
            BY <2>3, <3>2, <4>1, <4>3, <5>2, StatusOfResponse
          <6> QED
            BY <4>2, <4>4, <6>1
        <5> QED
          BY <5>1, <5>2
      <4>6. Fields(sent, 2, <<>>, <<>>) =
              [method |-> <<>>, path |-> <<>>, version |-> sent.version, status_code |-> code,
               status_message |-> <<>>, configuration |-> <<>>, body |-> <<>>]
        BY <3>2, <4>3, StatusFieldsOfResponse
      <4> QED
        BY <4>5, <4>6
    <3> QED
      BY <3>1, <3>2
  <2>13. Taken(sent, lines, step', Gone + shift', payload')
    BY <2>10, <2>11, <2>12 DEF Taken
  <2>14. Follows'
    BY <1>1, <2>13, TurnFollows
  <2>15. Awaits'
    BY <2>10 DEF Awaits
  <2> QED
    BY <2>14, <2>15
<1> QED
  BY <1>2, <1>3, <1>4 DEF StepB

\* No header is read yet.
LEMMA NoHeaderYet ==
    ASSUME NEW h, NEW written
    PROVE  Headers(h, written, 0) = <<>>
<1>1. {tolower(written[j].key) : j \in 1 .. 0} = {}
  OBVIOUS
<1>2. PICK f : f = Headers(h, written, 0)
  OBVIOUS
<1>3. f \in [1 .. 0 -> {}]
  <2>1. 1 .. 0 = {}
    OBVIOUS
  <2> QED
    BY <1>1, <1>2, <2>1 DEF Headers
<1>4. f \in Seq({})
  BY <1>3, SeqDef
<1>5. Len(f) = 0
  BY <1>3, <1>4, LenProperties
<1> QED
  BY <1>2, <1>4, <1>5, EmptySeq

LEMMA StepCFollows ==
    ASSUME WellFormedMessages, ParserInv, MessageInv, StepC PROVE Follows' /\ Awaits'
<1>1. Turn("C")
  BY DEF StepC
<1>2. CASE starved'
  BY <1>2, StarvedFollows
<1>3. CASE ~starved' /\ ~Present(NewLine) /\ Wait
  <2>1. starved => starved'
    BY <1>3 DEF Wait
  <2>2. Serialised /\ StreamKept /\ pc = "parse" /\ Place = BehindSecond(sent)
    BY <1>1, <1>3, <2>1, TurnKnows DEF Taken
  <2>3. Ahead(Field(sent, 3), NewLine)
    BY <2>2, StartIsAhead
  <2>4. Len(wire) > Len(Trailing)
    BY <1>1, <1>3, <2>2, <2>3, AheadIsAwaited
  <2> QED
    BY <1>1, <1>3, <2>4, WaitFollows
<1>4. ASSUME ~starved', NEW ok \in BOOLEAN, Present(NewLine), Allocated(NewLine, ok),
             shift' = Block(NewLine, ok).next, Goto("key_value"),
             payload' = IF Block(NewLine, ok).text = <<>> THEN payload
                        ELSE IF payload.method # <<>>
                          THEN [payload EXCEPT !.version = Block(NewLine, ok).text]
                          ELSE [payload EXCEPT !.status_message = Block(NewLine, ok).text]
      PROVE  Follows' /\ Awaits'
  <2>1. starved => starved'
    BY <1>4 DEF Allocated
  <2>2. /\ Serialised /\ StreamKept /\ pc = "parse" /\ step = "C" /\ Place = BehindSecond(sent)
        /\ payload = Fields(sent, 2, <<>>, <<>>) /\ WellFormed(sent) /\ Visited(sent, lines, unvisited)
    BY <1>1, <1>4, <2>1, TurnKnows DEF Taken
  <2>3. PICK field : field = Field(sent, 3) /\ Ahead(field, NewLine)
    BY <2>2, StartIsAhead
  <2>4. Block(NewLine, ok).text = field /\ Gone + shift' = Place + Len(field) + Len(NewLine)
    BY <1>1, <1>4, <2>2, <2>3, AheadIsTaken
  <2>5. step' = "key_value" /\ pc' = "parse"
    BY <1>4, <2>2, GotoElsewhere
  <2>6. Gone + shift' = Edge(sent, lines, 0)
    <3>1. Len(NewLine) = 2
      BY Delimiters
    <3>2. Edge(sent, lines, 0) = BehindSecond(sent) + Len(field) + 2
      BY <2>3 DEF BehindStart, Edge
    <3> QED
      BY <2>2, <2>3, <2>4, <3>1, <3>2
  <2>7. payload' = IF field = <<>> THEN payload
                   ELSE IF payload.method # <<>> THEN [payload EXCEPT !.version = field]
                                                 ELSE [payload EXCEPT !.status_message = field]
    BY <1>4, <2>4
  <2>8. payload' = Fields(sent, 3, <<>>, <<>>)
    <3>1. CASE Request(sent)
      <4>1. field = sent.version /\ sent.method # <<>>
        BY <2>3, <3>1, StartFieldsAre DEF Request
      <4>2. payload = [method |-> sent.method, path |-> sent.path, version |-> <<>>, status_code |-> 0,
                       status_message |-> <<>>, configuration |-> <<>>, body |-> <<>>]
        BY <2>2, <3>1, FieldsOfRequest
      <4>3. payload' = [method |-> sent.method, path |-> sent.path, version |-> field, status_code |-> 0,
                        status_message |-> <<>>, configuration |-> <<>>, body |-> <<>>]
        BY <2>7, <4>1, <4>2
      <4> QED
        BY <3>1, <4>1, <4>3, FieldsOfRequest
    <3>2. CASE ~Request(sent)
      <4>1. field = sent.status_message
        BY <2>3, <3>2, StartFieldsAre
      <4>2. PICK code : code = IF sent.status_code \in 100 .. 599 THEN sent.status_code ELSE 0
        OBVIOUS
      <4>3. payload = [method |-> <<>>, path |-> <<>>, version |-> sent.version, status_code |-> code,
                       status_message |-> <<>>, configuration |-> <<>>, body |-> <<>>]
        BY <2>2, <3>2, <4>2, StatusFieldsOfResponse
      <4>4. payload' = [method |-> <<>>, path |-> <<>>, version |-> sent.version, status_code |-> code,
                        status_message |-> field, configuration |-> <<>>, body |-> <<>>]
        BY <2>7, <4>3
      <4>5. Fields(sent, 3, <<>>, <<>>) =
              [method |-> <<>>, path |-> <<>>, version |-> sent.version, status_code |-> code,
               status_message |-> sent.status_message, configuration |-> <<>>, body |-> <<>>]
        BY <3>2, <4>2, StatusFieldsOfResponse
      <4> QED
        BY <4>1, <4>4, <4>5
    <3> QED
      BY <3>1, <3>2
  <2>9. payload' = Fields(sent, 3, Headers(sent, lines, 0), <<>>)
    BY <2>8, NoHeaderYet
  <2>10. 0 \in 0 .. Len(lines)
    BY <2>2, EdgesAreNat
  <2>11. Taken(sent, lines, step', Gone + shift', payload')
    BY <2>5, <2>6, <2>9, <2>10 DEF Taken
  <2>12. Follows'
    BY <1>1, <2>11, TurnFollows
  <2>13. Awaits'
    BY <2>5 DEF Awaits
  <2> QED
    BY <2>12, <2>13
<1> QED
  BY <1>2, <1>3, <1>4 DEF StepC

-----------------------------------------------------------------------------
(* The headers.                                                            *)

LEMMA PartedSizes ==
    ASSUME NEW line, NEW key, NEW value, Parted(line, key, value)
    PROVE  Len(key) \in Nat \ {0} /\ Len(value) \in Nat \ {0}
<1>1. key \in Texts /\ value \in Texts /\ key # <<>> /\ value # <<>>
  BY DEF Parted
<1> QED
  BY <1>1, EmptySeq, LenProperties DEF Texts

LEMMA LineIsFree ==
    ASSUME NEW h, WellFormed(h), NEW key \in DOMAIN h.configuration, NEW i \in 1 .. Len(Line(h, key))
    PROVE  Line(h, key)[i] # NUL /\ Line(h, key)[i] # "CR"
<1>1. PICK line, value : line = Line(h, key) /\ value = h.configuration[key]
  OBVIOUS
<1>20. Parted(line, key, value)
  BY <1>1, LineIsText
<1>2. PICK n \in Nat, m \in Nat : n = Len(key) /\ m = Len(value) /\ 0 < n /\ 0 < m
  BY <1>20, PartedSizes
<1>3. /\ line \in Texts /\ Len(line) = n + 2 + m
      /\ \A j \in 1 .. n : line[j] = key[j]
      /\ \A j \in 1 .. m : line[n + 2 + j] = value[j]
  BY <1>2, <1>20 DEF Parted
<1>13. line[n + 1] = ":" /\ line[n + 2] = " "
  BY <1>2, <1>20 DEF Parted
<1>4. ASSUME NEW j \in 1 .. n PROVE key[j] # NUL /\ key[j] # "CR"
  <2>1. key \in Seq(Symbols \ {NUL, ":", "CR"})
    BY HeadersAreTexts DEF Free
  <2>2. key[j] \in Symbols \ {NUL, ":", "CR"}
    BY <1>2, <2>1, ElementOfSeq
  <2> QED
    BY <2>2
<1>5. \A j \in 1 .. m : value[j] # NUL /\ value[j] # "CR"
  BY <1>1, <1>2, HeadersAreTexts, InLineIsFree
<1>6. ":" # NUL /\ ":" # "CR" /\ " " # NUL /\ " " # "CR"
  BY DEF NUL
<1>7. CASE i <= n
  <2>1. i \in 1 .. n
    BY <1>1, <1>2, <1>3, <1>7
  <2> QED
    BY <1>1, <1>3, <1>4, <2>1
<1>8. CASE i = n + 1
  BY <1>1, <1>13, <1>6, <1>8
<1>9. CASE i = n + 2
  BY <1>1, <1>13, <1>6, <1>9
<1>10. CASE i > n + 2
  <2>1. PICK j \in Int : j = i - (n + 2)
    <3>1. i \in Int /\ n \in Int
      BY <1>1, <1>2, <1>3
    <3> QED
      BY <3>1
  <2>2. j \in 1 .. m /\ n + 2 + j = i
    <3>1. i \in Int /\ n \in Int /\ m \in Int /\ i <= n + 2 + m
      <4>1. i \in 1 .. Len(line) /\ Len(line) = n + 2 + m
        BY <1>1, <1>3
      <4> QED
        BY <1>2, <4>1
    <3> QED
      BY <1>10, <2>1, <3>1
  <2>3. line[i] = value[j]
    BY <1>3, <2>2
  <2> QED
    BY <1>1, <1>5, <2>2, <2>3
<1>11. i <= n \/ i = n + 1 \/ i = n + 2 \/ i > n + 2
  BY <1>2
<1> QED
  BY <1>7, <1>8, <1>9, <1>10, <1>11

\* The key and the value are found in a line.
LEMMA LineIsHeader ==
    ASSUME NEW h, WellFormed(h), NEW key \in DOMAIN h.configuration
    PROVE  /\ IsHeader(Line(h, key)) /\ Line(h, key) # <<>>
           /\ Key(Line(h, key)) = key /\ Value(Line(h, key)) = h.configuration[key]
<1>1. PICK line, value : line = Line(h, key) /\ value = h.configuration[key]
  OBVIOUS
<1>20. Parted(line, key, value)
  BY <1>1, LineIsText
<1>2. PICK n \in Nat, m \in Nat : n = Len(key) /\ m = Len(value) /\ 0 < n /\ 0 < m
  BY <1>20, PartedSizes
<1>3. /\ line \in Texts /\ Len(line) = n + 2 + m
      /\ \A j \in 1 .. n : line[j] = key[j]
      /\ \A j \in 1 .. m : line[n + 2 + j] = value[j]
  BY <1>2, <1>20 DEF Parted
<1>13. line[n + 1] = ":" /\ line[n + 2] = " "
  BY <1>2, <1>20 DEF Parted
<1>4. /\ key \in Texts /\ value \in Texts /\ value[1] \notin Skippable /\ value[m] \notin Skippable
  BY <1>1, <1>2, HeadersAreTexts
<1>5. ASSUME NEW j \in 1 .. n PROVE key[j] # ":"
  <2>1. key \in Seq(Symbols \ {NUL, ":", "CR"})
    BY HeadersAreTexts DEF Free
  <2>2. key[j] \in Symbols \ {NUL, ":", "CR"}
    BY <1>2, <2>1, ElementOfSeq
  <2> QED
    BY <2>2
<1>6. First(Colon(line)) = n + 1 /\ Colon(line) # {}
  <2>1. Colon(line) \in SUBSET Nat
    BY <1>3 DEF Colon
  <2>2. n + 1 \in Colon(line)
    <3>1. n + 1 \in 1 .. Len(line)
      BY <1>2, <1>3
    <3> QED
      BY <1>13, <3>1 DEF Colon
  <2>3. PICK k : k = First(Colon(line))
    OBVIOUS
  <2>4. k \in Colon(line) /\ k <= n + 1
    BY <2>1, <2>2, <2>3, FirstIsLeast
  <2>5. k \in 1 .. Len(line) /\ line[k] = ":"
    BY <2>4 DEF Colon
  <2>6. ~ (k \in 1 .. n)
    BY <1>3, <1>5, <2>5
  <2>7. k = n + 1
    BY <1>2, <1>3, <2>4, <2>5, <2>6
  <2> QED
    BY <2>2, <2>3, <2>7
<1>7. Key(line) = key
  <2>1. Holds(line, 0, key)
    <3>1. \A j \in 1 .. n : 0 + j = j
      BY <1>2
    <3> QED
      BY <1>2, <1>3, <3>1 DEF Holds
  <2>2. SubSeq(line, 0 + 1, 0 + Len(key)) = key
    BY <1>3, <1>4, <2>1, HoldsIsSubSeq DEF Texts
  <2>3. 0 + 1 = 1 /\ 0 + Len(key) = n + 1 - 1
    BY <1>2
  <2>4. Key(line) = SubSeq(line, 1, n + 1 - 1)
    BY <1>6 DEF Key
  <2> QED
    BY <2>2, <2>3, <2>4
<1>8. PICK text : text = SubSeq(line, n + 2, n + 2 + m)
  OBVIOUS
<1>9. /\ text \in Texts /\ Len(text) = m + 1 /\ text[1] = " "
      /\ \A j \in 1 .. m : text[1 + j] = value[j]
  <2>1. PICK a \in Int, b \in Int : a = n + 2 /\ b = n + 2 + m
    BY <1>2
  <2>2. \A j \in a .. b : line[j] \in Symbols
    <3>1. \A j \in a .. b : j \in 1 .. Len(line)
      BY <1>2, <1>3, <2>1
    <3> QED
      BY <1>3, <3>1, ElementOfSeq DEF Texts
  <2>3. /\ text \in Texts /\ Len(text) = IF a <= b THEN b - a + 1 ELSE 0
        /\ \A j \in 1 .. b - a + 1 : text[j] = line[a + j - 1]
    BY <1>8, <2>1, <2>2, SubSeqProperties DEF Texts
  <2>4. a <= b /\ b - a + 1 = m + 1
    BY <1>2, <2>1
  <2>5. Len(text) = m + 1 /\ \A j \in 1 .. m + 1 : text[j] = line[a + j - 1]
    BY <2>3, <2>4
  <2>6. text[1] = " "
    <3>1. 1 \in 1 .. m + 1 /\ a + 1 - 1 = n + 2
      BY <1>2, <2>1
    <3> QED
      BY <1>13, <2>5, <3>1
  <2>7. \A j \in 1 .. m : text[1 + j] = value[j]
    <3>1. \A j \in 1 .. m : 1 + j \in 1 .. m + 1 /\ a + (1 + j) - 1 = n + 2 + j
      BY <1>2, <2>1
    <3> QED
      BY <1>3, <2>5, <3>1
  <2> QED
    BY <2>3, <2>5, <2>6, <2>7
<1>10. Trimmed(text) = value
  <2>1. PICK kept : kept = {i \in 1 .. Len(text) : text[i] \notin Skippable}
    OBVIOUS
  <2>2. 1 \notin kept
    BY <1>9, <2>1 DEF Skippable
  <2>3. 2 \in kept
    <3>1. 1 \in 1 .. m /\ 1 + 1 = 2 /\ 2 \in 1 .. m + 1
      BY <1>2
    <3> QED
      BY <1>4, <1>9, <2>1, <3>1
  <2>4. m + 1 \in kept
    <3>1. m \in 1 .. m /\ 1 + m = m + 1 /\ m + 1 \in 1 .. m + 1
      BY <1>2
    <3> QED
      BY <1>4, <1>9, <2>1, <3>1
  <2>5. \A i \in kept : i \in Nat /\ 2 <= i /\ i <= m + 1
    <3>1. \A i \in kept : i \in 1 .. m + 1 /\ i # 1
      BY <1>9, <2>1, <2>2
    <3> QED
      BY <1>2, <3>1
  <2>6. First(kept) = 2
    <3>1. kept \in SUBSET Nat
      BY <2>5
    <3>2. First(kept) \in kept /\ First(kept) <= 2
      BY <2>3, <3>1, FirstIsLeast
    <3> QED
      BY <2>5, <3>2
  <2>7. (CHOOSE i \in kept : \A j \in kept : j <= i) = m + 1
    <3>1. PICK k : k = CHOOSE i \in kept : \A j \in kept : j <= i
      OBVIOUS
    <3>2. k \in kept /\ \A j \in kept : j <= k
      BY <2>4, <2>5, <3>1
    <3>3. k \in Nat /\ k <= m + 1 /\ m + 1 <= k
      BY <2>4, <2>5, <3>2
    <3>4. k = m + 1
      BY <1>2, <3>3
    <3> QED
      BY <3>1, <3>4
  <2>8. Trimmed(text) = SubSeq(text, 2, m + 1)
    BY <2>1, <2>3, <2>6, <2>7 DEF Trimmed
  <2>9. Holds(text, 1, value)
    <3>1. 1 + Len(value) <= Len(text)
      <4>1. Len(value) = m /\ Len(text) = m + 1
        BY <1>2, <1>9
      <4> QED
        BY <1>2, <4>1
    <3>2. \A j \in 1 .. Len(value) : text[1 + j] = value[j]
      BY <1>2, <1>9, Zenon
    <3> QED
      BY <3>1, <3>2, Zenon DEF Holds
  <2>10. SubSeq(text, 1 + 1, 1 + Len(value)) = value
    BY <1>4, <1>9, <2>9, HoldsIsSubSeq DEF Texts
  <2>11. 1 + 1 = 2 /\ 1 + Len(value) = m + 1
    BY <1>2
  <2> QED
    BY <2>8, <2>10, <2>11
<1>11. Value(line) = value
  <2>1. n + 1 + 1 = n + 2 /\ Len(line) = n + 2 + m
    BY <1>2, <1>3
  <2>2. Value(line) = Trimmed(SubSeq(line, n + 1 + 1, Len(line)))
    BY <1>6 DEF Value
  <2> QED
    BY <1>8, <1>10, <2>1, <2>2
<1>12. key # <<>> /\ value # <<>> /\ line # <<>>
  <2>1. Len(line) # 0 /\ Len(key) # 0 /\ Len(value) # 0
    BY <1>2, <1>3
  <2> QED
    BY <2>1, EmptySeq
<1> QED
  BY <1>1, <1>6, <1>7, <1>11, <1>12 DEF IsHeader

\* The next header line is ahead.
LEMMA HeaderIsAhead ==
    ASSUME WellFormedMessages, ParserInv, Serialised, StreamKept, pc = "parse",
           NEW i \in 0 .. Len(lines), i < Len(lines), Place = Edge(sent, lines, i),
           NEW key, key = lines[i + 1].key
    PROVE  /\ i + 1 \in 0 .. Len(lines) /\ key \in DOMAIN sent.configuration
           /\ Ahead(Line(sent, key), NewLine)
           /\ Edge(sent, lines, i + 1) = Place + Len(Line(sent, key)) + 2
<1>1. /\ WellFormed(sent) /\ Visited(sent, lines, unvisited)
      /\ raw_payload \in Texts
      /\ \A from \in Nat : \A t \in Texts : Holds(raw_payload, from, t) =>
           Holds(Stream, from, t) /\ from + Len(t) <= Len(raw_payload)
  BY StreamIsLaid
<1>2. \A j \in 1 .. Len(lines) :
         /\ lines[j].from = Edge(sent, lines, j - 1)
         /\ Holds(raw_payload, lines[j].from, HeaderLine(sent, lines[j].key))
  BY StreamIsLaid DEF Laid
<1>3. /\ Len(lines) \in Nat
      /\ \A j \in 1 .. Len(lines) : /\ lines[j].key \in DOMAIN sent.configuration
                                    /\ lines[j].from \in Nat
  BY <1>1, EdgesAreNat
<1>4. PICK n \in Nat : n = i + 1 /\ n \in 1 .. Len(lines) /\ n - 1 = i /\ n # 0
  BY <1>3
<1>5. PICK from \in Nat : from = lines[n].from /\ from = Place
  BY <1>2, <1>3, <1>4
<1>6. key \in DOMAIN sent.configuration
  BY <1>3, <1>4
<1>7. Holds(raw_payload, from, HeaderLine(sent, key))
  BY <1>2, <1>4, <1>5
<1>8. PICK line \in Texts : line = Line(sent, key) /\ LineLen(sent, key) = Len(line) + 2
  BY <1>1, <1>6, LineIsText
<1>9. PICK end \in Texts : end = NewLine /\ Len(end) = 2 /\ end[1] = "CR"
  BY Delimiters
<1>10. Len(line) \in Nat
  BY LenProperties DEF Texts
<1>11. Holds(raw_payload, from, line) /\ Holds(raw_payload, from + Len(line), end)
  BY <1>1, <1>6, <1>7, <1>8, <1>9, HeaderLineParts
<1>12. /\ Holds(Stream, from, line) /\ Holds(Stream, from + Len(line), end)
       /\ from + Len(line) + Len(end) <= Len(raw_payload)
  <2>1. from + Len(line) \in Nat
    BY <1>10
  <2> QED
    BY <1>1, <1>11, <2>1
<1>13. \A j \in 1 .. Len(line) : line[j] # NUL /\ line[j] # "CR"
  BY <1>1, <1>6, <1>8, LineIsFree
<1>14. Ahead(line, end)
  BY <1>5, <1>9, <1>12, <1>13 DEF Ahead
<1>15. Edge(sent, lines, n) = from + (Len(line) + 2)
  BY <1>4, <1>5, <1>8 DEF Edge
<1>16. Edge(sent, lines, i + 1) = Place + Len(line) + 2
  BY <1>4, <1>5, <1>10, <1>15
<1>17. i + 1 \in 0 .. Len(lines)
  BY <1>3, <1>4
<1> QED
  BY <1>6, <1>8, <1>9, <1>14, <1>16, <1>17

\* The empty line is ahead.
LEMMA EmptyLineIsAhead ==
    ASSUME WellFormedMessages, ParserInv, Serialised, StreamKept, pc = "parse",
           Place = LastEdge(sent, lines)
    PROVE  Ahead(<<>>, NewLine)
<1>1. /\ WellFormed(sent) /\ Visited(sent, lines, unvisited)
      /\ Holds(raw_payload, LastEdge(sent, lines), NewLine)
      /\ raw_payload \in Texts /\ Stream \in Texts
      /\ \A from \in Nat : \A t \in Texts : Holds(raw_payload, from, t) =>
           Holds(Stream, from, t) /\ from + Len(t) <= Len(raw_payload)
  BY StreamIsLaid DEF Ended
<1>2. PICK from \in Nat : from = Place
  BY <1>1, EdgesAreNat
<1>3. PICK end \in Texts : end = NewLine /\ Len(end) = 2
  BY Delimiters
<1>4. PICK none \in Texts : none = <<>> /\ Len(none) = 0
  BY Delimiters
<1>5. Holds(Stream, from, end) /\ from + Len(end) <= Len(raw_payload)
  BY <1>1, <1>2, <1>3
<1>6. from + Len(none) = from
  BY <1>4
<1>7. from <= Len(Stream)
  <2>1. Len(Stream) \in Nat /\ from + Len(end) <= Len(Stream)
    BY <1>1, <1>5, LenProperties DEF Texts, Holds
  <2> QED
    BY <1>3, <2>1
<1>8. Holds(Stream, from, none)
  BY <1>4, <1>6, <1>7 DEF Holds
<1>9. Ahead(none, end)
  BY <1>2, <1>4, <1>5, <1>6, <1>8 DEF Ahead
<1> QED
  BY <1>3, <1>4, <1>9

\* The value that is found under a key in lower case is its own.
LEMMA KeyedByOne ==
    ASSUME NEW h, WellFormed(h), NEW key \in DOMAIN h.configuration
    PROVE  Keyed(h, tolower(key)) = h.configuration[key]
<1>1. \A k \in DOMAIN h.configuration : tolower(k) = tolower(key) => k = key
  BY DEF WellFormed, WellFormedHeaders
<1>2. PICK lower : lower = tolower(key)
  OBVIOUS
<1>3. (CHOOSE k \in DOMAIN h.configuration : tolower(k) = lower) = key
  BY <1>1, <1>2
<1> QED
  BY <1>2, <1>3 DEF Keyed

LEMMA OneMoreHeader ==
    ASSUME NEW h, WellFormed(h), NEW written, NEW rest, Visited(h, written, rest),
           NEW i \in 0 .. Len(written), i < Len(written), NEW key, key = written[i + 1].key
    PROVE  With(Headers(h, written, i), tolower(key), h.configuration[key]) = Headers(h, written, i + 1)
<1>1. /\ Len(written) \in Nat
      /\ \A j \in 1 .. Len(written) : written[j].key \in DOMAIN h.configuration
  BY EdgesAreNat
<1>2. i + 1 \in 1 .. Len(written) /\ 1 .. i + 1 = 1 .. i \cup {i + 1}
  BY <1>1
<1>3. key \in DOMAIN h.configuration
  BY <1>1, <1>2
<1>4. Keyed(h, tolower(key)) = h.configuration[key]
  BY <1>3, KeyedByOne
<1>5. PICK before : before = {tolower(written[j].key) : j \in 1 .. i}
  OBVIOUS
<1>6. {tolower(written[j].key) : j \in 1 .. i + 1} = before \cup {tolower(key)}
  BY <1>2, <1>5
<1>7. PICK lower : lower = tolower(key)
  OBVIOUS
<1>8. Headers(h, written, i) = [k \in before |-> Keyed(h, k)]
  BY <1>5 DEF Headers
<1>9. Headers(h, written, i + 1) = [k \in before \cup {lower} |-> Keyed(h, k)]
  BY <1>6, <1>7 DEF Headers
<1>10. With([k \in before |-> Keyed(h, k)], lower, Keyed(h, lower))
          = [k \in before \cup {lower} |-> Keyed(h, k)]
  BY DEF With
<1> QED
  BY <1>4, <1>7, <1>8, <1>9, <1>10

\* The fields of the start line stay as the headers, and then the body, are added.
LEMMA FieldsGrow ==
    ASSUME NEW h, NEW n, NEW headers, NEW body, NEW other
    PROVE  /\ [Fields(h, n, headers, body) EXCEPT !.configuration = other] = Fields(h, n, other, body)
           /\ [Fields(h, n, headers, body) EXCEPT !.body = other] = Fields(h, n, headers, other)
           /\ Fields(h, n, headers, body).configuration = headers
           /\ Fields(h, n, headers, body).body = body
<1>1. PICK m, p, v, c, t : \A hs, b : Fields(h, n, hs, b) =
        [method |-> m, path |-> p, version |-> v, status_code |-> c, status_message |-> t,
         configuration |-> hs, body |-> b]
  BY ZenonT(60) DEF Fields
<1>2. [Fields(h, n, headers, body) EXCEPT !.configuration = other] = Fields(h, n, other, body)
  BY <1>1
<1>3. [Fields(h, n, headers, body) EXCEPT !.body = other] = Fields(h, n, headers, other)
  BY <1>1
<1>4. Fields(h, n, headers, body).configuration = headers /\ Fields(h, n, headers, body).body = body
  BY <1>1
<1> QED
  BY <1>2, <1>3, <1>4

\* Where the parser is between the headers.
LEMMA HeadersKnow ==
    ASSUME WellFormedMessages, ParserInv, MessageInv, NEW s \in {"key_value", "key_value_again"},
           Turn(s), ~starved', starved => starved'
    PROVE  /\ Serialised /\ StreamKept /\ pc = "parse" /\ step = s
           /\ WellFormed(sent) /\ Visited(sent, lines, unvisited) /\ Len(lines) \in Nat
           /\ \E i \in 0 .. Len(lines) :
                Place = Edge(sent, lines, i) /\ payload = Fields(sent, 3, Headers(sent, lines, i), <<>>)
<1>1. /\ pc = "parse" /\ step = s /\ Serialised /\ StreamKept
      /\ Taken(sent, lines, s, Place, payload)
      /\ WellFormed(sent) /\ Visited(sent, lines, unvisited)
  BY TurnKnows
<1>2. \E i \in 0 .. Len(lines) :
        Place = Edge(sent, lines, i) /\ payload = Fields(sent, 3, Headers(sent, lines, i), <<>>)
  BY <1>1 DEF Taken
<1> QED
  BY <1>1, <1>2, EdgesAreNat

LEMMA LinesAreAwaited ==
    ASSUME WellFormedMessages, ParserInv, Serialised, StreamKept, pc = "parse",
           Turn("key_value"), ~Present(NewLine), Len(lines) \in Nat,
           NEW i \in 0 .. Len(lines), Place = Edge(sent, lines, i)
    PROVE  Len(wire) > Len(Trailing)
<1>1. CASE i < Len(lines)
  <2>1. PICK key : key = lines[i + 1].key
    OBVIOUS
  <2>2. Ahead(Line(sent, key), NewLine)
    BY <1>1, <2>1, HeaderIsAhead
  <2> QED
    BY <2>2, AheadIsAwaited
<1>2. CASE i = Len(lines)
  <2>1. Place = LastEdge(sent, lines)
    BY <1>2 DEF LastEdge
  <2>2. Ahead(<<>>, NewLine)
    BY <2>1, EmptyLineIsAhead
  <2> QED
    BY <2>2, AheadIsAwaited
<1> QED
  BY <1>1, <1>2

\* The empty line is no header.
LEMMA NoHeaderInNothing == ~IsHeader(<<>>)
<1>1. PICK none : none = <<>> /\ Len(none) = 0
  BY Delimiters
<1>2. Colon(none) = {}
  BY <1>1 DEF Colon
<1> QED
  BY <1>1, <1>2 DEF IsHeader

LEMMA StepKeyValueFollows ==
    ASSUME WellFormedMessages, ParserInv, MessageInv, StepKeyValue PROVE Follows' /\ Awaits'
<1>1. Turn("key_value")
  BY DEF StepKeyValue
<1>2. CASE starved'
  BY <1>2, StarvedFollows
<1>3. CASE ~starved' /\ ~Present(NewLine) /\ Wait
  <2>1. starved => starved'
    BY <1>3 DEF Wait
  <2>2. /\ Serialised /\ StreamKept /\ pc = "parse" /\ Len(lines) \in Nat
        /\ \E i \in 0 .. Len(lines) : Place = Edge(sent, lines, i)
    BY <1>1, <1>3, <2>1, HeadersKnow
  <2>3. Len(wire) > Len(Trailing)
    BY <1>1, <1>3, <2>2, LinesAreAwaited
  <2> QED
    BY <1>1, <1>3, <2>3, WaitFollows
<1>4. ASSUME ~starved', NEW ok \in BOOLEAN, Present(NewLine), Allocated(NewLine, ok),
             shift' = Block(NewLine, ok).next, NEW text, text = Block(NewLine, ok).text,
             \/ text = <<>> /\ Goto("payload") /\ UNCHANGED payload
             \/ /\ IsHeader(text) /\ Goto("key_value_again")
                /\ payload' = [payload EXCEPT !.configuration = With(@, tolower(Key(text)), Value(text))]
             \/ text # <<>> /\ ~IsHeader(text) /\ Goto("key_value") /\ UNCHANGED payload
      PROVE  Follows' /\ Awaits'
  <2>1. starved => starved'
    BY <1>4 DEF Allocated
  <2>2. /\ Serialised /\ StreamKept /\ pc = "parse" /\ step = "key_value"
        /\ WellFormed(sent) /\ Visited(sent, lines, unvisited) /\ Len(lines) \in Nat
    BY <1>1, <1>4, <2>1, HeadersKnow
  <2>3. PICK i \in 0 .. Len(lines) :
          Place = Edge(sent, lines, i) /\ payload = Fields(sent, 3, Headers(sent, lines, i), <<>>)
    BY <1>1, <1>4, <2>1, HeadersKnow
  <2>4. Len(NewLine) = 2
    BY Delimiters
  <2>5. CASE i < Len(lines)
    <3>1. PICK key : key = lines[i + 1].key
      OBVIOUS
    <3>2. /\ i + 1 \in 0 .. Len(lines) /\ key \in DOMAIN sent.configuration
          /\ Ahead(Line(sent, key), NewLine)
          /\ Edge(sent, lines, i + 1) = Place + Len(Line(sent, key)) + 2
      BY <2>2, <2>3, <2>5, <3>1, HeaderIsAhead
    <3>3. PICK line : line = Line(sent, key)
      OBVIOUS
    <3>4. text = line /\ Gone + shift' = Place + Len(line) + Len(NewLine)
      BY <1>1, <1>4, <2>2, <3>2, <3>3, AheadIsTaken
    <3>5. IsHeader(line) /\ line # <<>> /\ Key(line) = key /\ Value(line) = sent.configuration[key]
      BY <2>2, <3>2, <3>3, LineIsHeader
    <3>6. /\ Goto("key_value_again")
          /\ payload' = [payload EXCEPT !.configuration = With(@, tolower(key), sent.configuration[key])]
      BY <1>4, <3>4, <3>5
    <3>7. step' = "key_value_again" /\ pc' = "parse"
      BY <2>2, <3>6, GotoElsewhere
    <3>8. With(Headers(sent, lines, i), tolower(key), sent.configuration[key])
            = Headers(sent, lines, i + 1)
      BY <2>2, <2>5, <3>1, OneMoreHeader
    <3>9. payload' = Fields(sent, 3, Headers(sent, lines, i + 1), <<>>)
      BY <2>3, <3>6, <3>8, FieldsGrow
    <3>10. Gone + shift' = Edge(sent, lines, i + 1)
      BY <2>4, <3>2, <3>3, <3>4
    <3>11. Taken(sent, lines, step', Gone + shift', payload')
      BY <3>2, <3>7, <3>9, <3>10 DEF Taken
    <3>12. Follows'
      BY <1>1, <3>11, TurnFollows
    <3> QED
      BY <3>7, <3>12 DEF Awaits
  <2>6. CASE i = Len(lines)
    <3>1. Place = LastEdge(sent, lines)
      BY <2>3, <2>6 DEF LastEdge
    <3>2. PICK none : none = <<>> /\ Len(none) = 0
      BY Delimiters
    <3>3. Ahead(none, NewLine)
      BY <2>2, <3>1, <3>2, EmptyLineIsAhead
    <3>4. text = none /\ Gone + shift' = Place + Len(none) + Len(NewLine)
      BY <1>1, <1>4, <2>2, <3>3, AheadIsTaken
    <3>5. Goto("payload") /\ UNCHANGED payload
      BY <1>4, <3>2, <3>4, NoHeaderInNothing
    <3>6. step' = "payload" /\ pc' = "parse"
      BY <2>2, <3>5, GotoElsewhere
    <3>7. Gone + shift' = LastEdge(sent, lines) + 2
      <4>1. LastEdge(sent, lines) \in Nat
        BY <2>2, EdgesAreNat
      <4> QED
        BY <2>4, <3>1, <3>2, <3>4, <4>1
    <3>8. payload' = Fields(sent, 3, Headers(sent, lines, Len(lines)), <<>>)
      BY <2>3, <2>6, <3>5
    <3>9. Taken(sent, lines, step', Gone + shift', payload')
      BY <3>6, <3>7, <3>8 DEF Taken
    <3>10. Follows'
      BY <1>1, <3>9, TurnFollows
    <3> QED
      BY <3>6, <3>10 DEF Awaits
  <2> QED
    BY <2>2, <2>5, <2>6
<1> QED
  BY <1>2, <1>3, <1>4 DEF StepKeyValue

LEMMA StepKeyValueAgainFollows ==
    ASSUME WellFormedMessages, ParserInv, MessageInv, StepKeyValueAgain PROVE Follows' /\ Awaits'
<1>1. /\ Turn("key_value_again") /\ Goto("key_value")
      /\ UNCHANGED <<shift, payload>> /\ starved' = starved
  BY DEF StepKeyValueAgain
<1>2. CASE starved'
  BY <1>2, StarvedFollows
<1>3. CASE ~starved'
  <2>1. /\ pc = "parse" /\ step = "key_value_again"
        /\ \E i \in 0 .. Len(lines) :
             Place = Edge(sent, lines, i) /\ payload = Fields(sent, 3, Headers(sent, lines, i), <<>>)
    BY <1>1, <1>3, HeadersKnow
  <2>2. step' = "key_value" /\ pc' = "parse"
    BY <1>1, <2>1, GotoElsewhere
  <2>3. Gone + shift' = Place
    BY <1>1 DEF Place
  <2>4. Taken(sent, lines, step', Gone + shift', payload')
    BY <1>1, <2>1, <2>2, <2>3 DEF Taken
  <2>5. Follows'
    BY <1>1, <2>4, TurnFollows
  <2> QED
    BY <2>2, <2>5 DEF Awaits
<1> QED
  BY <1>2, <1>3

-----------------------------------------------------------------------------
(* The body.                                                               *)

\* The headers of a message, as they are to be read.
Lowered(h) == [lower \in {tolower(k) : k \in DOMAIN h.configuration} |-> Keyed(h, lower)]

LEMMA HeadersAreAll ==
    ASSUME NEW h, WellFormed(h), NEW written, NEW rest, Visited(h, written, rest),
           Complete(h, written, {})
    PROVE  Headers(h, written, Len(written)) = Lowered(h)
<1>1. \A j \in 1 .. Len(written) : written[j].key \in DOMAIN h.configuration
  BY EdgesAreNat
<1>2. \A k \in DOMAIN h.configuration : \E j \in 1 .. Len(written) : written[j].key = k
  BY DEF Complete
<1>3. {tolower(written[j].key) : j \in 1 .. Len(written)} = {tolower(k) : k \in DOMAIN h.configuration}
  BY <1>1, <1>2
<1> QED
  BY <1>3 DEF Headers, Lowered

\* The length of the body is announced under a key that is in lower case.
LEMMA LengthIsLower == tolower(<<"content-length">>) = <<"content-length">>
<1>1. PICK word : word = "content-length" /\ word \notin DOMAIN Lowercase
  BY SymbolAssumption
<1>2. PICK text : text = <<word>> /\ Len(text) = 1 /\ text[1] = word
  <2>1. word \in {word}
    OBVIOUS
  <2> QED
    BY <2>1, Pairs
<1>3. text = [i \in 1 .. 1 |-> word]
  BY <1>2
<1>4. tolower(text) = [i \in 1 .. 1 |-> word]
  <2>1. \A i \in 1 .. 1 : text[i] = word
    BY <1>2
  <2> QED
    BY <1>1, <1>2, <2>1 DEF tolower
<1> QED
  BY <1>1, <1>2, <1>3, <1>4

LEMMA AnnouncedIsRead ==
    ASSUME NEW h, WellFormed(h), NEW p, p.configuration = Lowered(h)
    PROVE  Announced(p) = Announced(h)
<1>1. PICK length : length = <<"content-length">> /\ tolower(length) = length
  BY LengthIsLower
<1>2. \A key \in DOMAIN h.configuration : tolower(length) = tolower(key) => length = key
  BY <1>1 DEF WellFormed, WellFormedHeaders
<1>3. length \in DOMAIN Lowered(h) <=> length \in DOMAIN h.configuration
  BY <1>1, <1>2 DEF Lowered
<1>4. ASSUME length \in DOMAIN h.configuration
      PROVE  Lowered(h)[length] = h.configuration[length]
  <2>1. Keyed(h, tolower(length)) = h.configuration[length]
    BY <1>4, KeyedByOne
  <2>2. Lowered(h)[length] = Keyed(h, length)
    BY <1>3, <1>4 DEF Lowered
  <2> QED
    BY <1>1, <2>1, <2>2
<1>5. Announced(p) = IF length \in DOMAIN Lowered(h) THEN atoi(Lowered(h)[length]) ELSE 0
  BY <1>1 DEF Announced
<1>6. Announced(h) = IF length \in DOMAIN h.configuration THEN atoi(h.configuration[length]) ELSE 0
  BY <1>1 DEF Announced
<1> QED
  BY <1>3, <1>4, <1>5, <1>6

\* A body that holds no terminator is copied as it is.
LEMMA BodyIsCopied == ASSUME NEW t \in Free({NUL}) PROVE Copied(t) = t
<1>1. t \in Seq(Symbols \ {NUL})
  BY DEF Free
<1>2. \A i \in 1 .. Len(t) : t[i] # NUL
  BY <1>1, ElementOfSeq
<1>3. Copied(t) = [i \in 1 .. Len(t) |-> t[i]]
  BY <1>2, LenProperties, <1>1 DEF Copied
<1>4. t = [i \in 1 .. Len(t) |-> t[i]]
  BY <1>1, LenProperties
<1> QED
  BY <1>3, <1>4

\* What is known of the body when its turn comes.
LEMMA BodyIsAhead ==
    ASSUME WellFormedMessages, ParserInv, MessageInv, Turn("payload"), ~starved', starved => starved',
           NEW n, n = Len(sent.body)
    PROVE  /\ Serialised /\ StreamKept /\ pc = "parse" /\ step = "payload"
           /\ WellFormed(sent) /\ n \in Nat /\ Announced(payload) = n
           /\ payload = Fields(sent, 3, Headers(sent, lines, Len(lines)), <<>>)
           /\ LastEdge(sent, lines) \in Nat /\ Place = LastEdge(sent, lines) + 2
           /\ Len(raw_payload) = Place + n /\ Holds(Stream, Place, sent.body)
<1>1. /\ pc = "parse" /\ ~starved /\ step = "payload" /\ Serialised /\ StreamKept
      /\ Taken(sent, lines, "payload", Place, payload)
      /\ WellFormed(sent) /\ Visited(sent, lines, unvisited)
  BY TurnKnows
<1>2. /\ payload = Fields(sent, 3, Headers(sent, lines, Len(lines)), <<>>)
      /\ Place = LastEdge(sent, lines) + 2
  BY <1>1 DEF Taken
<1>3. /\ Complete(sent, lines, {})
      /\ Holds(raw_payload, LastEdge(sent, lines) + 2, sent.body)
      /\ Len(raw_payload) = LastEdge(sent, lines) + 2 + Len(sent.body)
      /\ \A from \in Nat : \A t \in Texts : Holds(raw_payload, from, t) => Holds(Stream, from, t)
  BY <1>1, StreamIsLaid DEF Ended
<1>4. LastEdge(sent, lines) \in Nat
  BY <1>1, EdgesAreNat
<1>5. sent.body \in Texts /\ n \in Nat /\ n = Announced(sent)
  BY <1>1, BodyIsText
<1>6. payload.configuration = Lowered(sent)
  <2>1. Headers(sent, lines, Len(lines)) = Lowered(sent)
    BY <1>1, <1>3, HeadersAreAll
  <2> QED
    BY <1>2, <2>1, FieldsGrow
<1>7. Announced(payload) = n
  BY <1>1, <1>5, <1>6, AnnouncedIsRead
<1>8. Place \in Nat /\ Holds(raw_payload, Place, sent.body) /\ Len(raw_payload) = Place + n
  BY <1>2, <1>3, <1>4
<1>9. Holds(Stream, Place, sent.body)
  BY <1>3, <1>5, <1>8
<1> QED
  BY <1>1, <1>2, <1>4, <1>5, <1>7, <1>8, <1>9

LEMMA StepPayloadFollows ==
    ASSUME WellFormedMessages, ParserInv, MessageInv, StepPayload PROVE Follows' /\ Awaits'
<1>1. Turn("payload")
  BY DEF StepPayload
<1>2. CASE starved'
  BY <1>2, StarvedFollows
<1>3. CASE ~starved' /\ starved' = starved
  <2>1. PICK n : n = Len(sent.body)
    OBVIOUS
  <2>2. /\ Serialised /\ StreamKept /\ pc = "parse" /\ step = "payload"
        /\ WellFormed(sent) /\ n \in Nat /\ Announced(payload) = n
        /\ payload = Fields(sent, 3, Headers(sent, lines, Len(lines)), <<>>)
        /\ LastEdge(sent, lines) \in Nat /\ Place = LastEdge(sent, lines) + 2
        /\ Len(raw_payload) = Place + n /\ Holds(Stream, Place, sent.body)
    BY <1>1, <1>3, <2>1, BodyIsAhead
  <2>3. /\ Len(raw_payload) \in Nat /\ Len(Trailing) \in Nat /\ Len(wire) \in Nat
        /\ payload_size \in Nat /\ shift \in Nat /\ Gone \in Int /\ Stream \in Texts
    BY <2>2, Sizes
  <2>4. Place = Gone + shift /\ Gone = Len(raw_payload) + Len(Trailing) - Len(wire) - payload_size
    BY DEF Place, Gone
  <2>8. /\ n \in Nat /\ Len(raw_payload) = LastEdge(sent, lines) + 2 + n
        /\ LastEdge(sent, lines) \in Nat /\ Gone + shift = LastEdge(sent, lines) + 2
    BY <2>2, <2>4
  <2>5. CASE n = 0 /\ Goto("completed") /\ UNCHANGED <<shift, payload>>
    <3>1. sent.body = <<>>
      <4>1. sent.body \in Seq(Symbols)
        BY <2>2, BodyIsText DEF Texts
      <4> QED
        BY <2>1, <2>5, <4>1, EmptySeq
    <3>2. step' = "completed"
      BY <2>5 DEF Goto
    <3>3. Gone + shift' = LastEdge(sent, lines) + 2 + Len(sent.body)
      BY <2>1, <2>2, <2>4, <2>5
    <3>4. payload' = Fields(sent, 3, Headers(sent, lines, Len(lines)), sent.body)
      BY <2>2, <2>5, <3>1
    <3>5. Taken(sent, lines, step', Gone + shift', payload')
      BY <3>2, <3>3, <3>4 DEF Taken
    <3>6. Follows'
      BY <1>1, <3>5, TurnFollows
    <3> QED
      BY <3>2, <3>6 DEF Awaits
  <2>6. CASE n > payload_size - shift /\ Goto("payload") /\ UNCHANGED <<shift, payload>>
    <3>1. Len(wire) > Len(Trailing)
      <4>1. n > payload_size - shift
        BY <2>6
      <4>2. PICK a \in Nat, b \in Nat, c \in Nat, d \in Nat, e \in Nat, g \in Int :
              /\ a = Len(raw_payload) /\ b = Len(Trailing) /\ c = Len(wire)
              /\ d = payload_size /\ e = shift /\ g = Gone
        BY <2>3
      <4>3. n > d - e /\ g = a + b - c - d /\ a = g + e + n
        <5>1. n > d - e
          BY <4>1, <4>2
        <5>2. g = a + b - c - d
          BY <2>4, <4>2
        <5>3. a = g + e + n
          BY <2>8, <4>2
        <5> QED
          BY <5>1, <5>2, <5>3
      <4>4. n \in Nat
        BY <2>8
      <4>5. c = b + n + e - d
        BY <4>2, <4>3, <4>4
      <4>6. c > b
        BY <4>2, <4>3, <4>4, <4>5
      <4> QED
        BY <4>2, <4>6
    <3>2. step' = "payload"
      BY <2>6 DEF Goto
    <3>3. Gone + shift' = LastEdge(sent, lines) + 2
      BY <2>2, <2>4, <2>6
    <3>4. Taken(sent, lines, step', Gone + shift', payload')
      BY <2>2, <2>6, <3>2, <3>3 DEF Taken
    <3>5. Follows'
      BY <1>1, <3>4, TurnFollows
    <3>6. wire' = wire
      BY <1>1 DEF Turn
    <3> QED
      BY <3>1, <3>5, <3>6 DEF Awaits
  <2>7. CASE /\ n \in 1 .. payload_size - shift /\ shift' = shift + n /\ Goto("completed")
             /\ payload' = [payload EXCEPT !.body = Copied(SubSeq(in_buffer, shift + 1, shift + n))]
    <3>1. PICK body : body = sent.body
      OBVIOUS
    <3>2. body \in Free({NUL}) /\ body \in Texts /\ Len(body) = n
      BY <2>1, <2>2, <3>1, BodyIsText
    <3>3. /\ payload_size <= Len(in_buffer) /\ Len(in_buffer) \in Nat
          /\ \A i \in 1 .. payload_size : in_buffer[i] = Stream[Gone + i]
      <4>1. \A i \in 1 .. payload_size : in_buffer[i] = Stream[Gone + i]
        BY <2>2 DEF StreamKept, Reading
      <4>2. payload_size <= Len(in_buffer) /\ Len(in_buffer) \in Nat
        BY LenProperties DEF ParserInv, Terminated
      <4> QED
        BY <4>1, <4>2
    <3>4. Holds(in_buffer, shift, body)
      <4>1. shift + Len(body) <= Len(in_buffer)
        BY <2>3, <2>7, <3>2, <3>3
      <4>2. \A i \in 1 .. n : /\ shift + i \in 1 .. payload_size
                              /\ Gone + (shift + i) = Place + i
        BY <2>3, <2>4, <2>7, SMTT(20)
      <4>3. \A i \in 1 .. n : Stream[Place + i] = body[i]
        BY <2>2, <3>1, <3>2 DEF Holds
      <4>4. \A i \in 1 .. n : in_buffer[shift + i] = body[i]
        BY <3>3, <4>2, <4>3
      <4> QED
        BY <3>2, <4>1, <4>4 DEF Holds
    <3>5. SubSeq(in_buffer, shift + 1, shift + Len(body)) = body
      <4>1. PICK S : in_buffer \in Seq(S)
        BY DEF ParserInv, Terminated
      <4>2. body \in Seq(Symbols)
        BY <3>2 DEF Texts
      <4> QED
        BY <2>3, <3>4, <4>1, <4>2, HoldsIsSubSeq
    <3>6. Copied(body) = body
      BY <3>2, BodyIsCopied
    <3>7. payload' = [payload EXCEPT !.body = body]
      BY <2>7, <3>2, <3>5, <3>6
    <3>8. payload' = Fields(sent, 3, Headers(sent, lines, Len(lines)), body)
      BY <2>2, <3>7, FieldsGrow
    <3>9. step' = "completed"
      BY <2>7 DEF Goto
    <3>10. Gone + shift' = LastEdge(sent, lines) + 2 + Len(sent.body)
      <4>1. shift' = shift + n
        BY <2>7
      <4> QED
        BY <2>1, <2>3, <2>8, <4>1
    <3>11. Taken(sent, lines, step', Gone + shift', payload')
      BY <3>1, <3>8, <3>9, <3>10 DEF Taken
    <3>12. Follows'
      BY <1>1, <3>11, TurnFollows
    <3> QED
      BY <3>9, <3>12 DEF Awaits
  <2> QED
    BY <1>3, <2>2, <2>5, <2>6, <2>7 DEF StepPayload
<1>4. starved' \/ starved' = starved
  BY DEF StepPayload
<1> QED
  BY <1>2, <1>3, <1>4

-----------------------------------------------------------------------------
(* The steps together.                                                     *)

\* Who does not read follows nothing.
LEMMA ElsewhereFollows ==
    ASSUME pc' \notin {"out", "read", "parse", "compact"} PROVE Follows' /\ Awaits'
BY DEF Follows, Awaits, Reading

\* The parser stays where it is.
LEMMA SamePlaceFollows ==
    ASSUME Follows, pc \in {"out", "read", "parse", "compact"}, Place' = Place,
           sent' = sent, lines' = lines, step' = step, payload' = payload, starved' = starved
    PROVE  Follows'
<1>1. CASE starved
  BY <1>1 DEF Follows
<1>2. CASE ~starved
  <2>1. Taken(sent, lines, step, Place, payload)
    BY <1>2 DEF Follows, Reading
  <2>2. Taken(sent', lines', step', Place', payload')
    BY <2>1
  <2> QED
    BY <2>2 DEF Follows
<1> QED
  BY <1>1, <1>2

LEMMA SerializingKeepsInv ==
    ASSUME WellFormedMessages, ParserInv, MessageInv,
           SerializeStart \/ p_http_payload_serialize_headers \/ SerializeBody \/ SerializeFails
    PROVE  MessageInv'
<1>1. Serialised /\ StreamKept
  BY DEF MessageInv
<1>2. pc' \in {"headers", "send", "over"}
  BY DEF SerializeStart, p_http_payload_serialize_headers, SerializeBody, SerializeFails
<1>3. Serialised'
  <2>1. CASE SerializeFails
    <3>1. UNCHANGED message /\ starved' = starved /\ pc' = "over" /\ starved \in BOOLEAN
      BY <2>1 DEF SerializeFails, ParserInv, PlaceTypes
    <3> QED
      BY <1>1, <3>1, MessageStays
  <2> QED
    BY <1>1, <2>1, SerializeStartLays, SerializeHeadersLays, SerializeBodyLays
<1>4. StreamKept'
  BY <1>1, <1>3, SerializingKeepsStream
<1>5. Follows' /\ Awaits'
  BY <1>2, ElsewhereFollows
<1> QED
  BY <1>3, <1>4, <1>5 DEF MessageInv

LEMMA WriteSomeKeepsMessage ==
    ASSUME WellFormedMessages, ParserInv, MessageInv, NEW n \in Nat, WriteSome(n)
    PROVE  MessageInv'
<1>1. Serialised /\ StreamKept
  BY DEF MessageInv
<1>2. /\ pc = "send" /\ pc' \in {"send", "out"} /\ UNCHANGED message /\ starved' = starved
      /\ UNCHANGED <<payload_size, shift, step, payload>> /\ starved \in BOOLEAN
  BY DEF WriteSome, buffer, parsed, ParserInv, PlaceTypes
<1>3. Serialised'
  BY <1>1, <1>2, MessageStays
<1>4. StreamKept' /\ (pc' = "out" => Gone' = 0 /\ Len(wire') > Len(Trailing))
  BY <1>1, WriteSomeKeepsStream
<1>5. CASE pc' = "send"
  <2>1. Follows' /\ Awaits'
    BY <1>5, ElsewhereFollows
  <2> QED
    BY <1>3, <1>4, <2>1 DEF MessageInv
<1>6. CASE pc' = "out"
  <2>1. step = "A" /\ shift = 0 /\ payload = f_http_payload_initialize
    BY <1>1, <1>2 DEF StreamKept, Reading
  <2>2. PICK h : h = sent' /\ WellFormed(h)
    BY <1>3, <1>6 DEF Serialised, WellFormedMessages
  <2>3. payload' = Fields(h, 0, <<>>, <<>>)
    BY <1>2, <2>1, <2>2, NoFieldYet
  <2>4. Place' = 0
    BY <1>2, <1>4, <1>6, <2>1 DEF Place
  <2>5. step' = "A"
    BY <1>2, <2>1
  <2>6. Taken(sent', lines', step', Place', payload')
    BY <2>2, <2>3, <2>4, <2>5 DEF Taken
  <2>7. Follows'
    BY <2>6 DEF Follows
  <2>8. Awaits'
    BY <1>4, <1>6 DEF Awaits
  <2> QED
    BY <1>3, <1>4, <2>7, <2>8 DEF MessageInv
<1> QED
  BY <1>2, <1>5, <1>6

LEMMA ReadSomeKeepsMessage ==
    ASSUME ParserInv, MessageInv, NEW n \in Nat, ReadSome(n) PROVE MessageInv'
<1>1. Serialised /\ StreamKept /\ Follows
  BY DEF MessageInv
<1>2. /\ pc = "read" /\ pc' = "parse" /\ UNCHANGED message /\ starved' = starved
      /\ UNCHANGED <<sent, lines, shift, step, payload>> /\ starved \in BOOLEAN
  BY DEF ReadSome, message, parsed, ParserInv, PlaceTypes
<1>3. Serialised'
  BY <1>1, <1>2, MessageStays
<1>4. StreamKept' /\ Gone' = Gone
  BY <1>1, ReadSomeKeepsStream
<1>5. Place' = Place
  BY <1>2, <1>4 DEF Place
<1>6. Follows'
  BY <1>1, <1>2, <1>5, SamePlaceFollows
<1>7. Awaits'
  BY <1>2 DEF Awaits
<1> QED
  BY <1>3, <1>4, <1>6, <1>7 DEF MessageInv

\* f_http_payload_read comes, or goes without a byte.
LEMMA NoByteKeepsMessage ==
    ASSUME ParserInv, MessageInv, ReadCall \/ ReadNoMemory \/ ReadTimeout PROVE MessageInv'
<1>1. Serialised /\ StreamKept /\ Follows /\ Awaits
  BY DEF MessageInv
<1>2. /\ pc \in {"out", "read"} /\ pc' \in {"out", "read"} /\ UNCHANGED message /\ starved' = starved
      /\ UNCHANGED <<sent, raw_payload, lines, wire, payload_size, shift, step, payload>>
      /\ starved \in BOOLEAN
  BY DEF ReadCall, ReadNoMemory, ReadTimeout, message, buffer, parsed, ParserInv, PlaceTypes
<1>3. Serialised'
  BY <1>1, <1>2, MessageStays
<1>4. StreamKept'
  <2>1. CASE ReadTimeout
    BY <1>1, <2>1, ReadTimeoutKeepsStream
  <2>2. CASE ReadCall \/ ReadNoMemory
    <3>1. in_buffer' = in_buffer
      BY <2>2 DEF ReadCall, ReadNoMemory, buffer
    <3>2. shift' = 0
      BY <1>1, <1>2 DEF StreamKept
    <3> QED
      BY <1>1, <1>2, <3>1, <3>2, SameBytesKeepStream
  <2> QED
    BY <2>1, <2>2
<1>5. Place' = Place
  BY <1>2 DEF Place, Gone
<1>6. Follows'
  BY <1>1, <1>2, <1>5, SamePlaceFollows
<1>7. Awaits'
  BY <1>1, <1>2 DEF Awaits
<1> QED
  BY <1>3, <1>4, <1>6, <1>7 DEF MessageInv

LEMMA CompactKeepsMessage == ASSUME ParserInv, MessageInv, Compact PROVE MessageInv'
<1>1. Serialised /\ StreamKept /\ Follows /\ Awaits
  BY DEF MessageInv
<1>2. /\ pc = "compact" /\ pc' \in {"out", "read"} /\ UNCHANGED message /\ starved' = starved
      /\ UNCHANGED <<sent, lines, wire, step, payload>> /\ starved \in BOOLEAN
  BY DEF Compact, message, parsed, ParserInv, PlaceTypes
<1>3. Serialised'
  BY <1>1, <1>2, MessageStays
<1>4. StreamKept' /\ Place' = Place
  BY <1>1, CompactKeepsStream
<1>5. Follows'
  BY <1>1, <1>2, <1>4, SamePlaceFollows
<1>6. Awaits'
  BY <1>1, <1>2 DEF Awaits
<1> QED
  BY <1>3, <1>4, <1>5, <1>6 DEF MessageInv

\* What every turn has in common.
LEMMA TurnsStay ==
    ASSUME ParserInv, f_http_payload_unserialize
    PROVE  /\ \E s : Turn(s)
           /\ pc' \in {"parse", "compact"} /\ (starved => starved')
<1>1. ASSUME NEW s, Goto(s) PROVE pc' \in {"parse", "compact"}
  BY <1>1 DEF Goto
<1>2. Wait => pc' = "compact" /\ starved' = starved
  BY DEF Wait
<1>3. ASSUME NEW needle, NEW ok, Allocated(needle, ok) PROVE starved => starved'
  BY <1>3 DEF Allocated
<1>4. CASE StepA
  BY <1>1, <1>2, <1>3, <1>4 DEF StepA
<1>5. CASE StepB
  <2>1. CASE Wait
    BY <1>2, <1>5, <2>1 DEF StepB
  <2>2. CASE ~Wait
    <3>1. PICK needle :
            \/ Goto("B") /\ UNCHANGED starved
            \/ \E ok \in BOOLEAN : \E to : Allocated(needle, ok) /\ Goto(to)
      BY <1>5, <2>2 DEF StepB
    <3> QED
      BY <1>1, <1>3, <1>5, <3>1 DEF StepB
  <2> QED
    BY <2>1, <2>2
<1>6. CASE StepC
  BY <1>1, <1>2, <1>3, <1>6 DEF StepC
<1>7. CASE StepKeyValue
  <2>1. CASE Wait
    BY <1>2, <1>7, <2>1 DEF StepKeyValue
  <2>2. CASE ~Wait
    <3>1. \/ \E ok \in BOOLEAN : \E to : Allocated(NewLine, ok) /\ Goto(to)
          \/ starved' = TRUE /\ Goto("key_value")
      BY <1>7, <2>2 DEF StepKeyValue
    <3> QED
      BY <1>1, <1>3, <1>7, <3>1 DEF StepKeyValue
  <2> QED
    BY <2>1, <2>2
<1>8. CASE StepKeyValueAgain
  BY <1>1, <1>8 DEF StepKeyValueAgain
<1>9. CASE StepPayload
  BY <1>1, <1>9 DEF StepPayload
<1> QED
  BY <1>4, <1>5, <1>6, <1>7, <1>8, <1>9 DEF f_http_payload_unserialize

LEMMA ParsingKeepsMessage ==
    ASSUME WellFormedMessages, ParserInv, MessageInv, f_http_payload_unserialize PROVE MessageInv'
<1>1. Serialised /\ StreamKept
  BY DEF MessageInv
<1>2. PICK s : Turn(s)
  BY TurnsStay
<1>3. pc' \in {"parse", "compact"} /\ (starved => starved')
  BY TurnsStay
<1>4. pc = "parse" /\ UNCHANGED message /\ starved \in BOOLEAN
  BY <1>2 DEF Turn, ParserInv, PlaceTypes
<1>5. Serialised'
  BY <1>1, <1>3, <1>4, MessageStays
<1>6. StreamKept'
  BY <1>1, <1>2, <1>3, TurnKeepsStream
<1>7. Follows' /\ Awaits'
  BY StepAFollows, StepBFollows, StepCFollows, StepKeyValueFollows, StepKeyValueAgainFollows,
     StepPayloadFollows DEF f_http_payload_unserialize
<1> QED
  BY <1>5, <1>6, <1>7 DEF MessageInv

\* The message is given up, or done with.
LEMMA LeavingKeepsMessage ==
    ASSUME ParserInv, MessageInv, pc' = "over", pc \notin {"write", "headers"},
           UNCHANGED <<message, wire>>, starved' = starved, step' = "A"
    PROVE  MessageInv'
<1>1. Serialised /\ StreamKept /\ starved \in BOOLEAN
  BY DEF MessageInv, ParserInv, PlaceTypes
<1>2. Serialised'
  BY <1>1, MessageStays
<1>3. StreamKept'
  BY <1>1 DEF StreamKept, Reading
<1>4. Follows' /\ Awaits'
  BY ElsewhereFollows
<1> QED
  BY <1>2, <1>3, <1>4 DEF MessageInv

LEMMA SameKeepsMessage ==
    ASSUME MessageInv, UNCHANGED httpVars PROVE MessageInv'
<1>1. UNCHANGED <<sent, raw_payload, unvisited, lines, wire, in_buffer, payload_size, shift, step,
                  payload, pc, starved>>
  BY DEF httpVars, message, buffer, parsed
<1>2. Serialised /\ StreamKept /\ Follows /\ Awaits
  BY DEF MessageInv
<1>3. Serialised'
  BY <1>1, <1>2 DEF Serialised
<1>4. StreamKept'
  BY <1>1, <1>2 DEF StreamKept, Reading, Gone, Stream
<1>5. Follows' /\ Awaits'
  BY <1>1, <1>2 DEF Follows, Awaits, Reading, Place, Gone
<1> QED
  BY <1>3, <1>4, <1>5 DEF MessageInv

LEMMA InitEstablishesMessage == OverInit => MessageInv
<1> SUFFICES ASSUME OverInit PROVE MessageInv
  OBVIOUS
<1>1. /\ pc = "write" /\ wire = <<>> /\ step = "A" /\ payload_size = 0 /\ shift = 0
      /\ payload = f_http_payload_initialize
  BY DEF OverInit, Init
<1>2. Serialised
  BY <1>1 DEF Serialised
<1>3. wire \in Seq(Symbols)
  BY <1>1
<1>4. StreamKept
  BY <1>1, <1>3 DEF StreamKept, Reading
<1>5. Follows /\ Awaits
  BY <1>1 DEF Follows, Awaits, Reading
<1> QED
  BY <1>2, <1>4, <1>5 DEF MessageInv

LEMMA StepKeepsMessage ==
    ASSUME WellFormedMessages PROVE ParserInv /\ MessageInv /\ [OverNext]_allVars => MessageInv'
<1> SUFFICES ASSUME ParserInv, MessageInv, [OverNext]_allVars PROVE MessageInv'
  OBVIOUS
<1>1. CASE UNCHANGED allVars
  BY <1>1, SameKeepsMessage DEF allVars
<1>2. CASE Connect \/ WaitsOn \/ Hangup \/ StartRead
  BY <1>2, SameKeepsMessage DEF Connect, WaitsOn, Hangup, StartRead
<1>3. CASE f_http_payload_write
  <2>1. CASE f_http_payload_serialize
    BY <2>1, SerializingKeepsInv DEF f_http_payload_serialize
  <2>2. CASE WriteFails
    <3>1. pc = "send" /\ pc' = "over" /\ UNCHANGED <<message, wire>> /\ starved' = starved /\ step' = step
      BY <2>2 DEF WriteFails, parsed
    <3>2. step = "A"
      BY <3>1 DEF MessageInv, StreamKept, Reading
    <3> QED
      BY <3>1, <3>2, LeavingKeepsMessage
  <2>3. ASSUME NEW n \in 1 .. Len(raw_payload), WriteSome(n) PROVE MessageInv'
    <3>1. n \in Nat
      BY <2>3
    <3> QED
      BY <2>3, <3>1, WriteSomeKeepsMessage
  <2> QED
    BY <1>3, <2>1, <2>2, <2>3 DEF f_http_payload_write
<1>4. ASSUME NEW n \in 1 .. Len(wire), ReadSome(n) PROVE MessageInv'
  <2>1. n \in Nat
    BY <1>4
  <2> QED
    BY <1>4, <2>1, ReadSomeKeepsMessage
<1>5. CASE ReadFails
  BY <1>5, NoByteKeepsMessage DEF ReadFails
<1>6. CASE Between
  BY <1>6, NoByteKeepsMessage, ParsingKeepsMessage, CompactKeepsMessage DEF Between
<1>7. CASE f_http_payload_free
  <2>1. pc = "out" /\ pc' = "over" /\ step' = "A" /\ UNCHANGED <<message, wire>> /\ starved' = starved
    BY <1>7 DEF f_http_payload_free
  <2> QED
    BY <2>1, LeavingKeepsMessage
<1> QED
  BY <1>1, <1>2, <1>3, <1>4, <1>5, <1>6, <1>7
  DEF OverNext, HttpCall, f_http_payload_read, ReadReturns

-----------------------------------------------------------------------------
(* What the reader has in the end.                                         *)

LEMMA FieldsAreReceived ==
    ASSUME NEW h, WellFormed(h)
    PROVE  Fields(h, 3, Lowered(h), h.body) = Received(h)
<1>1. h = [method |-> h.method, path |-> h.path, version |-> h.version,
           status_code |-> h.status_code, status_message |-> h.status_message,
           configuration |-> h.configuration, body |-> h.body]
  BY DEF WellFormed
<1>2. WellFormedStart(h)
  BY DEF WellFormed
<1>3. PICK code : code = IF h.status_code \in 100 .. 599 THEN h.status_code ELSE 0
  OBVIOUS
<1>4. PICK headers : headers = Lowered(h)
  OBVIOUS
<1>5. Received(h) = [h EXCEPT !.configuration = headers, !.status_code = code]
  BY <1>3, <1>4 DEF Received, Lowered, Keyed
<1>6. Received(h) = [method |-> h.method, path |-> h.path, version |-> h.version,
                     status_code |-> code, status_message |-> h.status_message,
                     configuration |-> headers, body |-> h.body]
  BY <1>1, <1>5
<1>7. CASE Request(h)
  <2>1. h.status_code = 0 /\ h.status_message = <<>>
    BY <1>2, <1>7 DEF WellFormedStart, Request
  <2>2. code = 0
    BY <1>3, <2>1
  <2> QED
    BY <1>4, <1>6, <1>7, <2>1, <2>2, FieldsOfRequest
<1>8. CASE ~Request(h)
  <2>1. h.method = <<>>
    BY <1>8 DEF Request
  <2>2. h.path = <<>>
    <3>1. PICK none : none = <<>>
      OBVIOUS
    <3>2. \A m \in Methods : <<m>> # <<>>
      <4>1. \A m \in Methods : m \in Words
        BY SymbolAssumption
      <4> QED
        BY <4>1, WordsAreFields
    <3> QED
      BY <1>2, <2>1, <3>2 DEF WellFormedStart
  <2>3. Fields(h, 3, headers, h.body) =
          [method |-> <<>>, path |-> <<>>, version |-> h.version, status_code |-> code,
           status_message |-> h.status_message, configuration |-> headers, body |-> h.body]
    BY <1>3, <1>8, StatusFieldsOfResponse
  <2> QED
    BY <1>4, <1>6, <2>1, <2>2, <2>3
<1> QED
  BY <1>7, <1>8

\* What is left of the stream behind the message.
LEMMA RestIsTrailing ==
    ASSUME ParserInv, Serialised, StreamKept, pc = "out", Gone = Len(raw_payload)
    PROVE  SubSeq(in_buffer, 1, payload_size) \o wire = Trailing
<1>1. /\ raw_payload \in Texts /\ Trailing \in Texts
      /\ Len(raw_payload) \in Nat /\ Len(Trailing) \in Nat
      /\ wire \in Texts /\ Len(wire) \in Nat /\ payload_size \in Nat
  BY Sizes
<1>2. PICK n \in Nat, size \in Nat : n = Len(raw_payload) /\ size = payload_size
  BY <1>1
<1>3. Len(Trailing) = size + Len(wire)
  BY <1>1, <1>2 DEF Gone
<1>4. /\ \A i \in 1 .. Len(wire) : wire[i] = Stream[n + size + i]
      /\ \A i \in 1 .. size : in_buffer[i] = Stream[n + i]
  BY <1>2 DEF StreamKept, Reading
<1>5. \A i \in 1 .. Len(Trailing) : Stream[n + i] = Trailing[i]
  <2>1. Holds(Stream, n, Trailing)
    BY <1>1, <1>2, HoldsLast DEF Stream
  <2> QED
    BY <2>1 DEF Holds
<1>6. PICK kept : kept = SubSeq(in_buffer, 1, size)
  OBVIOUS
<1>7. (\E S : kept \in Seq(S)) /\ Len(kept) = size /\ \A i \in 1 .. size : kept[i] = in_buffer[i]
  <2>1. PICK S : in_buffer \in Seq(S)
    BY DEF ParserInv, Terminated
  <2>2. size <= Len(in_buffer) /\ Len(in_buffer) \in Nat
    BY <1>2, <2>1, LenProperties DEF ParserInv, Terminated
  <2>3. \A i \in 1 .. size : in_buffer[i] \in S
    <3>1. \A i \in 1 .. size : i \in 1 .. Len(in_buffer)
      BY <2>2
    <3> QED
      BY <2>1, <3>1, ElementOfSeq
  <2>4. PICK one \in Int : one = 1
    OBVIOUS
  <2>5. /\ kept \in Seq(S) /\ Len(kept) = IF one <= size THEN size - one + 1 ELSE 0
        /\ \A i \in 1 .. size - one + 1 : kept[i] = in_buffer[one + i - 1]
    BY <1>6, <2>1, <2>3, <2>4, SubSeqProperties
  <2>6. /\ (IF one <= size THEN size - one + 1 ELSE 0) = size /\ size - one + 1 = size
        /\ \A i \in 1 .. size : one + i - 1 = i
    BY <2>4
  <2> QED
    BY <2>5, <2>6
<1>8. PICK all : all = kept \o wire
  OBVIOUS
<1>9. /\ \E U : all \in Seq(U)
      /\ Len(all) = size + Len(wire)
      /\ \A i \in 1 .. size + Len(wire) : all[i] = IF i <= size THEN kept[i] ELSE wire[i - size]
  <2>1. PICK S : kept \in Seq(S)
    BY <1>7
  <2>2. wire \in Seq(Symbols)
    BY <1>1 DEF Texts
  <2>3. /\ \E U : kept \o wire \in Seq(U)
        /\ Len(kept \o wire) = Len(kept) + Len(wire)
        /\ \A i \in 1 .. Len(kept) + Len(wire) :
             (kept \o wire)[i] = IF i <= Len(kept) THEN kept[i] ELSE wire[i - Len(kept)]
    BY <2>1, <2>2, Joined
  <2> QED
    BY <1>7, <1>8, <2>3
<1>10. ASSUME NEW i \in 1 .. size + Len(wire) PROVE all[i] = Trailing[i]
  <2>1. i \in 1 .. Len(Trailing) /\ Stream[n + i] = Trailing[i]
    BY <1>3, <1>5
  <2>2. CASE i <= size
    <3>1. i \in 1 .. size
      BY <1>1, <2>2
    <3> QED
      BY <1>4, <1>7, <1>9, <2>1, <2>2, <3>1
  <2>3. CASE ~ (i <= size)
    <3>1. i - size \in 1 .. Len(wire) /\ n + size + (i - size) = n + i
      BY <1>1, <2>3
    <3>2. all[i] = wire[i - size]
      BY <1>9, <2>3
    <3> QED
      BY <1>4, <2>1, <3>1, <3>2
  <2> QED
    BY <2>2, <2>3
<1>11. all = Trailing
  <2>1. PICK U : all \in Seq(U)
    BY <1>9
  <2>2. all = [i \in 1 .. Len(all) |-> all[i]] /\ Trailing = [i \in 1 .. Len(Trailing) |-> Trailing[i]]
    BY <1>1, <2>1, LenProperties DEF Texts
  <2>3. Len(all) = Len(Trailing) /\ \A i \in 1 .. Len(all) : all[i] = Trailing[i]
    BY <1>3, <1>9, <1>10
  <2> QED
    BY <2>2, <2>3
<1> QED
  BY <1>2, <1>6, <1>8, <1>11

LEMMA MessageIsRead ==
    ASSUME WellFormedMessages, ParserInv, MessageInv PROVE RoundTrip
<1> SUFFICES ASSUME step = "completed", ~starved
             PROVE  /\ payload = Received(sent)
                    /\ pc = "out" => SubSeq(in_buffer, 1, payload_size) \o wire = Trailing
  BY DEF RoundTrip
<1>1. Serialised /\ StreamKept /\ Follows
  BY DEF MessageInv
<1>2. pc \in {"out", "read", "parse", "compact"}
  BY <1>1 DEF StreamKept, Reading
<1>3. PICK h : h = sent
  OBVIOUS
<1>4. /\ WellFormed(h) /\ Visited(h, lines, unvisited) /\ unvisited = {}
      /\ Complete(h, lines, unvisited) /\ Ended(h, lines, raw_payload)
  BY <1>1, <1>2, <1>3 DEF Serialised, WellFormedMessages
<1>5. /\ Place = LastEdge(h, lines) + 2 + Len(h.body)
      /\ payload = Fields(h, 3, Headers(h, lines, Len(lines)), h.body)
  <2>1. Taken(h, lines, step, Place, payload)
    BY <1>1, <1>2, <1>3 DEF Follows, Reading
  <2> QED
    BY <2>1 DEF Taken
<1>6. payload = Received(sent)
  <2>1. Headers(h, lines, Len(lines)) = Lowered(h)
    BY <1>4, HeadersAreAll
  <2> QED
    BY <1>3, <1>4, <1>5, <2>1, FieldsAreReceived
<1>7. ASSUME pc = "out" PROVE SubSeq(in_buffer, 1, payload_size) \o wire = Trailing
  <2>1. shift = 0 /\ Gone \in Int
    BY <1>1, <1>7, Sizes DEF StreamKept
  <2>2. Gone = Len(raw_payload)
    BY <1>4, <1>5, <2>1 DEF Place, Ended
  <2> QED
    BY <1>1, <1>7, <2>2, RestIsTrailing
<1> QED
  BY <1>6, <1>7

LEMMA NobodyWaits ==
    ASSUME ParserInv, MessageInv PROVE NeverWaitsInVain
<1> SUFFICES ASSUME pc \in {"read", "out"}, ~starved, step # "completed"
             PROVE  ~ (Len(wire) <= Len(Trailing))
  BY DEF NeverWaitsInVain
<1>1. Len(wire) > Len(Trailing)
  BY DEF MessageInv, Awaits
<1>2. Len(wire) \in Nat /\ Len(Trailing) \in Nat
  BY Sizes DEF MessageInv
<1> QED
  BY <1>1, <1>2

\* Whatever the messages are that can be told from their bytes, whatever follows them, however
\* the bytes are cut and whatever the size of the buffer, a message that is said to be completed
\* is the one that was serialised, and the bytes behind it are still there for the next one.
THEOREM MessagesRoundTrip == WellFormedMessages /\ OverSpec => []RoundTrip
<1>1. ASSUME WellFormedMessages PROVE ParserInv /\ MessageInv /\ [OverNext]_allVars => MessageInv'
  BY <1>1, StepKeepsMessage
<1>2. ASSUME WellFormedMessages PROVE ParserInv /\ MessageInv => RoundTrip
  BY <1>2, MessageIsRead
<1> SUFFICES ASSUME WellFormedMessages PROVE OverSpec => []RoundTrip
  OBVIOUS
<1> QED
  BY <1>1, <1>2, InitEstablishesParser, InitEstablishesMessage, StepKeepsParser, PTL DEF OverSpec

\* And a reader that has received all of the message never waits for more of it.
THEOREM ReadersNeverWaitInVain == WellFormedMessages /\ OverSpec => []NeverWaitsInVain
<1>1. ASSUME WellFormedMessages PROVE ParserInv /\ MessageInv /\ [OverNext]_allVars => MessageInv'
  BY <1>1, StepKeepsMessage
<1>2. ParserInv /\ MessageInv => NeverWaitsInVain
  BY NobodyWaits
<1> SUFFICES ASSUME WellFormedMessages PROVE OverSpec => []NeverWaitsInVain
  OBVIOUS
<1> QED
  BY <1>1, <1>2, InitEstablishesParser, InitEstablishesMessage, StepKeepsParser, PTL DEF OverSpec

=============================================================================
