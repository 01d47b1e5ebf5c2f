------------------------------- MODULE Tokens -------------------------------
(***************************************************************************)
(* f_tokens_explode_stream (src/src/tokens.c): a text is read in pieces of *)
(* any length, and each piece is cut into tokens, one character per turn   *)
(* of the loop; a token may go on in the next piece.  The tokens are       *)
(* boxed_nan doubles (src/src/boxed_nan.c) in a growing array              *)
(* (src/src/array.c).                                                      *)
(*                                                                         *)
(* A character is a string, "LF" a new line; one letter may stand for a    *)
(* group of them.  A double is kept in tenths: a text has at most one      *)
(* digit behind a decimal point.                                           *)
(***************************************************************************)
EXTENDS Integers, Sequences, SequencesExt, TLC

CONSTANTS
    Symbols, WordSymbols, Ignorable,  \* the tables of characters
    Available,   \* d_boxed_nan_available_bytes
    IntMax,      \* INT32_MAX
    Buffer,      \* d_string_buffer_size
    Bucket       \* the bucket of the array

ASSUME TokensAssumption ==
    {Available, IntMax, Buffer, Bucket} \subseteq Nat /\ Bucket > 0 /\ Buffer > 1 /\ IntMax > 9

VARIABLES
    text,        \* what the stream delivers
    pos, limit,  \* current_character and the end of the buffer
    start, last, jump,  \* starting_character (0 when NULL), last_character, jump_next_character
    tokens, capacity,   \* the tokens so far and d_array_size
    breaks, fraction, negative, incomplete,  \* the other accumulators
    result,      \* of f_tokens_explode_stream so far, "" before and after it
    blocks,      \* blocks of memory in use
    fault,       \* what has failed, at most one: "none", "memory", "array", "read"
    broken,      \* something was written outside of its block; nothing is known of what follows
    fragile      \* a buffer ended where the tokens depend on it

reader == <<text, pos, limit, start, last, jump>>
array == <<tokens, capacity>>
accumulators == <<breaks, fraction, negative, incomplete>>
memory == <<blocks, fault, broken, result>>
tokensVars == <<reader, array, accumulators, memory, fragile>>

-----------------------------------------------------------------------------
(* Tokens.  A symbol is an embedded string with a mark, "quoted_null" a    *)
(* quoted string without a pointer yet; own tells the strings of a         *)
(* document from those that belong to the array.                           *)

Token(sig, chars, num) == [sig |-> sig, text |-> chars, num |-> num, own |-> FALSE]

f_boxed_nan_int(n) == Token("int", <<>>, n)
Double(tenths) == Token("double", <<>>, tenths)
f_boxed_nan_boolean(b) == Token("bool", <<>>, IF b THEN 1 ELSE 0)
NotANumber == Token("nan", <<>>, 0)
NewLineToken == Token("new_line", <<>>, 0)
f_tokens_new_token_symbol(c) == Token("symbol", <<c>>, 0)

\* The quoted string made for a caller, NaN without memory.
f_tokens_new_token_char(chars, ok) ==
    IF ok THEN [Token("quoted", chars, 0) EXCEPT !.own = TRUE] ELSE NotANumber

IsWord(t) == t.sig \in {"embedded", "pointer", "quoted", "quoted_null"}
IsValue(t) == t.sig \in {"int", "double", "nan"}
HasBlock(t) == t.sig \in {"pointer", "quoted"}

Quotes == {"\"", "'"} \ Symbols
Signs == {"+", "-"} \ Symbols
Digit == [c \in {"0", "1", "2", "3", "4", "5", "6", "7", "8", "9"} |->
             CHOOSE d \in 0..9 : ToString(d) = c]
Digits == DOMAIN Digit

\* p_tokens_append_characters: a word that gets too long moves to a block; the
\* quotes of a string go when the closing one, not escaped, is appended.
AppendedUnescaped(t, chars) ==  \* mutant: an escaped quote closes the string
    LET all == t.text \o chars
        closed == Len(all) > 1 /\ Last(all) \in Quotes /\ all[1] = Last(all)
    IN [t EXCEPT !.text = IF t.sig \in {"quoted", "quoted_null"} /\ closed
                            THEN SubSeq(all, 2, Len(all) - 1) ELSE all,
                 !.sig = IF t.sig = "quoted_null" THEN "quoted"
                         ELSE IF t.sig = "embedded" /\ Len(all) >= Available THEN "pointer"
                         ELSE @]

Appended(t, chars) ==
    LET all == t.text \o chars
        closed == /\ Len(all) > 1 /\ all[Len(all) - 1] # "\\"
                  /\ Last(all) \in Quotes /\ all[1] = Last(all)
    IN [t EXCEPT !.text = IF t.sig \in {"quoted", "quoted_null"} /\ closed
                            THEN SubSeq(all, 2, Len(all) - 1) ELSE all,
                 !.sig = IF t.sig = "quoted_null" THEN "quoted"
                         ELSE IF t.sig = "embedded" /\ Len(all) >= Available THEN "pointer"
                         ELSE @]

-----------------------------------------------------------------------------
(* f_tokens_explode_buffer.                                                *)

c == text[pos]
Running == result = "NOICE" /\ ~broken
Pending == IF incomplete /\ tokens # <<>> THEN Last(tokens).sig ELSE "none"
Turn(sigs) == Running /\ pos <= limit /\ Pending \in sigs /\ UNCHANGED <<text, limit, fragile>>

\* Line breaks are counted, and become tokens before the next token.
Breaks == IF jump /\ c = "LF" THEN breaks + 1 ELSE breaks
Advance == pos' = pos + 1 /\ last' = c /\ jump' = TRUE
Stay == jump' = FALSE /\ UNCHANGED <<pos, last>>

Replace(t) == tokens' = [tokens EXCEPT ![Len(tokens)] = t] /\ UNCHANGED capacity
Fails(what) == fault = "none" /\ fault' = what

\* Of a block of that size, some index from one to another is not a byte of it.
Outside(from, to, size) == from < 0 \/ to >= size

\* What is allocated for a string of n characters.
BlockSizeShort(n) == n  \* mutant: no byte for the terminator
BlockSize(n) == n + 1

\* The characters from one to another go to the last token, if there is memory:
\* behind what it holds, with a terminator.  In a quoted string the byte before
\* the last one is looked at, and unless it is a backslash, as it may be by
\* chance in front of a block, the closing quote is overwritten there.
Push(from, to) ==
    LET t == Last(tokens)
        chars == SubSeq(text, from, to)
        new == Appended(t, chars)
        length == Len(t.text)
        new_length == length + Len(chars)
        first == IF new.sig = "quoted" /\ new_length - 2 < length THEN new_length - 2 ELSE length
        size == IF HasBlock(new) THEN BlockSize(new_length) ELSE Available
    IN \/ /\ Replace(new) /\ UNCHANGED <<fault, result>>
          /\ blocks' = blocks + (IF HasBlock(new) /\ ~HasBlock(t) THEN 1 ELSE 0)
          /\ \/ broken' = (broken \/ Outside(first, new_length, size))
             \/ first < 0 /\ UNCHANGED broken
       \/ /\ HasBlock(new) /\ Fails("memory") /\ result' = "SHIT_NO_MEMORY"
          /\ UNCHANGED <<array, blocks, broken>>

NoPush == UNCHANGED <<array, memory>>

WordTurn ==
    /\ Turn({"embedded", "pointer"}) /\ breaks' = Breaks /\ UNCHANGED <<fraction, negative>>
    /\ IF c \notin WordSymbols /\ c \in Symbols \cup Ignorable
         THEN /\ IF start = 0 THEN NoPush ELSE Push(start, pos - 1)
              /\ incomplete' = FALSE /\ Stay /\ UNCHANGED start
         ELSE /\ start' = (IF start = 0 THEN pos ELSE start) /\ Advance
              /\ NoPush /\ UNCHANGED incomplete

QuotedTurn ==
    /\ Turn({"quoted", "quoted_null"}) /\ breaks' = Breaks /\ UNCHANGED <<fraction, negative>>
    /\ start' = (IF start = 0 THEN pos ELSE start) /\ Advance
    /\ LET opening == IF Pending = "quoted" THEN Last(tokens).text[1] ELSE text[start] IN
       IF c = opening /\ last # "\\"
         THEN Push(start', pos) /\ incomplete' = FALSE
         ELSE NoPush /\ UNCHANGED incomplete

NumberVars == UNCHANGED <<memory, start>> /\ breaks' = Breaks

\* A number starts as an integer; a point or an overflow make it a double.
IntTurn ==
    /\ Turn({"int"}) /\ NumberVars /\ UNCHANGED negative
    /\ LET n == Last(tokens).num
           next == 10 * n + (IF c \in Digits THEN Digit[c] ELSE 0)
       IN \/ /\ c \in Digits /\ Advance /\ UNCHANGED <<fraction, incomplete>>
             /\ Replace(IF next > IntMax THEN Double(10 * next) ELSE f_boxed_nan_int(next))
          \/ /\ c = "." /\ Advance /\ UNCHANGED incomplete
             /\ Replace(Double(10 * n)) /\ fraction' = fraction + 1
          \/ /\ c \notin Digits \cup {"."} /\ Stay /\ incomplete' = FALSE /\ UNCHANGED fraction
             /\ Replace(f_boxed_nan_int(IF negative THEN -n ELSE n))

DoubleDigit ==
    /\ Turn({"double"}) /\ c \in Digits /\ Advance
    /\ Replace(Double(10 * Last(tokens).num + 10 * Digit[c]))
    /\ fraction' = (IF fraction > 0 THEN fraction + 1 ELSE 0)
    /\ start' = (IF start = 0 THEN pos ELSE start)
    /\ breaks' = Breaks /\ UNCHANGED <<memory, negative, incomplete>>

\* Scaled when it ends, if a digit of it came in this buffer.
Scaled(n) == IF start # 0 /\ fraction > 1 THEN n \div 10 ^ (fraction - 1) ELSE n

DoubleTurn ==
    /\ Turn({"double"}) /\ c \notin Digits /\ NumberVars /\ UNCHANGED negative
    /\ \/ c = "." /\ fraction = 0 /\ fraction' = 1 /\ Advance /\ UNCHANGED <<array, incomplete>>
       \/ /\ ~(c = "." /\ fraction = 0) /\ Stay /\ incomplete' = FALSE /\ UNCHANGED fraction
          /\ LET n == Scaled(Last(tokens).num) IN Replace(Double(IF negative THEN -n ELSE n))

Skip ==
    /\ Turn({"none"}) /\ c \in Ignorable /\ Advance /\ breaks' = Breaks
    /\ UNCHANGED <<start, array, fraction, negative, incomplete, memory>>

\* f_array_validate_access for n tokens more, which are then written; when the
\* array cannot grow the caller gets the old one.
GrownLate(n) ==  \* mutant: an index equal to the size is taken to fit
    LET index == Len(tokens) + n - 1
        fits == index <= capacity
    IN /\ \/ /\ capacity' = (IF fits THEN capacity ELSE (index \div Bucket + 1) * Bucket)
             /\ UNCHANGED fault
          \/ ~fits /\ Fails("array") /\ UNCHANGED capacity
       /\ broken' = (broken \/ Outside(Len(tokens), index, capacity'))

Grown(n) ==
    LET index == Len(tokens) + n - 1
        fits == index < capacity
    IN /\ \/ /\ capacity' = (IF fits THEN capacity ELSE (index \div Bucket + 1) * Bucket)
             /\ UNCHANGED fault
          \/ ~fits /\ Fails("array") /\ UNCHANGED capacity
       /\ broken' = (broken \/ Outside(Len(tokens), index, capacity'))

\* A sign needs a digit behind it in the same buffer.
Signed == c \in Signs /\ pos < limit /\ text[pos + 1] \in Digits

FirstToken ==
    IF c \in Quotes THEN Token("quoted_null", <<>>, 0)
    ELSE IF c \in Digits THEN f_boxed_nan_int(Digit[c])
    ELSE IF Signed THEN f_boxed_nan_int(Digit[text[pos + 1]])
    ELSE IF c \in Symbols THEN f_tokens_new_token_symbol(c)
    ELSE Token("embedded", <<>>, 0)

NewToken ==
    /\ Turn({"none"}) /\ c \notin Ignorable
    /\ Grown(Breaks + 1) /\ breaks' = 0
    /\ tokens' = tokens \o [i \in 1..Breaks |-> NewLineToken] \o <<FirstToken>>
    /\ incomplete' = (FirstToken.sig # "symbol")
    /\ start' = (IF IsWord(FirstToken) THEN pos ELSE 0)
    /\ fraction' = (IF IsValue(FirstToken) THEN 0 ELSE fraction)
    /\ negative' = (IF IsValue(FirstToken) THEN c = "-" ELSE negative)
    /\ pos' = pos + (IF Signed THEN 2 ELSE 1) /\ last' = text[pos' - 1] /\ jump' = TRUE
    /\ UNCHANGED <<blocks, result>>

\* What there is of a word or of a string is kept, a number as it is.
EndBuffer ==
    /\ Running /\ pos > limit /\ start # 0 /\ start' = 0
    /\ IF Pending \in {"embedded", "pointer", "quoted", "quoted_null"}
         THEN Push(start, limit) ELSE NoPush
    /\ UNCHANGED <<text, pos, limit, last, jump, accumulators, fragile>>

f_tokens_explode_buffer ==
    \/ WordTurn \/ QuotedTurn \/ IntTurn \/ DoubleDigit \/ DoubleTurn
    \/ Skip \/ NewToken \/ EndBuffer

-----------------------------------------------------------------------------
(* f_tokens_explode_stream: a terminator goes behind the bytes of read(),   *)
(* whose error, -1, is taken for their number.                              *)

Drained == Running /\ pos > limit /\ start = 0

\* The end of a buffer changes a number there: behind the last digit of a
\* decimal, or between the sign and the first one.
FragileAt(p) ==
    /\ p <= Len(text)
    /\ \/ text[p] \in Signs /\ p < Len(text) /\ text[p + 1] \in Digits
       \/ /\ text[p] \in Digits /\ (p = Len(text) \/ text[p + 1] \notin Digits)
          /\ \/ p = Len(text)
             \/ \E d \in 1..p : text[d] = "." /\ \A k \in d + 1..p : text[k] \in Digits

ReadSome(n) ==
    /\ Drained /\ n < Buffer /\ limit + n <= Len(text) /\ limit' = limit + n
    /\ broken' = Outside(n, n, Buffer)
    /\ jump' = TRUE /\ fragile' = (fragile \/ FragileAt(limit'))
    /\ last' = (IF IsWord(Last(<<NotANumber>> \o tokens)) /\ incomplete /\ Last(tokens).text # <<>>
                  THEN Last(Last(tokens).text) ELSE "NUL")
    /\ UNCHANGED <<text, pos, start, array, accumulators, blocks, fault, result>>

ReadError ==
    /\ Drained /\ Fails("read") /\ broken' = Outside(-1, -1, Buffer)
    /\ UNCHANGED <<reader, array, accumulators, blocks, result, fragile>>

f_tokens_explode_stream ==
    f_tokens_explode_buffer \/ (\E n \in 1..Len(text) : ReadSome(n)) \/ ReadError

\* f_tokens_free: the array and every string in it.
Freed == 1 + Len(SelectSeq(tokens, HasBlock))

=============================================================================
