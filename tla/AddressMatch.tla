---------------------------- MODULE AddressMatch ----------------------------
(***************************************************************************)
(* p_server_address_matches (src/src/server.c): does an address match a    *)
(* white or black list entry?  An address is a word of Width bits, the     *)
(* first of which is the most significant; the text of an entry enters as  *)
(* what inet_pton and atoi make of it.                                     *)
(***************************************************************************)
EXTENDS Naturals

CONSTANTS Width, NoMask, Unparsable

ASSUME WidthAssumption == Width \in Nat \ {0}

Bits == 1..Width
Addresses == [Bits -> {0, 1}]
AllOnes == [i \in Bits |-> 1]
NoBits == [i \in Bits |-> 0]

\* An entry with or without "/mask"; atoi of a negative mask is a large unsigned.
Texts == [base : Addresses \cup {Unparsable}, mask : {NoMask} \cup 0..(Width + 1)]

ASSUME TextAssumption == NoMask \notin Nat /\ Unparsable \notin Addresses

\* A shift by Width or more is undefined; the processor takes it modulo Width.
Shl(x, n) == LET d == n % Width IN [i \in Bits |-> IF i + d \in Bits THEN x[i + d] ELSE 0]

And(x, y) == [i \in Bits |-> x[i] * y[i]]

MaskUnguarded(m) == Shl(AllOnes, Width - m)  \* mutant: no test of mask > 0

Mask(m) == IF m > 0 THEN Shl(AllOnes, Width - m) ELSE NoBits

p_server_address_matches(a, e) ==
    /\ e.base # Unparsable
    /\ \/ e.mask = NoMask /\ a = e.base
       \/ /\ e.mask # NoMask /\ e.mask <= Width
          /\ And(a, Mask(e.mask)) = And(e.base, Mask(e.mask))

\* An entry base/m stands for the block of addresses that share the first m
\* bits with base, which is every address for m = 0, and base alone when there
\* is no mask or when the mask is the full width.  A text that is no address, or
\* whose mask is too long, stands for nothing.
MatchesTheBlock(e) ==
    \A a \in Addresses :
        p_server_address_matches(a, e) <=>
            /\ e.base # Unparsable /\ (e.mask # NoMask => e.mask <= Width)
            /\ \A i \in 1 .. (IF e.mask = NoMask THEN Width ELSE e.mask) : a[i] = e.base[i]

=============================================================================
