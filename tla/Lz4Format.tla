------------------------------ MODULE Lz4Format ------------------------------
(***************************************************************************)
(* The LZ4 block format, as the compressor emits it: the symbols of a      *)
(* sequence (token, length bytes, literal, offset bytes) and a reference   *)
(* decoder over them.  The decoder is the yardstick of the correctness     *)
(* properties; it is not taken from the compressor.                        *)
(*                                                                         *)
(* A symbol stands for one output byte and is a triple <<kind, a, b>>:     *)
(*   <<"token", l, m>>  the two nibbles                                    *)
(*   <<"len", n, 0>>    a length-extension byte                            *)
(*   <<"lit", p, 0>>    the literal found at input position p              *)
(*   <<"off", v, 0>>    one half of the match distance                     *)
(* The kind is what the decoder expects at a place, so that a byte emitted *)
(* in the wrong place is a format error and never read as something else.  *)
(*                                                                         *)
(* The widths are parameters: 15, 255 and 256 in the code.                 *)
(***************************************************************************)
EXTENDS Integers, Sequences

CONSTANTS TokenMax,   \* largest value of a token nibble              (15)
          LenMax,     \* largest value of a length-extension byte    (255)
          OffBase     \* number of values of one offset byte         (256)

ASSUME FormatAssumption ==
    /\ TokenMax \in Nat \ {0}
    /\ LenMax \in Nat \ {0}
    /\ OffBase \in Nat \ {0}

Token(l, m)  == <<"token", l, m>>
LenByte(n)   == <<"len", n, 0>>
Literal(p)   == <<"lit", p, 0>>
OffByte(v)   == <<"off", v, 0>>

\* What a token nibble carries of a length, and whether extension bytes follow.
Nibble(n)   == IF n >= TokenMax THEN TokenMax ELSE n
\* mutant: a length that just fills the nibble is taken to need no extension
Extended_Above(n) == n > TokenMax
Extended(n) == n >= TokenMax

\* The two halves of a 16-bit distance, low half first.
LowHalf(d)  == d % OffBase
HighHalf(d) == (d \div OffBase) % OffBase

(***************************************************************************)
(* Decoded items: a literal is <<0, position>>, a match is                 *)
(* <<length, distance>>.                                                   *)
(***************************************************************************)
MinMatch == 4
Malformed == << <<-1, -1>> >>

\* There is a symbol of this kind at p.
Is(out, p, kind) == p \in 1..Len(out) /\ out[p][1] = kind

\* At each place, the value spelt by the extension bytes from there on, and
\* the place behind them; that is past the end if they are not complete.
Extension(out) ==
    LET ext[p \in 1..Len(out) + 1] ==
            IF ~Is(out, p, "len") THEN [val |-> 0, next |-> Len(out) + 2]
            ELSE IF out[p][2] < LenMax THEN [val |-> out[p][2], next |-> p + 1]
            ELSE [val |-> LenMax + ext[p + 1].val, next |-> ext[p + 1].next]
    IN  ext

\* The length a nibble stands for, with its extension at p.
Length(out, nibble, p) ==
    IF nibble < TokenMax THEN [val |-> nibble, next |-> p]
    ELSE IF p > Len(out) THEN [val |-> 0, next |-> Len(out) + 2]
    ELSE [val |-> TokenMax + Extension(out)[p].val, next |-> Extension(out)[p].next]

Literals(out, from, count) == [k \in 1..count |-> <<0, out[from + k - 1][2]>>]

\* The items of the sequence at p and the place of the next one.  The last one
\* ends after its literals; nothing follows a sequence that is not well-formed.
SequenceAt(out, p) ==
    LET bad  == [items |-> Malformed, next |-> Len(out) + 1]
        ll   == Length(out, out[p][2], p + 1)
        off  == ll.next + ll.val
        ml   == Length(out, out[p][3], off + 2)
        dist == out[off][2] + OffBase * out[off + 1][2]
        chars == Literals(out, ll.next, ll.val)
    IN  IF ~Is(out, p, "token") THEN bad
        ELSE IF off > Len(out) + 1 \/ \E q \in ll.next..off - 1 : ~Is(out, q, "lit") THEN bad
        ELSE IF off = Len(out) + 1 THEN [items |-> chars, next |-> off]
        ELSE IF ~(Is(out, off, "off") /\ Is(out, off + 1, "off")) \/ ml.next > Len(out) THEN bad
        ELSE [items |-> Append(chars, <<ml.val + MinMatch, dist>>), next |-> ml.next]

\* The sequence of items the byte sequence `out' stands for; it holds
\* Malformed exactly when `out' is not a well-formed block.
Decode(out) ==
    LET from[p \in 1..Len(out) + 1] ==
            LET s == SequenceAt(out, p)
            IN  IF s.next > Len(out) THEN s.items ELSE s.items \o from[s.next]
    IN  from[1]
=============================================================================
