----------------------------- MODULE Sha256Padding -----------------------------
(***************************************************************************)
(* What preProcessing (sha224_256.hpp) makes of one message: the number of *)
(* blocks it announces, the blocks it sends, and the words it reads from   *)
(* the message stream, for the 32-bit and for the 64-bit stream.  The      *)
(* block count and the three padding branches are computed separately in   *)
(* the code; so they are here.                                             *)
(*                                                                         *)
(* A byte of the message is stood for by its place, 256 + k, apart from    *)
(* the bytes 0..255 the padding consists of.  A 32-bit word is the tuple   *)
(* of its bytes, most significant first.                                   *)
(***************************************************************************)
EXTENDS Integers, Sequences, SequencesExt, FiniteSets

CONSTANT BLOCK_WORDS    \* 32-bit words of a block     (16)

ASSUME BlockAssumption == BLOCK_WORDS \in Nat /\ BLOCK_WORDS > 2 /\ BLOCK_WORDS % 2 = 0

BlockBytes == BLOCK_WORDS * 4
LEN_AT == BLOCK_WORDS - 2           \* where the length goes: M[14] and M[15]
TailRoom == LEN_AT * 4              \* 56

fullBlocks(len) == len \div BlockBytes
left(len) == len % BlockBytes

\* mutant: the message of 56 bytes is thought to leave room for its length
blk_num_OffByOne(len) == fullBlocks(len) + 1 + (IF left(len) > TailRoom THEN 1 ELSE 0)
\* The count sent to dup_strm, ahead of the blocks.
blk_num(len) == fullBlocks(len) + 1 + (IF left(len) > TailRoom - 1 THEN 1 ELSE 0)

\* The blocks sent after the full ones: a block of padding alone, the tail with
\* the length behind it, or the tail and the length in blocks of their own.
PaddingBlocks(len) == CASE left(len) = 0 -> <<"pad">>
                        [] left(len) \in 1..TailRoom - 1 -> <<"tail_and_len">>
                        [] OTHER -> <<"tail", "len">>
SentBlocks(len) == [j \in 1..fullBlocks(len) |-> "full"] \o PaddingBlocks(len)

-----------------------------------------------------------------------------
(* The words *)

Zero == <<0, 0, 0, 0>>
BigEndian(l) == Reverse(l)
\* The first e bytes of the message word, 0x80, and zeros.
OneAfter(e, l) == SubSeq(BigEndian(l), 1, e) \o <<128>> \o [k \in 1..3 - e |-> 0]

\* The length in bits, high word first; the run's messages are shorter than 2^28.
LengthWord(len, i) ==
    IF i = LEN_AT THEN Zero
    ELSE [k \in 1..4 |-> ((8 * len) \div 256 ^ (4 - k)) % 256]

\* Does block `kind' of a message of len bytes end in the length?
HasLength(kind) == kind \in {"pad", "tail_and_len", "len"}
IsTail(kind) == kind \in {"tail_and_len", "tail"}

\* 32-bit stream, word i of a block: is a word read, and what goes to M[i]?
Reads32(kind, len, i) == \/ kind = "full"
                         \/ IsTail(kind) /\ 4 * i < left(len)

\* mutant: the length block starts with the 1 bit
M32_OneTwice(kind, len, i, l) ==
    CASE HasLength(kind) /\ i >= LEN_AT -> LengthWord(len, i)
      [] kind = "full" \/ (IsTail(kind) /\ i < left(len) \div 4) -> BigEndian(l)
      [] IsTail(kind) /\ i = left(len) \div 4 -> OneAfter(left(len) % 4, l)
      [] kind \in {"pad", "len"} /\ i = 0 -> OneAfter(0, Zero)
      [] OTHER -> Zero
M32(kind, len, i, l) ==
    CASE HasLength(kind) /\ i >= LEN_AT -> LengthWord(len, i)
      [] kind = "full" \/ (IsTail(kind) /\ i < left(len) \div 4) -> BigEndian(l)
      [] IsTail(kind) /\ i = left(len) \div 4 -> OneAfter(left(len) % 4, l)
      [] kind = "pad" /\ i = 0 -> OneAfter(0, Zero)
      [] OTHER -> Zero

\* 64-bit stream: words M[2i] and M[2i + 1] from one word ll of the stream.
Low(ll) == SubSeq(ll, 5, 8)
High(ll) == SubSeq(ll, 1, 4)

Reads64(kind, len, i) == \/ kind = "full"
                         \/ IsTail(kind) /\ i < left(len) \div 8
                         \/ IsTail(kind) /\ i = left(len) \div 8 /\ left(len) % 8 # 0

\* (left & 4) == 0: the tail ends in the low half of this word.
EndsLow(len) == (left(len) \div 4) % 2 = 0

M64(kind, len, i, ll) ==
    CASE HasLength(kind) /\ 2 * i = LEN_AT -> <<LengthWord(len, 2 * i), LengthWord(len, 2 * i + 1)>>
      [] kind = "full" \/ (IsTail(kind) /\ i < left(len) \div 8) ->
             <<BigEndian(Low(ll)), BigEndian(High(ll))>>
      [] IsTail(kind) /\ i = left(len) \div 8 ->
             IF EndsLow(len) THEN <<OneAfter(left(len) % 4, Low(ll)), Zero>>
             ELSE <<BigEndian(Low(ll)), OneAfter(left(len) % 4, High(ll))>>
      [] kind = "pad" /\ i = 0 -> <<OneAfter(0, Zero), Zero>>
      [] OTHER -> <<Zero, Zero>>

-----------------------------------------------------------------------------
(* FIPS 180-4, 5.1.1: the message, whose bytes are numbered from `first', a 1 *)
(* bit, the fewest zeros that fill a block, and the length in 64 bits.        *)

ZerosNeeded(len) == CHOOSE z \in 0..BlockBytes - 1 : (len + 1 + z + 8) % BlockBytes = 0
StandardPadding(first, len) ==
    [k \in 1..len |-> 256 + first + k - 1] \o <<128>> \o [k \in 1..ZerosNeeded(len) |-> 0]
    \o [k \in 1..8 |-> IF k <= 4 THEN 0 ELSE ((8 * len) \div 256 ^ (8 - k)) % 256]
=============================================================================
