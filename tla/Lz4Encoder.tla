------------------------------ MODULE Lz4Encoder ------------------------------
(***************************************************************************)
(* lz4Compress: the last stage of the LZ4 compression kernel.  Two         *)
(* processes run concurrently (#pragma HLS dataflow) and share two bounded *)
(* FIFOs:                                                                  *)
(*                                                                         *)
(*   lz4CompressPart1 splits the stream of items (literals and matches)    *)
(*   the booster delivers: a literal goes to lit_outStream at once, and a  *)
(*   record (number of literals, match length, offset) to lenOffset_Stream *)
(*   after the literals of a run, when its match, or the end, is reached.  *)
(*                                                                         *)
(*   lz4CompressPart2 reads a record, then the record's literals, and      *)
(*   emits the LZ4 sequence byte by byte.                                  *)
(*                                                                         *)
(* A FIFO is the sequence of all it was ever given in this block and the   *)
(* number of elements read from it; a write blocks while it holds as many  *)
(* elements as it is deep, a read while it holds none.  The FIFOs are      *)
(* hardware: what a block leaves in them is still there for the next.      *)
(***************************************************************************)
EXTENDS Lz4Format

CONSTANTS InputSizes,    \* the sizes of an input block (0, or 128..65536)
          LitDepth,      \* depth of lit_outStream      (512)
          RecDepth,      \* depth of lenOffset_Stream   (256)
          MaxLitCount,   \* MAX_LIT_COUNT               (4096)
          MaxMatch,      \* longest match of an item    (255)
          MaxOffset,     \* largest offset field of an item (65534)
          LeftBytes      \* LEFT_BYTES: trailing items that are literals (32)

ASSUME SizesAssumption == InputSizes \subseteq Nat /\ InputSizes # {}
ASSUME DepthAssumption == LitDepth \in Nat \ {0} /\ RecDepth \in Nat \ {0}
ASSUME LimitAssumption ==
    /\ MaxLitCount \in 1..65535
    /\ MaxMatch \in MinMatch..255
    /\ MaxOffset \in Nat \ {0}
    /\ LeftBytes \in Nat \ {0}
\* A distance, one more than the offset field, fits its two bytes (65535 < 65536).
ASSUME OffsetAssumption == MaxOffset + 1 < OffBase * OffBase

VARIABLES
    input_size,
    \* lz4CompressPart1
    p1,                  \* "start", "loop", "done"
    nextEncodedValue,    \* the item read ahead
    i,                   \* input position of that item
    lit_count, lit_count_flag, max_lit_limit,
    \* the FIFOs: what was written, and how much of it was read
    lits, litsRead, recs, recsRead,
    \* lz4CompressPart2
    p2,                  \* "run", "done"
    next_state, readOffsetFlag, inIdx,
    pending_idx_apply, pending_idx_increment,
    lit_length, match_length, write_lit_length,
    lit_ending, extra_match_len,
    out,                 \* the bytes written to outStream before the final one
    \* history: the items Part1 was given, as a decoder should return them
    items

p1vars  == <<p1, nextEncodedValue, i, lit_count, lit_count_flag, max_lit_limit, items>>
litvars == <<lit_length, write_lit_length, lit_ending>>
mvars   == <<match_length, extra_match_len>>
idxvars == <<inIdx, pending_idx_apply, pending_idx_increment>>
p2vars  == <<p2, next_state, readOffsetFlag, idxvars, litvars, mvars, out>>
vars    == <<input_size, p1vars, lits, litsRead, recs, recsRead, p2vars>>

-----------------------------------------------------------------------------
(* Items and records *)

\* An item of inStream: tLen and tOffset; tLen = 0 for a literal, whose
\* character is stood for by its input position.
LiteralItem == [len |-> 0, off |-> 0]
\* mutant: matches shorter than LZ4's shortest are passed on
MatchItems_Short == [len : 3..MaxMatch, off : 1..MaxOffset]
MatchItems  == [len : MinMatch..MaxMatch, off : 1..MaxOffset]
Advance(item) == IF item.len > 0 THEN item.len ELSE 1

\* The items the booster can deliver at input position p: inside the input,
\* and no match reaches into the last LEFT_BYTES positions.
Offer(p) == {item \in {LiteralItem} : p < input_size}
       \cup {item \in MatchItems : p + item.len <= input_size - LeftBytes}

\* The 64-bit word of lenOffset_Stream.  `upto' and `pos' are history: how
\* many literals had been written, and the input position reached, when the
\* record was.
EndMark == 777
\* mutants: the match is counted among the literals; the last literal is not
Record_OneMore(lit, len, off, upto, pos) ==
    [lit |-> lit + 1, len |-> len, off |-> off, upto |-> upto, pos |-> pos]
Record_OneLess(lit, len, off, upto, pos) ==
    [lit |-> IF lit > 1 THEN lit - 1 ELSE lit, len |-> len, off |-> off,
     upto |-> upto, pos |-> pos]
Record(lit, len, off, upto, pos) ==
    [lit |-> lit, len |-> len, off |-> off, upto |-> upto, pos |-> pos]
IsSpecialEnd(r) == r.len = EndMark /\ r.off = EndMark
IsNormalEnd(r)  == r.len = 0 /\ r.off = 0

\* mutant: the FIFO is one literal shallower than the literal limit
LitRoom_OneLess == Len(lits) - litsRead < LitDepth - 1
LitRoom == Len(lits) - litsRead < LitDepth
RecRoom == Len(recs) - recsRead < RecDepth

-----------------------------------------------------------------------------
(* The start of a block *)

Init == /\ input_size \in InputSizes
        /\ p1 = "start" /\ nextEncodedValue = LiteralItem /\ i = 0
        /\ lit_count = 0 /\ lit_count_flag = 0 /\ max_lit_limit = 0 /\ items = <<>>
        /\ p2 = "run" /\ next_state = "WRITE_TOKEN" /\ readOffsetFlag = TRUE
        /\ inIdx = 0 /\ pending_idx_apply = FALSE /\ pending_idx_increment = 0
        /\ lit_length = 0 /\ match_length = 0 /\ write_lit_length = 0
        /\ lit_ending = FALSE /\ extra_match_len = FALSE /\ out = <<>>
        /\ lits = <<>> /\ litsRead = 0
        /\ recs = <<>> /\ recsRead = 0

\* The next call of lz4Compress, from the loop of lz4CompressMM: both processes
\* have returned and start anew, max_lit_limit[index] is cleared, and the FIFOs
\* keep what was left in them.
NextBlock == /\ p1 = "done" /\ p2 = "done"
             /\ input_size' \in InputSizes
             /\ p1' = "start" /\ nextEncodedValue' = LiteralItem /\ i' = 0
             /\ lit_count' = 0 /\ lit_count_flag' = 0 /\ items' = <<>>
             /\ p2' = "run" /\ next_state' = "WRITE_TOKEN" /\ readOffsetFlag' = TRUE
             /\ inIdx' = 0 /\ pending_idx_apply' = FALSE /\ pending_idx_increment' = 0
             /\ lit_length' = 0 /\ match_length' = 0 /\ write_lit_length' = 0
             /\ lit_ending' = FALSE /\ extra_match_len' = FALSE /\ out' = <<>>
             /\ lits' = SubSeq(lits, litsRead + 1, Len(lits)) /\ litsRead' = 0
             /\ recs' = SubSeq(recs, recsRead + 1, Len(recs)) /\ recsRead' = 0
             /\ max_lit_limit' = 0

-----------------------------------------------------------------------------
(* lz4CompressPart1 *)

\* Returns at once for an empty block, without writing max_lit_limit[index].
Return1 == /\ p1 = "start"
           /\ input_size = 0
           /\ p1' = "done"
           /\ UNCHANGED <<nextEncodedValue, i, lit_count, lit_count_flag, max_lit_limit, items>>
           /\ UNCHANGED <<input_size, lits, litsRead, recs, recsRead, p2vars>>

FirstRead == /\ p1 = "start"
             /\ input_size # 0
             /\ nextEncodedValue' \in Offer(0)
             /\ p1' = "loop"
             /\ UNCHANGED <<i, lit_count, lit_count_flag, max_lit_limit, items>>
             /\ UNCHANGED <<input_size, lits, litsRead, recs, recsRead, p2vars>>

\* What every iteration does: read the next item ahead, unless i is the last
\* position, and step over the current one.
Iterate == /\ p1 = "loop"
           /\ i < input_size
           /\ IF i < input_size - 1
              THEN nextEncodedValue' \in Offer(i + Advance(nextEncodedValue))
              ELSE UNCHANGED nextEncodedValue
           /\ i' = i + Advance(nextEncodedValue)
           /\ items' = Append(items, IF nextEncodedValue.len > 0
                                     THEN <<nextEncodedValue.len, nextEncodedValue.off + 1>>
                                     ELSE <<0, i>>)
           /\ UNCHANGED <<input_size, p1, max_lit_limit, litsRead, recsRead, p2vars>>

\* The literal count is at its limit: the item is dropped and the block flagged.
DropItem == /\ Iterate
            /\ lit_count >= MaxLitCount
            /\ lit_count_flag' = 1
            /\ UNCHANGED <<lit_count, lits, recs>>

EmitRecord == /\ Iterate
              /\ lit_count < MaxLitCount
              /\ nextEncodedValue.len > 0
              /\ RecRoom
              /\ recs' = Append(recs, Record(lit_count, nextEncodedValue.len - MinMatch,
                                             nextEncodedValue.off, Len(lits), i'))
              /\ lit_count' = 0
              /\ UNCHANGED <<lit_count_flag, lits>>

EmitLiteral == /\ Iterate
               /\ lit_count < MaxLitCount
               /\ nextEncodedValue.len = 0
               /\ LitRoom
               /\ lits' = Append(lits, i)
               /\ lit_count' = lit_count + 1
               /\ UNCHANGED <<lit_count_flag, recs>>

\* After the loop: the record of the last run, and the flag for the host.
Overflowed == lit_count = MaxLitCount
LastRecord == LET mark == IF Overflowed THEN EndMark ELSE 0
              IN  Record(lit_count, mark, mark, Len(lits), i)

Finish1 == /\ p1 = "loop"
           /\ i >= input_size
           /\ IF lit_count = 0
              THEN UNCHANGED <<recs, lit_count_flag>>
              ELSE /\ RecRoom
                   /\ recs' = Append(recs, LastRecord)
                   /\ lit_count_flag' = IF Overflowed THEN 1 ELSE lit_count_flag
           /\ max_lit_limit' = lit_count_flag'
           /\ p1' = "done"
           /\ UNCHANGED <<nextEncodedValue, i, lit_count, items>>
           /\ UNCHANGED <<input_size, lits, litsRead, recsRead, p2vars>>

Part1 == Return1 \/ FirstRead \/ DropItem \/ EmitRecord \/ EmitLiteral \/ Finish1

-----------------------------------------------------------------------------
(* lz4CompressPart2 *)

\* mutant: the loop ends on the index alone
Busy_IndexOnly == p2 = "run" /\ inIdx < input_size
\* The loop condition.
Busy == p2 = "run" /\ (inIdx < input_size \/ ~readOffsetFlag)

\* The record the *_cached registers hold.
Cached == recs[recsRead]

\* An iteration that has read its record only waits for the next clock tick.
ReadRecord == /\ Busy
              /\ readOffsetFlag
              /\ recsRead < Len(recs)
              /\ recsRead' = recsRead + 1
              /\ readOffsetFlag' = FALSE
              /\ UNCHANGED <<p2, next_state, idxvars, litvars, mvars, out>>
              /\ UNCHANGED <<input_size, p1vars, lits, litsRead, recs>>

\* All bytes go through here: past input_size bytes they are thrown away.
Emit(byte) == out' = IF Len(out) < input_size THEN Append(out, byte) ELSE out

\* The index of the last record is added one iteration late.
\* mutant: the pending flag is not looked at
AppliedIdx_Always == inIdx + pending_idx_increment
AppliedIdx == IF pending_idx_apply THEN inIdx + pending_idx_increment ELSE inIdx

\* What every iteration in state s does, but for the next state and the byte.
InState(s) == /\ Busy
              /\ ~readOffsetFlag
              /\ next_state = s
              /\ UNCHANGED <<p2, input_size, p1vars, lits, recs, recsRead>>

ApplyPending == /\ inIdx' = AppliedIdx
                /\ pending_idx_apply' = FALSE
                /\ UNCHANGED pending_idx_increment

Goto(s, read) == next_state' = s /\ readOffsetFlag' = read

WriteToken ==
    /\ InState("WRITE_TOKEN")
    /\ inIdx' = IF IsSpecialEnd(Cached) THEN input_size ELSE AppliedIdx
    /\ pending_idx_apply' = TRUE
    /\ pending_idx_increment' = Cached.len + Cached.lit + MinMatch
    /\ lit_ending' = (lit_ending \/ IsSpecialEnd(Cached) \/ IsNormalEnd(Cached))
    /\ lit_length' = Cached.lit - Nibble(Cached.lit)
    /\ write_lit_length' = Cached.lit
    /\ match_length' = Cached.len - Nibble(Cached.len)
    /\ extra_match_len' = Extended(Cached.len)
    /\ Goto(IF Extended(Cached.lit) THEN "WRITE_LIT_LEN"
            ELSE IF Cached.lit > 0 THEN "WRITE_LITERAL" ELSE "WRITE_OFFSET0", FALSE)
    /\ Emit(Token(Nibble(Cached.lit), Nibble(Cached.len)))
    /\ UNCHANGED litsRead

\* mutant: the length is not counted down
WriteLitLen_NoCount ==
    /\ InState("WRITE_LIT_LEN")
    /\ ApplyPending
    /\ IF lit_length >= LenMax
       THEN Emit(LenByte(LenMax)) /\ UNCHANGED <<next_state, readOffsetFlag>>
       ELSE Emit(LenByte(lit_length)) /\ Goto("WRITE_LITERAL", FALSE)
    /\ UNCHANGED <<litvars, mvars, litsRead>>

WriteLitLen ==
    /\ InState("WRITE_LIT_LEN")
    /\ ApplyPending
    /\ IF lit_length >= LenMax
       THEN /\ lit_length' = lit_length - LenMax
            /\ Emit(LenByte(LenMax))
            /\ UNCHANGED <<next_state, readOffsetFlag>>
       ELSE /\ Emit(LenByte(lit_length))
            /\ Goto("WRITE_LITERAL", FALSE)
            /\ UNCHANGED lit_length
    /\ UNCHANGED <<write_lit_length, lit_ending, mvars, litsRead>>

AfterLiterals == IF lit_ending THEN Goto("WRITE_TOKEN", TRUE) ELSE Goto("WRITE_OFFSET0", FALSE)

WriteLiteral ==
    /\ InState("WRITE_LITERAL")
    /\ litsRead < Len(lits)
    /\ litsRead' = litsRead + 1
    /\ ApplyPending
    /\ write_lit_length' = write_lit_length - 1
    /\ IF write_lit_length = 1
       THEN AfterLiterals
       ELSE UNCHANGED <<next_state, readOffsetFlag>>
    /\ Emit(Literal(lits[litsRead + 1]))
    /\ UNCHANGED <<lit_length, lit_ending, mvars>>

\* match_offset_plus_one, a 16-bit register
Distance == (Cached.off + 1) % (OffBase * OffBase)

WriteOffset0 ==
    /\ InState("WRITE_OFFSET0")
    /\ ApplyPending
    /\ Emit(OffByte(LowHalf(Distance)))
    /\ Goto("WRITE_OFFSET1", FALSE)
    /\ UNCHANGED <<litvars, mvars, litsRead>>

WriteOffset1 ==
    /\ InState("WRITE_OFFSET1")
    /\ ApplyPending
    /\ Emit(OffByte(HighHalf(Distance)))
    /\ IF extra_match_len THEN Goto("WRITE_MATCH_LEN", FALSE) ELSE Goto("WRITE_TOKEN", TRUE)
    /\ UNCHANGED <<litvars, mvars, litsRead>>

WriteMatchLen ==
    /\ InState("WRITE_MATCH_LEN")
    /\ ApplyPending
    /\ IF match_length >= LenMax
       THEN /\ match_length' = match_length - LenMax
            /\ Emit(LenByte(LenMax))
            /\ UNCHANGED <<next_state, readOffsetFlag>>
       ELSE /\ Emit(LenByte(match_length))
            /\ Goto("WRITE_TOKEN", TRUE)
            /\ UNCHANGED match_length
    /\ UNCHANGED <<litvars, extra_match_len, litsRead>>

\* The loop has ended: the size, a last byte and the end-of-stream flag go out.
Finish2 == /\ p2 = "run"
           /\ ~Busy
           /\ p2' = "done"
           /\ UNCHANGED <<next_state, readOffsetFlag, idxvars, litvars, mvars, out>>
           /\ UNCHANGED <<input_size, p1vars, lits, litsRead, recs, recsRead>>

Part2 == \/ ReadRecord \/ WriteToken \/ WriteLitLen \/ WriteLiteral
         \/ WriteOffset0 \/ WriteOffset1 \/ WriteMatchLen \/ Finish2

compressedSize == Len(out)

Next == Part1 \/ Part2 \/ NextBlock

(***************************************************************************)
(* The processes are circuits of one clock: each makes its step as soon as *)
(* its FIFOs let it, whatever the other does, and the booster delivers the *)
(* next item when it is asked.  That the host calls again is not assumed.  *)
(***************************************************************************)
Fairness == WF_vars(Part1) /\ WF_vars(Part2)

Spec == Init /\ [][Next]_vars /\ Fairness

-----------------------------------------------------------------------------
(* Properties *)

States == {"WRITE_TOKEN", "WRITE_LIT_LEN", "WRITE_MATCH_LEN", "WRITE_LITERAL",
           "WRITE_OFFSET0", "WRITE_OFFSET1"}
Records == [lit : Nat, len : Nat, off : Nat, upto : Nat, pos : Nat]
Bytes == {"token", "len", "lit", "off"} \X Nat \X Nat

\* The registers, FIFOs and outputs of both processes hold values of their
\* kind, and no FIFO is read past what was written to it.
TypeOK ==
    /\ input_size \in InputSizes
    /\ p1 \in {"start", "loop", "done"}
    /\ nextEncodedValue \in {LiteralItem} \cup MatchItems
    /\ i \in Nat
    /\ lit_count \in Nat
    /\ lit_count_flag \in {0, 1} /\ max_lit_limit \in {0, 1}
    /\ lits \in Seq(Nat) /\ litsRead \in 0..Len(lits)
    /\ recs \in Seq(Records) /\ recsRead \in 0..Len(recs)
    /\ p2 \in {"run", "done"}
    /\ next_state \in States
    /\ readOffsetFlag \in BOOLEAN
    /\ inIdx \in Nat
    /\ pending_idx_apply \in BOOLEAN /\ pending_idx_increment \in Nat
    /\ lit_length \in Nat /\ match_length \in Nat /\ write_lit_length \in Nat
    /\ lit_ending \in BOOLEAN /\ extra_match_len \in BOOLEAN
    /\ out \in Seq(Bytes)
    /\ items \in Seq(Nat \X Nat)

\* A process that can only wait for the other one.
Waiting1 == \/ p1 = "done"
            \/ /\ p1 = "loop" /\ i < input_size /\ lit_count < MaxLitCount
               /\ IF nextEncodedValue.len > 0 THEN ~RecRoom ELSE ~LitRoom
            \/ p1 = "loop" /\ i >= input_size /\ lit_count > 0 /\ ~RecRoom
Waiting2 == \/ p2 = "done"
            \/ Busy /\ readOffsetFlag /\ recsRead = Len(recs)
            \/ Busy /\ ~readOffsetFlag /\ next_state = "WRITE_LITERAL" /\ litsRead = Len(lits)

\* The two processes never wait for each other: Part1 for room in a FIFO,
\* Part2 for data from the other FIFO, until nothing can move any more.  This
\* is what the depth of lit_outStream decides.
NoCircularWait == Waiting1 /\ Waiting2 => p1 = "done" /\ p2 = "done"

\* Part2 is never kept waiting for a literal: a record comes after its literals.
LiteralsComeFirst == ~readOffsetFlag /\ next_state = "WRITE_LITERAL" => litsRead < Len(lits)

\* The literal read next belongs to the run of the record in hand: it lies
\* behind the end of the record before and in front of the record's own end.
LiteralsOfTheRun ==
    (p2 = "run" /\ ~readOffsetFlag /\ next_state = "WRITE_LITERAL" /\ litsRead < Len(lits)) =>
        /\ lits[litsRead + 1] < Cached.pos
        /\ recsRead > 1 => lits[litsRead + 1] >= recs[recsRead - 1].pos

\* Both processes return together with nothing left over: a literal or a
\* record in a FIFO would become part of the next block.
NothingLeftBehind == p1 = "done" /\ p2 = "done" => litsRead = Len(lits) /\ recsRead = Len(recs)

\* Part2 does not leave its loop while a record of its block is yet to come:
\* it counts input positions itself and never sees Part1's end.
Part2StopsLast == p2 = "done" /\ input_size > 0 => p1 = "done"

\* What the host stores as compressed (a block not flagged whose size is below
\* that of the input) is a well-formed block and decodes to the items Part1 was
\* given; an output cut short, or one with literals missing, is never stored.
StoredBlockDecodes ==
    (p1 = "done" /\ p2 = "done" /\ input_size > 0 /\ max_lit_limit = 0
       /\ compressedSize < input_size) => Decode(out) = items

\* Every block is finished by both processes.
BlockFinishes == []<>(p1 = "done" /\ p2 = "done")
=============================================================================
