------------------------------ MODULE Lz4Decoder ------------------------------
(***************************************************************************)
(* lz4CoreDecompressEngine, the LZ4 decoder that works on PARALLEL_BYTES   *)
(* bytes at a time: lz4MultiByteDecompress cuts blocks into literal runs   *)
(* and matches, lzPreProcessingUnitLL cuts those into chunks of at most    *)
(* PARALLEL_BYTES bytes, and lzMultiByteDecompressLL copies the chunks,    *)
(* from a register file for near matches and from a RAM for far ones.      *)
(*                                                                         *)
(* The RAM is declared free of dependences between iterations, so a read   *)
(* may return what a word held before the writes still in flight.          *)
(*                                                                         *)
(* A literal is known by its number in the file; the widths of the format  *)
(* are those of Lz4Format.  The streams of literal length, match length    *)
(* and offset, always written and read together, are one stream of         *)
(* triples.  outStream has room, as its consumer provides.                 *)
(***************************************************************************)
EXTENDS Lz4Format, FiniteSets, SequencesExt

CONSTANTS PARALLEL_BYTES,   \*                                              (8)
          HISTORY_SIZE,     \* also 2^OWIDTH, the range of the indices  (65536)
          RamLag,           \* iterations a write to the RAM is in flight
          SeqDepth,         \* depth of litlenStream, matchlenStream, offsetStream (16)
          LitDepth,         \* depth of litStream                         (256)
          InfoDepth,        \* depth of lzInfoStream                        (4)
          Files             \* the files: sequences of blocks
                            \*   [stored |-> BOOLEAN, seqs |-> sequence of runs]
                            \* a run is [lits, len, dist], len = 0 in the last

ASSUME DecoderAssumption ==
    /\ {PARALLEL_BYTES, SeqDepth, LitDepth, InfoDepth} \subseteq Nat \ {0}
    /\ PARALLEL_BYTES > 1 /\ RamLag \in Nat
    /\ HISTORY_SIZE = OffBase * OffBase
    /\ HISTORY_SIZE % (8 * PARALLEL_BYTES) = 0

PB == PARALLEL_BYTES

-----------------------------------------------------------------------------
(* The files: their bytes, and what they decode to *)

ExtensionBytes(n) ==
    IF ~Extended(n) THEN <<>>
    ELSE [k \in 1..(n - TokenMax) \div LenMax |-> LenByte(LenMax)]
             \o <<LenByte((n - TokenMax) % LenMax)>>

\* One run behind what is there; literals are numbered through the file.
AddRun(stored, acc, run) ==
    LET lits == [k \in 1..run.lits |-> acc.lits + k]
        m == IF run.len = 0 THEN 0 ELSE run.len - MinMatch
        before == acc.text \o lits
        n == Len(before)
    IN  [lits |-> acc.lits + run.lits,
         text |-> before \o [k \in 1..run.len |-> before[n - run.dist + 1 + ((k - 1) % run.dist)]],
         bytes |-> acc.bytes \o
             (IF stored THEN [k \in DOMAIN lits |-> Literal(lits[k])]
              ELSE <<Token(Nibble(run.lits), Nibble(m))>> \o ExtensionBytes(run.lits)
                   \o [k \in DOMAIN lits |-> Literal(lits[k])]
                   \o (IF run.len = 0 THEN <<>>
                       ELSE <<OffByte(LowHalf(run.dist)), OffByte(HighHalf(run.dist))>>
                            \o ExtensionBytes(m)))]

Junk == <<"junk", 0, 0>>

\* The bytes of a block in words, the last one filled up.
CutInWords(bytes) ==
    [w \in 1..(Len(bytes) + PB - 1) \div PB |->
        [k \in 1..PB |-> IF (w - 1) * PB + k <= Len(bytes) THEN bytes[(w - 1) * PB + k]
                         ELSE Junk]]

AddBlock(acc, block) ==
    LET runs == FoldLeft(LAMBDA a, run : AddRun(block.stored, a, run),
                         [lits |-> acc.lits, text |-> acc.text, bytes |-> <<>>],
                         block.seqs)
    IN  [lits |-> runs.lits, text |-> runs.text,
         words |-> acc.words \o CutInWords(runs.bytes),
         infos |-> Append(acc.infos, [compressedSize |-> Len(runs.bytes),
                                      storedBlock |-> block.stored])]

Compiled(file) == FoldLeft(AddBlock, [lits |-> 0, text |-> <<>>, words |-> <<>>, infos |-> <<>>],
                           file)

-----------------------------------------------------------------------------

VARIABLES
    text,                                             \* what the file decodes to
    inStream, blockInfoStream,
    mpc, bInfo, next_state, token_match_len, lit_len, match_len, offset,
    input_window, input_index, readBytes, processedBytes,   \* lz4MultiByteDecompress
    seqStream, litStream,
    ppc, litlen, matchlen, off, litCount,             \* lzPreProcessingUnitLL
    infoStream,
    lpc, info, output_window, output_index, write_idx,
    regHistory, ramHistory, flying,                   \* lzMultiByteDecompressLL
    outStream

blockVars == <<bInfo, next_state, token_match_len, lit_len, match_len, offset,
               input_window, input_index, readBytes, processedBytes>>
multiVars == <<mpc, blockVars, inStream, blockInfoStream>>
preVars == <<ppc, litlen, matchlen, off, litCount>>
copyVars == <<lpc, info, output_window, output_index, write_idx,
              regHistory, ramHistory, flying>>
vars == <<text, multiVars, seqStream, litStream, preVars, infoStream, copyVars, outStream>>

LowOffset == 6 * PB
c_regHistWords == 2 * (LowOffset \div (2 * PB) + 1)   \* two banks of c_regHistSize
c_ramHistWords == HISTORY_SIZE \div PB                \* two banks of c_ramHistSize
NoWord == [k \in 1..PB |-> 0]
NoWrite == <<>>
EndOfStream == [bytes |-> NoWord, count |-> 0]
NoInfo == [compressedSize |-> 0, storedBlock |-> FALSE]

Init == /\ \E file \in Files :
              LET c == Compiled(file)
              IN  /\ text = c.text
                  /\ inStream = c.words
                  /\ blockInfoStream = Append(c.infos, NoInfo)
        /\ mpc = "info" /\ bInfo = NoInfo /\ next_state = "READ_TOKEN"
        /\ token_match_len = 0 /\ lit_len = 0 /\ match_len = 0 /\ offset = 0
        /\ input_window = <<>> /\ input_index = 0 /\ readBytes = 0 /\ processedBytes = 0
        /\ seqStream = <<>> /\ litStream = <<>>
        /\ ppc = "first" /\ litlen = 0 /\ matchlen = 0 /\ off = 0 /\ litCount = 0
        /\ infoStream = <<>>
        /\ lpc = "first" /\ info = <<0, 0, 0, FALSE, "literal">>
        /\ output_window = NoWord \o NoWord /\ output_index = 0 /\ write_idx = 0
        /\ regHistory = [w \in 0..c_regHistWords - 1 |-> NoWord]
        /\ ramHistory = [w \in 0..c_ramHistWords - 1 |-> NoWord]
        /\ flying = [k \in 1..RamLag |-> NoWrite]
        /\ outStream = <<>>

-----------------------------------------------------------------------------
(* lz4MultiByteDecompress *)

WriteSeq(l, m, o) == /\ Len(seqStream) < SeqDepth
                     /\ seqStream' = Append(seqStream, <<l, m, o>>)

NextBlock ==
    /\ mpc = "info"
    /\ blockInfoStream # <<>>
    /\ LET b == Head(blockInfoStream)
       IN  /\ bInfo' = b /\ blockInfoStream' = Tail(blockInfoStream)
           /\ IF b.compressedSize # 0 /\ b.storedBlock
              THEN /\ WriteSeq(b.compressedSize, 0, 0)
                   /\ lit_len' = b.compressedSize /\ next_state' = "READ_LITERAL"
              ELSE UNCHANGED seqStream /\ lit_len' = 0 /\ next_state' = "READ_TOKEN"
           /\ mpc' = IF b.compressedSize = 0 THEN "end" ELSE "preread"
    /\ token_match_len' = 0 /\ match_len' = 0
    /\ input_index' = 0 /\ processedBytes' = 0 /\ readBytes' = 2 * PB
    /\ UNCHANGED <<text, offset, input_window, inStream, litStream, preVars, infoStream,
                   copyVars, outStream>>

\* mutant: a block of exactly one word is taken to have two
numItr_Less == IF bInfo.compressedSize < PB THEN 1 ELSE 2
numItr == IF bInfo.compressedSize <= PB THEN 1 ELSE 2

PreRead ==
    /\ mpc = "preread"
    /\ Len(inStream) >= numItr
    /\ input_window' = inStream[1] \o (IF numItr = 2 THEN inStream[2]
                                       ELSE [k \in 1..PB |-> Junk])
    /\ inStream' = SubSeq(inStream, numItr + 1, Len(inStream))
    /\ mpc' = "loop"
    /\ UNCHANGED <<text, bInfo, next_state, token_match_len, lit_len, match_len, offset,
                   input_index, readBytes, processedBytes, blockInfoStream, seqStream, litStream,
                   preVars, infoStream, copyVars, outStream>>

InBlock == mpc = "loop" /\ processedBytes + input_index < bInfo.compressedSize
Here(k) == input_window[input_index + k]
Value == Here(1)[2]

\* The window moves on by a word once the first one is used up.
Advance(incr) ==
    IF input_index + incr >= PB
    THEN /\ input_index' = input_index + incr - PB
         /\ processedBytes' = processedBytes + PB
         /\ IF readBytes < bInfo.compressedSize
            THEN /\ inStream # <<>>
                 /\ input_window' = SubSeq(input_window, PB + 1, 2 * PB) \o Head(inStream)
                 /\ inStream' = Tail(inStream)
                 /\ readBytes' = readBytes + PB
            ELSE /\ input_window' = SubSeq(input_window, PB + 1, 2 * PB)
                                        \o [k \in 1..PB |-> Junk]
                 /\ UNCHANGED <<inStream, readBytes>>
    ELSE /\ input_index' = input_index + incr
         /\ UNCHANGED <<processedBytes, input_window, inStream, readBytes>>

otherVars == <<text, mpc, bInfo, blockInfoStream, preVars, infoStream, copyVars, outStream>>

ReadToken ==
    /\ InBlock /\ next_state = "READ_TOKEN"
    /\ lit_len' = Value /\ token_match_len' = Here(1)[3]
    /\ IF Value = TokenMax THEN next_state' = "READ_LIT_LEN" /\ UNCHANGED seqStream
       ELSE IF Value # 0 THEN next_state' = "READ_LITERAL" /\ WriteSeq(Value, 0, 0)
       ELSE next_state' = "READ_OFFSET" /\ UNCHANGED seqStream
    /\ Advance(1)
    /\ UNCHANGED <<match_len, offset, litStream, otherVars>>

ReadLitLen ==
    /\ InBlock /\ next_state = "READ_LIT_LEN"
    /\ lit_len' = lit_len + Value
    /\ IF Value = LenMax THEN UNCHANGED <<next_state, seqStream>>
       ELSE next_state' = "READ_LITERAL" /\ WriteSeq(lit_len + Value, 0, 0)
    /\ Advance(1)
    /\ UNCHANGED <<token_match_len, match_len, offset, litStream, otherVars>>

ReadLiteral ==
    /\ InBlock /\ next_state = "READ_LITERAL"
    /\ Len(litStream) < LitDepth
    /\ litStream' = Append(litStream, [k \in 1..PB |-> Here(k)[2]])
    /\ IF lit_len <= PB THEN lit_len' = 0 /\ next_state' = "READ_OFFSET" /\ Advance(lit_len)
       ELSE lit_len' = lit_len - PB /\ UNCHANGED next_state /\ Advance(PB)
    /\ UNCHANGED <<token_match_len, match_len, offset, seqStream, otherVars>>

ReadOffset ==
    /\ InBlock /\ next_state = "READ_OFFSET"
    /\ LET o == Here(1)[2] + OffBase * Here(2)[2]
           m == token_match_len + MinMatch
       IN  /\ offset' = o /\ match_len' = m
           /\ IF token_match_len = TokenMax
              THEN next_state' = "READ_MATCH_LEN" /\ UNCHANGED seqStream
              ELSE next_state' = "READ_TOKEN" /\ WriteSeq(0, m, o)
    /\ Advance(2)
    /\ UNCHANGED <<token_match_len, lit_len, litStream, otherVars>>

ReadMatchLen ==
    /\ InBlock /\ next_state = "READ_MATCH_LEN"
    /\ match_len' = match_len + Value
    /\ IF Value = LenMax THEN UNCHANGED <<next_state, seqStream>>
       ELSE next_state' = "READ_TOKEN" /\ WriteSeq(0, match_len + Value, offset)
    /\ Advance(1)
    /\ UNCHANGED <<token_match_len, lit_len, offset, litStream, otherVars>>

EndOfBlock ==
    /\ mpc = "loop" /\ ~(processedBytes + input_index < bInfo.compressedSize)
    /\ mpc' = "info"
    /\ UNCHANGED <<text, blockVars, inStream, blockInfoStream, seqStream, litStream, preVars,
                   infoStream, copyVars, outStream>>

\* One more size is taken off the stream if one is there by now.
EndOfFile ==
    /\ mpc = "end"
    /\ blockInfoStream' = IF blockInfoStream = <<>> THEN <<>> ELSE Tail(blockInfoStream)
    /\ WriteSeq(0, 0, 0)
    /\ mpc' = "done"
    /\ UNCHANGED <<text, blockVars, inStream, litStream, preVars, infoStream, copyVars, outStream>>

lz4MultiByteDecompress ==
    \/ NextBlock \/ PreRead \/ EndOfBlock \/ EndOfFile
    \/ ReadToken \/ ReadLitLen \/ ReadLiteral \/ ReadOffset \/ ReadMatchLen

-----------------------------------------------------------------------------
(* lzPreProcessingUnitLL; a chunk is <<location, match length, literal     *)
(* length, near, state>>.                                                  *)

WriteInfo(loc, m, l, near, state) ==
    /\ Len(infoStream) < InfoDepth
    /\ infoStream' = Append(infoStream, <<loc, m, l, near, state>>)

\* The two reads: before the loop and when a run or match is used up.
FetchSeq ==
    /\ ppc \in {"first", "fetch"}
    /\ seqStream # <<>>
    /\ LET s == Head(seqStream)
       IN  /\ litlen' = s[1] /\ matchlen' = s[2] /\ off' = s[3]
           /\ litCount' = (litCount + s[1]) % HISTORY_SIZE
           /\ ppc' = IF (ppc = "first" /\ s[1] = 0) \/ (s[1] = 0 /\ s[2] = 0) THEN "end"
                     ELSE "loop"
    /\ seqStream' = Tail(seqStream)
    /\ UNCHANGED <<text, multiVars, litStream, infoStream, copyVars, outStream>>

AtMost(n, bound) == IF n > bound THEN bound ELSE n

LiteralChunk ==
    /\ ppc = "loop" /\ litlen > 0
    /\ LET val == AtMost(litlen, PB)
       IN  /\ litlen' = litlen - val
           /\ WriteInfo(0, 0, val, FALSE, "literal")
           /\ ppc' = IF matchlen > 0 \/ litlen > val THEN "loop" ELSE "fetch"
    /\ UNCHANGED <<text, multiVars, seqStream, litStream, matchlen, off, litCount,
                   copyVars, outStream>>

\* A match that overlaps itself is copied a period at a time, and the period
\* doubles until it fills a word.
ChunkLength == AtMost(matchlen, IF off > PB THEN PB ELSE off)

\* mutant: the registers are taken to hold eight words behind the current one
Near_Far(o) == o < 8 * PB
Near(o) == o < LowOffset

MatchChunk ==
    /\ ppc = "loop" /\ litlen = 0
    /\ WriteInfo((litCount - off) % HISTORY_SIZE, ChunkLength, 0, Near(off), "match")
    /\ off' = IF off < PB THEN 2 * off ELSE off
    /\ litCount' = (litCount + ChunkLength) % HISTORY_SIZE
    /\ matchlen' = matchlen - ChunkLength
    /\ ppc' = IF matchlen > ChunkLength THEN "loop" ELSE "fetch"
    /\ UNCHANGED <<text, multiVars, seqStream, litStream, litlen, copyVars, outStream>>

EndChunk ==
    /\ ppc = "end"
    /\ WriteInfo(0, 0, 0, FALSE, "end")
    /\ ppc' = "done"
    /\ UNCHANGED <<text, multiVars, seqStream, litStream, litlen, matchlen, off, litCount,
                   copyVars, outStream>>

lzPreProcessingUnitLL == FetchSeq \/ LiteralChunk \/ MatchChunk \/ EndChunk

-----------------------------------------------------------------------------
(* lzMultiByteDecompressLL *)

FirstInfo ==
    /\ lpc = "first"
    /\ infoStream # <<>>
    /\ info' = Head(infoStream) /\ infoStream' = Tail(infoStream)
    /\ lpc' = IF Head(infoStream)[3] = 0 THEN "flush" ELSE "copy"
    /\ UNCHANGED <<text, multiVars, seqStream, litStream, preVars, output_window, output_index,
                   write_idx, regHistory, ramHistory, flying, outStream>>

\* What a read of the RAM may return: the word before or after a write in flight.
RamReads(w) == {ramHistory[w]} \cup {flying[k][2] : k \in {j \in 1..RamLag :
                                          flying[j] # NoWrite /\ flying[j][1] = w}}

\* The PARALLEL_BYTES bytes at a location, from two neighbouring words.
MatchValues ==
    LET read_idx == info[1] \div PB
        byte_loc == info[1] % PB
        Both == IF info[4]
                THEN {regHistory[read_idx % c_regHistWords]
                          \o regHistory[(read_idx + 1) % c_regHistWords]}
                ELSE {low \o high : low \in RamReads(read_idx % c_ramHistWords),
                                    high \in RamReads((read_idx + 1) % c_ramHistWords)}
    IN  {SubSeq(both, byte_loc + 1, byte_loc + PB) : both \in Both}

Low(window) == SubSeq(window, 1, PB)
High(window) == SubSeq(window, PB + 1, 2 * PB)

\* The chunk goes behind what the window holds; both words of the window go to
\* the registers, a full first word to the RAM.
Copy ==
    /\ lpc = "copy"
    /\ IF info[5] = "literal" THEN litStream # <<>> /\ litStream' = Tail(litStream)
       ELSE UNCHANGED litStream
    /\ \E outValue \in (IF info[5] = "literal" THEN {Head(litStream)} ELSE MatchValues) :
          LET window == [k \in 1..2 * PB |->
                            IF k \in output_index + 1..output_index + PB
                            THEN outValue[k - output_index] ELSE output_window[k]]
              index == output_index + (IF info[5] = "literal" THEN info[3] ELSE info[2])
              word == write_idx % c_ramHistWords
          IN  /\ output_window' = window /\ output_index' = index
              /\ regHistory' = [regHistory EXCEPT
                     ![write_idx % c_regHistWords] = Low(window),
                     ![(write_idx + 1) % c_regHistWords] = High(window)]
              /\ flying' = Tail(Append(flying, IF index >= PB THEN <<word, Low(window)>>
                                               ELSE NoWrite))
    /\ ramHistory' = IF Head(flying) = NoWrite THEN ramHistory
                     ELSE [ramHistory EXCEPT ![Head(flying)[1]] = Head(flying)[2]]
    /\ lpc' = "next"
    /\ UNCHANGED <<text, multiVars, seqStream, preVars, infoStream, info, write_idx, outStream>>

\* The next chunk is read; a full word goes out.
NextInfo ==
    /\ lpc = "next"
    /\ infoStream # <<>>
    /\ info' = Head(infoStream) /\ infoStream' = Tail(infoStream)
    /\ lpc' = IF Head(infoStream)[5] = "end" THEN "flush" ELSE "copy"
    /\ IF output_index >= PB
       THEN /\ outStream' = Append(outStream, [bytes |-> Low(output_window), count |-> PB])
            /\ write_idx' = (write_idx + 1) % HISTORY_SIZE
            /\ output_window' = High(output_window) \o NoWord
            /\ output_index' = output_index - PB
       ELSE UNCHANGED <<outStream, write_idx, output_window, output_index>>
    /\ UNCHANGED <<text, multiVars, seqStream, litStream, preVars,
                   regHistory, ramHistory, flying>>

Flush ==
    /\ lpc = "flush"
    /\ outStream' = outStream
           \o (IF output_index = 0 THEN <<>>
               ELSE << [bytes |-> Low(output_window), count |-> output_index] >>)
           \o <<EndOfStream>>
    /\ lpc' = "done"
    /\ UNCHANGED <<text, multiVars, seqStream, litStream, preVars, infoStream, info,
                   output_window, output_index, write_idx, regHistory, ramHistory, flying>>

lzMultiByteDecompressLL == FirstInfo \/ Copy \/ NextInfo \/ Flush

-----------------------------------------------------------------------------

Returned == mpc = "done" /\ ppc = "done" /\ lpc = "done"
Finished == Returned /\ UNCHANGED vars

Next == lz4MultiByteDecompress \/ lzPreProcessingUnitLL \/ lzMultiByteDecompressLL \/ Finished

\* A process of a dataflow region that can go on goes on; one that cannot is
\* passed over, so that it is enough to ask that some process does.
Fairness == WF_vars(Next)

Spec == Init /\ [][Next]_vars /\ Fairness

-----------------------------------------------------------------------------
(* Properties *)

Output == FlattenSeq([w \in DOMAIN outStream |->
                         SubSeq(outStream[w].bytes, 1, outStream[w].count)])

\* The decoder puts out what the file says, byte for byte, whatever the pieces:
\* a run or match cut at word boundaries, a match that overlaps itself, one that
\* reads the word still being filled, one at the border between registers and
\* RAM or at the full distance of the window, whatever write is in flight.  Once
\* all have returned nothing is left on a stream for the next call.
OutputIsDecoded ==
    /\ IsPrefix(Output, text)
    /\ Returned => /\ Output = text
                   /\ outStream[Len(outStream)] = EndOfStream
                   /\ <<inStream, blockInfoStream, seqStream, litStream, infoStream>>
                        = <<<<>>, <<>>, <<>>, <<>>, <<>>>>

\* The call returns: the words read ahead of a block are words of that block, the
\* chunks ask for as many literal words as are sent, and the end is passed on.
CallReturns == <>Returned
=============================================================================
