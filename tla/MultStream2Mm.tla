---------------------------- MODULE MultStream2Mm ----------------------------
(***************************************************************************)
(* multStream2MM (s2mm.hpp): an upsizer for each lane packs the bytes of   *)
(* its core into words, and one process polls the lanes with empty() and   *)
(* writes a burst of one lane after a burst of another to memory.  The end *)
(* of a lane's bytes is a flag on a FIFO of its own, which the core sets   *)
(* beside a byte that does not count.  The words of a burst go to the data *)
(* FIFO before their size goes to the size FIFO.                           *)
(*                                                                         *)
(* A byte is stood for by the memory address it belongs at.  The FIFOs     *)
(* between upsizer and writer are the sequences of all they were given in  *)
(* the call with a counter of what was read; the others are their content. *)
(***************************************************************************)
EXTENDS Integers, Sequences

CONSTANTS NUM_BLOCK,    \* lanes                                     (8)
          BURST_SIZE,   \* words of a burst                          (16)
          WordSize,     \* c_upsizeFactor: bytes of a word           (64)
          DataDepth,    \* depth of outStreamV          (2 * BURST_SIZE)
          SizeDepth,    \* depth of outStreamVSize                   (2)
          OutDepth,     \* depth of the core's outStream (c_gmemBurstSize * 4)
          EosDepth,     \* depth of outStreamEos                     (4)
          BlockWords,   \* max_block_size, in words                 (1024)
          OutSizes      \* the compressed sizes a core may come to

ASSUME LanesAssumption ==
    /\ NUM_BLOCK \in Nat \ {0}
    /\ BURST_SIZE \in Nat \ {0} /\ WordSize \in Nat \ {0}
    /\ DataDepth \in Nat \ {0} /\ SizeDepth \in Nat \ {0}
    /\ OutDepth \in Nat \ {0} /\ EosDepth \in Nat \ {0}
    /\ BlockWords \in Nat
    /\ OutSizes # {} /\ OutSizes \subseteq 0..BlockWords * WordSize
    /\ BURST_SIZE * WordSize < 65536     \* a size is a uint16_t

Lanes == 0..NUM_BLOCK - 1
PerLane(x) == [v \in Lanes |-> x]

VARIABLES
    compressedSize,   \* bytes each core comes to in this call
    output_idx,       \* where in memory each lane's block goes, in words
    \* the end of each core (lz4CompressPart2) and its streams
    cpc, sent, inStream, inStreamEos, totalOutSizeStream,
    \* stream2mmUpsizer, one for each lane
    upc, inValue, outBuffer, byteIdx, sizeWrite,
    \* its FIFOs to multStream2mmSize
    outStreamV, wordsRead, outStreamVSize, sizesRead,
    \* multStream2mmSize
    pc, i, is_pending, readSize, j, write_size,
    \* memory and the sizes returned
    out, outSize

callVars  == <<compressedSize, output_idx>>
coreVars  == <<cpc, sent>>
coreFifos == <<inStream, inStreamEos>>
upVars    == <<upc, inValue, outBuffer, byteIdx, sizeWrite>>
dataFifo  == <<outStreamV, wordsRead>>
sizeFifo  == <<outStreamVSize, sizesRead>>
mmVars    == <<pc, i, is_pending, readSize, j, write_size>>
vars == <<callVars, coreVars, coreFifos, totalOutSizeStream, upVars, dataFifo, sizeFifo,
          mmVars, out, outSize>>

Words(bytes) == (bytes + WordSize - 1) \div WordSize

\* The space of a block in memory; lz4CompressMM lays the blocks out one after
\* the other, and no compressed block is larger than its input.
Base(v) == v * BlockWords
Addresses == 0..NUM_BLOCK * BlockWords - 1
Byte(v, k) == Base(v) * WordSize + k

NoByte == -1                            \* a byte nobody asked for
NoWord == [b \in 0..WordSize - 1 |-> NoByte]

\* A size on the size FIFO; `upto' is history: the words written before it.
Size(bytes, upto) == [bytes |-> bytes, upto |-> upto]

DataRoom(v) == Len(outStreamV[v]) - wordsRead[v] < DataDepth
SizeRoom(v) == Len(outStreamVSize[v]) - sizesRead[v] < SizeDepth

-----------------------------------------------------------------------------
(* The start of a call *)

\* A lane without a block keeps the output_idx of an earlier call, which may
\* be that of any other lane.
Layouts(sizes) == {b \in [Lanes -> {Base(v) : v \in Lanes}] :
                       \A v \in Lanes : sizes[v] > 0 => b[v] = Base(v)}

Init == /\ compressedSize \in [Lanes -> OutSizes]
        /\ output_idx \in Layouts(compressedSize)
        /\ cpc = PerLane("bytes") /\ sent = PerLane(0)
        /\ inStream = PerLane(<<>>) /\ inStreamEos = PerLane(<<>>)
        /\ totalOutSizeStream = PerLane(<<>>)
        /\ upc = PerLane("start") /\ inValue = PerLane(NoByte) /\ outBuffer = PerLane(NoWord)
        /\ byteIdx = PerLane(0) /\ sizeWrite = PerLane(0)
        /\ outStreamV = PerLane(<<>>) /\ wordsRead = PerLane(0)
        /\ outStreamVSize = PerLane(<<>>) /\ sizesRead = PerLane(0)
        /\ pc = "poll" /\ i = 0 /\ is_pending = PerLane(TRUE) /\ readSize = 0 /\ j = 0
        /\ write_size = PerLane(0)
        /\ out = [a \in Addresses |-> NoWord] /\ outSize = PerLane(0)

Returned == pc = "done" /\ \A v \in Lanes : cpc[v] = "done" /\ upc[v] = "done"

Left(fifo, read) == [v \in Lanes |-> SubSeq(fifo[v], read[v] + 1, Len(fifo[v]))]

\* The next call writes to another part of memory, so that `out' is fresh;
\* FIFOs keep what is in them.
NextCall ==
    /\ Returned
    /\ compressedSize' \in [Lanes -> OutSizes]
    /\ output_idx' \in Layouts(compressedSize')
    /\ cpc' = PerLane("bytes") /\ sent' = PerLane(0)
    /\ UNCHANGED <<coreFifos, totalOutSizeStream>>
    /\ upc' = PerLane("start") /\ inValue' = PerLane(NoByte) /\ outBuffer' = PerLane(NoWord)
    /\ byteIdx' = PerLane(0) /\ sizeWrite' = PerLane(0)
    /\ outStreamV' = Left(outStreamV, wordsRead) /\ wordsRead' = PerLane(0)
    /\ outStreamVSize' = Left(outStreamVSize, sizesRead) /\ sizesRead' = PerLane(0)
    /\ pc' = "poll" /\ i' = 0 /\ is_pending' = PerLane(TRUE) /\ readSize' = 0 /\ j' = 0
    /\ write_size' = PerLane(0)
    /\ out' = [a \in Addresses |-> NoWord] /\ outSize' = PerLane(0)

-----------------------------------------------------------------------------
(* The core: bytes with a cleared flag, then the total size, then a byte    *)
(* that does not count with the flag set (the end of lz4CompressPart2)      *)

\* A byte and its flag go out in one iteration.
Write(v, byte, eos) ==
    /\ Len(inStream[v]) < OutDepth /\ Len(inStreamEos[v]) < EosDepth
    /\ inStream' = [inStream EXCEPT ![v] = Append(@, byte)]
    /\ inStreamEos' = [inStreamEos EXCEPT ![v] = Append(@, eos)]

CoreByte(v) ==
    /\ cpc[v] = "bytes"
    /\ sent[v] < compressedSize[v]
    /\ Write(v, Byte(v, sent[v]), FALSE)
    /\ sent' = [sent EXCEPT ![v] = @ + 1]
    /\ UNCHANGED <<cpc, totalOutSizeStream, callVars, upVars, dataFifo, sizeFifo,
                   mmVars, out, outSize>>

TotalDepth == 2   \* compressedSize is a stream of the default depth
CoreTotal(v) ==
    /\ cpc[v] = "bytes"
    /\ sent[v] = compressedSize[v]
    /\ Len(totalOutSizeStream[v]) < TotalDepth
    /\ totalOutSizeStream' = [totalOutSizeStream EXCEPT ![v] = Append(@, sent[v])]
    /\ cpc' = [cpc EXCEPT ![v] = "last"]
    /\ UNCHANGED <<sent, callVars, coreFifos, upVars, dataFifo, sizeFifo, mmVars, out, outSize>>

CoreLast(v) ==
    /\ cpc[v] = "last"
    /\ Write(v, NoByte, TRUE)
    /\ cpc' = [cpc EXCEPT ![v] = "done"]
    /\ UNCHANGED <<sent, totalOutSizeStream, callVars, upVars, dataFifo, sizeFifo,
                   mmVars, out, outSize>>

Core(v) == CoreByte(v) \/ CoreTotal(v) \/ CoreLast(v)

-----------------------------------------------------------------------------
(* stream2mmUpsizer *)

Take(fifo, v) == fifo' = [fifo EXCEPT ![v] = Tail(@)]

FirstByte(v) ==
    /\ upc[v] = "start"
    /\ inStream[v] # <<>>
    /\ inValue' = [inValue EXCEPT ![v] = Head(inStream[v])]
    /\ Take(inStream, v)
    /\ upc' = [upc EXCEPT ![v] = "loop"]
    /\ UNCHANGED <<outBuffer, byteIdx, sizeWrite, inStreamEos, totalOutSizeStream,
                   callVars, coreVars, dataFifo, sizeFifo, mmVars, out, outSize>>

WordFull(v) == byteIdx[v] = WordSize

\* mutant: a burst may grow by one word
BurstFull_Late(v) == sizeWrite[v] = BURST_SIZE
BurstFull(v) == sizeWrite[v] + 1 = BURST_SIZE

PutWord(v) == /\ DataRoom(v)
              /\ outStreamV' = [outStreamV EXCEPT ![v] = Append(@, outBuffer[v])]
              /\ UNCHANGED wordsRead
PutSize(v, bytes) == /\ SizeRoom(v)
                     /\ outStreamVSize' = [outStreamVSize EXCEPT ![v] =
                                               Append(@, Size(bytes, Len(outStreamV'[v])))]
                     /\ UNCHANGED sizesRead

\* What an iteration does with a full word: out it goes, and with the last of
\* a burst the size of the burst.
PassOn(v) ==
    IF WordFull(v)
    THEN /\ PutWord(v)
         /\ IF BurstFull(v)
            THEN PutSize(v, BURST_SIZE * WordSize) /\ sizeWrite' = [sizeWrite EXCEPT ![v] = 0]
            ELSE UNCHANGED sizeFifo /\ sizeWrite' = [sizeWrite EXCEPT ![v] = @ + 1]
    ELSE UNCHANGED <<dataFifo, sizeFifo, sizeWrite>>

\* One iteration: the flag of the byte in hand is clear, the byte counts, and
\* the next one is read.
Upsize(v) ==
    /\ upc[v] = "loop"
    /\ inStreamEos[v] # <<>> /\ ~Head(inStreamEos[v])
    /\ inStream[v] # <<>>
    /\ PassOn(v)
    /\ LET at == IF WordFull(v) THEN 0 ELSE byteIdx[v]
       IN  /\ outBuffer' = [outBuffer EXCEPT ![v][at] = inValue[v]]
           /\ byteIdx' = [byteIdx EXCEPT ![v] = at + 1]
    /\ inValue' = [inValue EXCEPT ![v] = Head(inStream[v])]
    /\ Take(inStream, v) /\ Take(inStreamEos, v)
    /\ UNCHANGED <<upc, totalOutSizeStream, callVars, coreVars, mmVars, out, outSize>>

EndOfStream(v) ==
    /\ upc[v] = "loop"
    /\ inStreamEos[v] # <<>> /\ Head(inStreamEos[v])
    /\ Take(inStreamEos, v)
    /\ upc' = [upc EXCEPT ![v] = IF byteIdx[v] > 0 THEN "flush" ELSE "zero"]
    /\ UNCHANGED <<inValue, outBuffer, byteIdx, sizeWrite, inStream, totalOutSizeStream,
                   callVars, coreVars, dataFifo, sizeFifo, mmVars, out, outSize>>

\* After the loop: the word in hand, the size of the burst so far, a zero.
Flush(v) ==
    /\ upc[v] = "flush"
    /\ PutWord(v)
    /\ sizeWrite' = [sizeWrite EXCEPT ![v] = @ + 1]
    /\ upc' = [upc EXCEPT ![v] = "size"]
    /\ UNCHANGED <<inValue, outBuffer, byteIdx, coreFifos, totalOutSizeStream,
                   callVars, coreVars, sizeFifo, mmVars, out, outSize>>

\* mutant: the word in hand is counted twice
RestSize_Twice(v) == (sizeWrite[v] + 1) * WordSize
RestSize(v) == sizeWrite[v] * WordSize

LastSize(v) ==
    /\ upc[v] = "size"
    /\ UNCHANGED dataFifo
    /\ PutSize(v, RestSize(v))
    /\ upc' = [upc EXCEPT ![v] = "zero"]
    /\ UNCHANGED <<inValue, outBuffer, byteIdx, sizeWrite, coreFifos, totalOutSizeStream,
                   callVars, coreVars, mmVars, out, outSize>>

ZeroSize(v) ==
    /\ upc[v] = "zero"
    /\ UNCHANGED dataFifo
    /\ PutSize(v, 0)
    /\ upc' = [upc EXCEPT ![v] = "done"]
    /\ UNCHANGED <<inValue, outBuffer, byteIdx, sizeWrite, coreFifos, totalOutSizeStream,
                   callVars, coreVars, mmVars, out, outSize>>

stream2mmUpsizer(v) == \/ FirstByte(v) \/ Upsize(v) \/ EndOfStream(v)
                       \/ Flush(v) \/ LastSize(v) \/ ZeroSize(v)

-----------------------------------------------------------------------------
(* multStream2mmSize *)

\* The next lane; after the last one the while condition is tested.
Advance(pending) ==
    IF i < NUM_BLOCK - 1 THEN i' = i + 1 /\ pc' = "poll"
    ELSE /\ i' = 0
         /\ pc' = IF \E v \in Lanes : pending[v] THEN "poll" ELSE "totals"

NoSize(v) == sizesRead[v] = Len(outStreamVSize[v])

\* Nothing is announced for this lane.
Skip == /\ pc = "poll"
        /\ NoSize(i)
        /\ Advance(is_pending)
        /\ UNCHANGED <<is_pending, readSize, j, write_size>>
        /\ UNCHANGED <<callVars, coreVars, coreFifos, totalOutSizeStream, upVars, dataFifo,
                       sizeFifo, out, outSize>>

\* mutant: a lane counts as finished when it has nothing announced
StillPending_Idle(v, bytes) == bytes > 0 /\ sizesRead[v] + 1 < Len(outStreamVSize[v])
StillPending(v, bytes) == bytes > 0

ReadSize == /\ pc = "poll"
            /\ ~NoSize(i)
            /\ sizesRead' = [sizesRead EXCEPT ![i] = @ + 1]
            /\ LET bytes == outStreamVSize[i][sizesRead[i] + 1].bytes
               IN  /\ is_pending' = [is_pending EXCEPT ![i] = StillPending(i, bytes)]
                   /\ readSize' = Words(bytes)
                   /\ IF bytes > 0 THEN pc' = "write" /\ i' = i ELSE Advance(is_pending')
            /\ j' = 0
            /\ UNCHANGED <<write_size, outStreamVSize>>
            /\ UNCHANGED <<callVars, coreVars, coreFifos, totalOutSizeStream, upVars, dataFifo,
                           out, outSize>>

\* mutant: every burst goes to the start of the lane's block
Address_Base(v) == output_idx[v] + j
Address(v) == output_idx[v] + write_size[v] + j

GmemWrite == /\ pc = "write"
             /\ j < readSize
             /\ wordsRead[i] < Len(outStreamV[i])
             /\ wordsRead' = [wordsRead EXCEPT ![i] = @ + 1]
             /\ out' = [out EXCEPT ![Address(i)] = outStreamV[i][wordsRead[i] + 1]]
             /\ j' = j + 1
             /\ UNCHANGED <<pc, i, is_pending, readSize, write_size, outStreamV>>
             /\ UNCHANGED <<callVars, coreVars, coreFifos, totalOutSizeStream, upVars,
                            sizeFifo, outSize>>

BurstWritten == /\ pc = "write"
                /\ j >= readSize
                /\ write_size' = [write_size EXCEPT ![i] = @ + readSize]
                /\ Advance(is_pending)
                /\ UNCHANGED <<is_pending, readSize, j>>
                /\ UNCHANGED <<callVars, coreVars, coreFifos, totalOutSizeStream, upVars,
                               dataFifo, sizeFifo, out, outSize>>

\* The total sizes, one lane after the other.
ReadTotal == /\ pc = "totals"
             /\ totalOutSizeStream[i] # <<>>
             /\ outSize' = [outSize EXCEPT ![i] = Head(totalOutSizeStream[i])]
             /\ Take(totalOutSizeStream, i)
             /\ IF i < NUM_BLOCK - 1 THEN i' = i + 1 /\ pc' = pc ELSE i' = i /\ pc' = "done"
             /\ UNCHANGED <<is_pending, readSize, j, write_size>>
             /\ UNCHANGED <<callVars, coreVars, coreFifos, upVars, dataFifo, sizeFifo, out>>

multStream2mmSize == Skip \/ ReadSize \/ GmemWrite \/ BurstWritten \/ ReadTotal

Next == \/ multStream2mmSize
        \/ \E v \in Lanes : stream2mmUpsizer(v) \/ Core(v)
        \/ NextCall

(***************************************************************************)
(* Each process is a circuit that steps as soon as its FIFOs allow it; the *)
(* core ends its block once its input is there (Mm2MultStream) and its     *)
(* output is taken.  That there is another call is not assumed.            *)
(***************************************************************************)
Fairness == /\ WF_vars(multStream2mmSize)
            /\ \A v \in Lanes : WF_vars(stream2mmUpsizer(v)) /\ WF_vars(Core(v))

Spec == Init /\ [][Next]_vars /\ Fairness

-----------------------------------------------------------------------------
(* Properties *)

\* An upsizer that waits for room in its data FIFO has announced words the
\* writer has not written yet: a burst waiting in the size FIFO or in hand.
\* Otherwise it would wait for a writer that does not know of its words.
UpsizerNeverStuck ==
    \A v \in Lanes :
        (~DataRoom(v) /\ (upc[v] = "flush" \/ (upc[v] = "loop" /\ WordFull(v)))) =>
            ~NoSize(v) \/ (pc = "write" /\ i = v)

\* The writer is never kept waiting inside a burst: the words of a burst are
\* in the FIFO when its size is.  One slow lane cannot hold up the others.
WordsComeFirst == pc = "write" /\ j < readSize => wordsRead[i] < Len(outStreamV[i])

\* The writer ends with the size of every block in its own place, and nothing
\* is left in a FIFO for the next call.
NothingLeftBehind ==
    Returned => /\ outSize = compressedSize
                /\ \A v \in Lanes : /\ wordsRead[v] = Len(outStreamV[v]) /\ NoSize(v)
                                     /\ inStream[v] = <<>> /\ inStreamEos[v] = <<>>
                                     /\ totalOutSizeStream[v] = <<>>

\* Memory receives the bytes of each lane in the lane's own place, in order and
\* each once, whatever the other lanes do and wherever the idle ones would
\* write, and no lane is starved: the specification LaneTransfer.
WordsOut(v) == write_size[v] + IF pc = "write" /\ i = v THEN j ELSE 0
BytesOut(v) == IF WordsOut(v) * WordSize < compressedSize[v]
               THEN WordsOut(v) * WordSize ELSE compressedSize[v]
BytesAt(v, n) == [k \in 1..n |-> out[Base(v) + ((k - 1) \div WordSize)][(k - 1) % WordSize]]
BlockBytes(v, n) == [k \in 1..n |-> Byte(v, k - 1)]
Transfer == INSTANCE LaneTransfer WITH
                Blocks <- [v \in Lanes |-> {BlockBytes(v, n) : n \in OutSizes}],
                MaxChunk <- WordSize,
                block <- [v \in Lanes |-> BlockBytes(v, compressedSize[v])],
                delivered <- [v \in Lanes |-> BytesAt(v, BytesOut(v))]
ImplementsTransfer == Transfer!TransferSpec

\* Every call returns.
CallReturns == []<>Returned
=============================================================================
