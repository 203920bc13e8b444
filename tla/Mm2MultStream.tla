---------------------------- MODULE Mm2MultStream ----------------------------
(***************************************************************************)
(* mm2multStreamSize (mm2s.hpp): one process reads the blocks of all lanes *)
(* from memory, a burst of one lane after a burst of another, and polls    *)
(* the lanes with full(); one downsizer for each lane cuts the words into  *)
(* bytes for its core.  A burst goes to the data FIFO first and is         *)
(* announced on the size FIFO afterwards, so the data FIFO must hold a     *)
(* burst nobody has been told of, and a lane whose data FIFO is full stops *)
(* the process for all lanes.                                              *)
(*                                                                         *)
(* A word of memory is stood for by its address, a byte by the address of  *)
(* the byte.  A FIFO is the sequence of all it was given in the call and a *)
(* counter of what was read.                                               *)
(***************************************************************************)
EXTENDS Integers, Sequences

CONSTANTS NUM_BLOCKS,   \* lanes                                     (8)
          BURST_SIZE,   \* words of a burst                          (16)
          WordSize,     \* c_wordSize and factor: bytes of a word    (64)
          DataDepth,    \* depth of outStreamV          (2 * BURST_SIZE)
          SizeDepth,    \* depth of outStreamVSize                   (3)
          OutDepth,     \* depth of the core's inStream (c_gmemBurstSize * 4)
          BlockWords,   \* max_block_size, in words                 (1024)
          InputSizes    \* the block sizes a lane may be given

ASSUME LanesAssumption ==
    /\ NUM_BLOCKS \in Nat \ {0}
    /\ BURST_SIZE \in Nat \ {0} /\ WordSize \in Nat \ {0}
    /\ DataDepth \in Nat \ {0} /\ SizeDepth \in Nat \ {0} /\ OutDepth \in Nat \ {0}
    /\ BlockWords \in Nat
    /\ InputSizes # {} /\ InputSizes \subseteq 0..BlockWords * WordSize
    /\ BURST_SIZE * WordSize < 65536     \* a size is a uint16_t

Lanes == 0..NUM_BLOCKS - 1
PerLane(x) == [v \in Lanes |-> x]

VARIABLES
    input_size,     \* bytes of each lane's block
    \* mm2multStreamSimple
    pc, vid, is_pending, read_idx, read_size, burstSize, midx,
    \* its FIFOs to each downsizer
    outStreamV, wordsRead, outStreamVSize, sizesRead,
    \* mm2multStreamDownSizer, one for each lane
    dpc, inSize, itr, inBuffer,
    \* the stream to each core
    outStream, bytesRead

simpleVars == <<pc, vid, is_pending, read_idx, read_size, burstSize, midx>>
downVars == <<dpc, inSize, itr, inBuffer>>
vars == <<input_size, simpleVars, outStreamV, wordsRead, outStreamVSize, sizesRead,
          downVars, outStream, bytesRead>>

\* Where lz4CompressMM puts the blocks, in words: one after the other, each in
\* the space of a largest one; a lane without a block reads from 0.
Base(v) == v * BlockWords
InputIdx(sizes, v) == IF sizes[v] = 0 THEN 0 ELSE Base(v)

\* A size on the size FIFO.  `upto' is history: how many words had been
\* written to the lane's data FIFO when the size was.
Size(bytes, upto) == [bytes |-> bytes, upto |-> upto]

DataRoom(v) == Len(outStreamV[v]) - wordsRead[v] < DataDepth
\* outSizeStream[vid].full()
Full(v) == Len(outStreamVSize[v]) - sizesRead[v] >= SizeDepth
OutRoom(v) == Len(outStream[v]) - bytesRead[v] < OutDepth

-----------------------------------------------------------------------------
(* The start of a call *)

Init == /\ input_size \in [Lanes -> InputSizes]
        /\ pc = "poll" /\ vid = 0 /\ is_pending = PerLane(TRUE)
        /\ read_idx = [v \in Lanes |-> InputIdx(input_size, v)]
        /\ read_size = PerLane(0) /\ burstSize = 0 /\ midx = 0
        /\ outStreamV = PerLane(<<>>) /\ wordsRead = PerLane(0)
        /\ outStreamVSize = PerLane(<<>>) /\ sizesRead = PerLane(0)
        /\ dpc = PerLane("size") /\ inSize = PerLane(0) /\ itr = PerLane(0)
        /\ inBuffer = PerLane(0)
        /\ outStream = PerLane(<<>>) /\ bytesRead = PerLane(0)

Left(fifo, read) == [v \in Lanes |-> SubSeq(fifo[v], read[v] + 1, Len(fifo[v]))]

\* Every process has returned and the cores have read their blocks.
Returned == /\ pc = "done"
            /\ \A v \in Lanes : dpc[v] = "done" /\ bytesRead[v] >= input_size[v]

\* The next call, from the loop of lz4CompressMM; FIFOs keep what is in them.
NextCall == /\ Returned
            /\ input_size' \in [Lanes -> InputSizes]
            /\ pc' = "poll" /\ vid' = 0 /\ is_pending' = PerLane(TRUE)
            /\ read_idx' = [v \in Lanes |-> InputIdx(input_size', v)]
            /\ read_size' = PerLane(0) /\ burstSize' = 0 /\ midx' = 0
            /\ dpc' = PerLane("size") /\ inSize' = PerLane(0) /\ itr' = PerLane(0)
            /\ inBuffer' = PerLane(0)
            /\ outStreamV' = Left(outStreamV, wordsRead) /\ wordsRead' = PerLane(0)
            /\ outStreamVSize' = Left(outStreamVSize, sizesRead) /\ sizesRead' = PerLane(0)
            /\ outStream' = Left(outStream, bytesRead) /\ bytesRead' = PerLane(0)

-----------------------------------------------------------------------------
(* mm2multStreamSimple *)

Pending(v) == IF input_size[v] > read_size[v] THEN input_size[v] - read_size[v] ELSE 0

\* What is left of the burst of lane v that starts now.
PendingWords(v) == (Pending(v) - 1) \div WordSize + 1
\* mutant: a burst is not bounded
BurstOf_Unbounded(v) == PendingWords(v)
BurstOf(v) == IF PendingWords(v) > BURST_SIZE THEN BURST_SIZE ELSE PendingWords(v)

\* The next lane; after the last one the while condition is tested.
Advance(pending) ==
    IF vid < NUM_BLOCKS - 1 THEN vid' = vid + 1 /\ pc' = "poll"
    ELSE /\ vid' = 0
         /\ pc' = IF \E v \in Lanes : pending[v] THEN "poll" ELSE "size_init"

\* Nothing is left to read for this lane, or its size FIFO is full.
Skip == /\ pc = "poll"
        /\ Pending(vid) = 0 \/ Full(vid)
        /\ is_pending' = [is_pending EXCEPT ![vid] = Pending(vid) > 0]
        /\ Advance(is_pending')
        /\ UNCHANGED <<read_idx, read_size, burstSize, midx>>
        /\ UNCHANGED <<input_size, outStreamV, wordsRead, outStreamVSize, sizesRead,
                       downVars, outStream, bytesRead>>

StartBurst == /\ pc = "poll"
              /\ Pending(vid) > 0 /\ ~Full(vid)
              /\ is_pending' = [is_pending EXCEPT ![vid] = TRUE]
              /\ burstSize' = BurstOf(vid)
              /\ midx' = 0
              /\ pc' = "burst"
              /\ UNCHANGED <<vid, read_idx, read_size>>
              /\ UNCHANGED <<input_size, outStreamV, wordsRead, outStreamVSize, sizesRead,
                             downVars, outStream, bytesRead>>

GmemRead == /\ pc = "burst"
            /\ midx < burstSize
            /\ DataRoom(vid)
            /\ outStreamV' = [outStreamV EXCEPT ![vid] = Append(@, read_idx[vid] + midx)]
            /\ midx' = midx + 1
            /\ UNCHANGED <<pc, vid, is_pending, read_idx, read_size, burstSize>>
            /\ UNCHANGED <<input_size, wordsRead, outStreamVSize, sizesRead,
                           downVars, outStream, bytesRead>>

\* mutant: the last burst is announced with the size of its words
Announced_Whole(v) == burstSize * WordSize
\* The size announced: that of the burst, or what is left of the block.
Announced(v) == IF read_size[v] + burstSize * WordSize < input_size[v]
                THEN burstSize * WordSize
                ELSE input_size[v] - read_size[v]

\* mutant: the burst is announced before its last word
BurstWritten_Early == midx + 1 >= burstSize
BurstWritten == midx = burstSize

Announce == /\ pc = "burst"
            /\ BurstWritten
            /\ ~Full(vid)
            /\ outStreamVSize' = [outStreamVSize EXCEPT ![vid] =
                                      Append(@, Size(Announced(vid), Len(outStreamV[vid])))]
            /\ read_idx' = [read_idx EXCEPT ![vid] = @ + burstSize]
            /\ read_size' = [read_size EXCEPT ![vid] = @ + Announced(vid)]
            /\ Advance(is_pending)
            /\ UNCHANGED <<is_pending, burstSize, midx>>
            /\ UNCHANGED <<input_size, outStreamV, wordsRead, sizesRead,
                           downVars, outStream, bytesRead>>

\* The loop size_init: a size of zero to every lane.
SizeInit == /\ pc = "size_init"
            /\ ~Full(vid)
            /\ outStreamVSize' = [outStreamVSize EXCEPT ![vid] =
                                      Append(@, Size(0, Len(outStreamV[vid])))]
            /\ IF vid < NUM_BLOCKS - 1 THEN vid' = vid + 1 /\ pc' = pc
               ELSE vid' = vid /\ pc' = "done"
            /\ UNCHANGED <<is_pending, read_idx, read_size, burstSize, midx>>
            /\ UNCHANGED <<input_size, outStreamV, wordsRead, sizesRead,
                           downVars, outStream, bytesRead>>

mm2multStreamSimple == Skip \/ StartBurst \/ GmemRead \/ Announce \/ SizeInit

-----------------------------------------------------------------------------
(* mm2multStreamDownSizer *)

\* mutant: the words of a burst are counted instead of its bytes, rounded down
OutSizeV_Down(v) == (inSize[v] \div WordSize) * WordSize
\* (inSize - 1) / c_outWord + 1, where c_outWord is 1.
OutSizeV(v) == inSize[v]

ReadSize(v) ==
    /\ dpc[v] = "size"
    /\ sizesRead[v] < Len(outStreamVSize[v])
    /\ sizesRead' = [sizesRead EXCEPT ![v] = @ + 1]
    /\ LET size == outStreamVSize[v][sizesRead[v] + 1].bytes
       IN  /\ inSize' = [inSize EXCEPT ![v] = size]
           /\ dpc' = [dpc EXCEPT ![v] = IF size = 0 THEN "done" ELSE "bytes"]
    /\ itr' = [itr EXCEPT ![v] = 0]
    /\ UNCHANGED <<input_size, simpleVars, outStreamV, wordsRead, outStreamVSize,
                   inBuffer, outStream, bytesRead>>

\* mutant: a new word is fetched for the first byte of a burst only
NeedsWord_First(v) == itr[v] = 0
NeedsWord(v) == itr[v] % WordSize = 0
Buffer(v) == IF NeedsWord(v) THEN outStreamV[v][wordsRead[v] + 1] ELSE inBuffer[v]

\* One iteration: a word is read when the buffer is used up, a byte is written.
Downsize(v) ==
    /\ dpc[v] = "bytes"
    /\ itr[v] < OutSizeV(v)
    /\ NeedsWord(v) => wordsRead[v] < Len(outStreamV[v])
    /\ OutRoom(v)
    /\ wordsRead' = [wordsRead EXCEPT ![v] = IF NeedsWord(v) THEN @ + 1 ELSE @]
    /\ inBuffer' = [inBuffer EXCEPT ![v] = Buffer(v)]
    /\ outStream' = [outStream EXCEPT ![v] =
                         Append(@, Buffer(v) * WordSize + (itr[v] % WordSize))]
    /\ itr' = [itr EXCEPT ![v] = @ + 1]
    /\ UNCHANGED <<input_size, simpleVars, outStreamV, outStreamVSize, sizesRead,
                   dpc, inSize, bytesRead>>

BurstEnd(v) ==
    /\ dpc[v] = "bytes"
    /\ itr[v] >= OutSizeV(v)
    /\ dpc' = [dpc EXCEPT ![v] = "size"]
    /\ UNCHANGED <<input_size, simpleVars, outStreamV, wordsRead, outStreamVSize, sizesRead,
                   inSize, itr, inBuffer, outStream, bytesRead>>

mm2multStreamDownSizer(v) == ReadSize(v) \/ Downsize(v) \/ BurstEnd(v)

-----------------------------------------------------------------------------
(* The core of the lane: reads its block, a byte at a time *)

CoreRead(v) ==
    /\ bytesRead[v] < input_size[v]
    /\ bytesRead[v] < Len(outStream[v])
    /\ bytesRead' = [bytesRead EXCEPT ![v] = @ + 1]
    /\ UNCHANGED <<input_size, simpleVars, outStreamV, wordsRead, outStreamVSize, sizesRead,
                   downVars, outStream>>

Next == \/ mm2multStreamSimple
        \/ \E v \in Lanes : mm2multStreamDownSizer(v) \/ CoreRead(v)
        \/ NextCall

(***************************************************************************)
(* Each process is a circuit that steps as soon as its FIFOs allow it.     *)
(* The core is the consumer: it may take its time but reads its block      *)
(* in the end, since nothing it writes is held up for good (MultStream2Mm).*)
(* That there is another call is not assumed.                              *)
(***************************************************************************)
Fairness == /\ WF_vars(mm2multStreamSimple)
            /\ \A v \in Lanes : WF_vars(mm2multStreamDownSizer(v)) /\ WF_vars(CoreRead(v))

Spec == Init /\ [][Next]_vars /\ Fairness

-----------------------------------------------------------------------------
(* Properties *)

Sizes == [bytes : Nat, upto : Nat]

\* Registers and FIFOs hold values of their kind, and no FIFO is read past
\* what was written to it.
TypeOK ==
    /\ input_size \in [Lanes -> InputSizes]
    /\ pc \in {"poll", "burst", "size_init", "done"}
    /\ vid \in Lanes
    /\ is_pending \in [Lanes -> BOOLEAN]
    /\ read_idx \in [Lanes -> Nat]
    /\ read_size \in [Lanes -> Nat] /\ \A v \in Lanes : read_size[v] <= input_size[v]
    /\ burstSize \in Nat /\ midx \in 0..burstSize
    /\ outStreamV \in [Lanes -> Seq(Nat)] /\ outStreamVSize \in [Lanes -> Seq(Sizes)]
    /\ wordsRead \in [Lanes -> Nat] /\ sizesRead \in [Lanes -> Nat]
    /\ dpc \in [Lanes -> {"size", "bytes", "done"}]
    /\ inSize \in [Lanes -> Nat] /\ itr \in [Lanes -> Nat] /\ inBuffer \in [Lanes -> Nat]
    /\ outStream \in [Lanes -> Seq(Nat)] /\ bytesRead \in [Lanes -> Nat]
    /\ \A v \in Lanes : /\ wordsRead[v] <= Len(outStreamV[v])
                         /\ sizesRead[v] <= Len(outStreamVSize[v])
                         /\ bytesRead[v] <= Len(outStream[v])

\* A lane that holds up the process (a burst waits for room in its data FIFO)
\* has a downsizer with something to do: a size to read or a burst in hand.
\* Otherwise the process would wait for a downsizer that waits for the size
\* that is announced after the burst, and all lanes would stand still.
BurstNeverStuck ==
    (pc = "burst" /\ midx < burstSize /\ ~DataRoom(vid)) =>
        \/ (dpc[vid] = "size" /\ sizesRead[vid] < Len(outStreamVSize[vid]))
        \/ dpc[vid] = "bytes"

\* A downsizer is never kept waiting for a word of a burst it was told of, so
\* that only its core and a missing size can hold it up.
WordsComeFirst ==
    \A v \in Lanes : (dpc[v] = "bytes" /\ itr[v] < OutSizeV(v) /\ NeedsWord(v)) =>
                        wordsRead[v] < Len(outStreamV[v])

\* No lane keeps a word, a size or a byte for the next call.
NothingLeftBehind ==
    Returned => \A v \in Lanes : /\ wordsRead[v] = Len(outStreamV[v])
                                 /\ sizesRead[v] = Len(outStreamVSize[v])
                                 /\ bytesRead[v] = Len(outStream[v])

\* Each core receives the bytes of its own block, in order, exactly once, and
\* no lane is starved by the others: the specification LaneTransfer.
BlockBytes(v, n) == [k \in 1..n |-> Base(v) * WordSize + k - 1]
Transfer == INSTANCE LaneTransfer WITH
                Blocks <- [v \in Lanes |-> {BlockBytes(v, n) : n \in InputSizes}],
                MaxChunk <- 1,
                block <- [v \in Lanes |-> BlockBytes(v, input_size[v])],
                delivered <- [v \in Lanes |-> SubSeq(outStream[v], 1, bytesRead[v])]
ImplementsTransfer == Transfer!TransferSpec

\* Every call returns: all processes end, with all blocks read.
CallReturns == []<>Returned
=============================================================================
