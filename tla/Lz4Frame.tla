------------------------------- MODULE Lz4Frame -------------------------------
(***************************************************************************)
(* A file on its way through an LZ4 frame: the host cuts it into chunks    *)
(* (compressEngineSeq), the kernel cuts a chunk into blocks and compresses *)
(* NUM_BLOCK of them at a time (lz4CompressMM), the host writes each block *)
(* compressed or stored (writeCompressedBlock), and the decoder's          *)
(* lz4HeaderProcessing takes the frame apart again.                        *)
(*                                                                         *)
(* A byte is <<value, what>>: only the bytes of the block sizes have a     *)
(* value that is looked at.  What a lane makes of a block (the modules     *)
(* Lz4Encoder, LzMatch and MultStream2Mm) is its size, chosen freely up to *)
(* that of the block, and whether the literal limit was met.               *)
(***************************************************************************)
EXTENDS Integers, Sequences, SequencesExt

CONSTANTS NUM_BLOCK,        \* lanes of the kernel                          (8)
          Byte,             \* values of a byte                           (256)
          MIN_B_SIZE,       \* smallest block that is compressed          (128)
          HOST_BUFFER_SIZE, \* bytes of a chunk                         (2 MB)
          PARALLEL_BYTES,   \* bytes of a word                              (8)
          Sizes,            \* sizes of files
          OutSizes          \* sizes a lane may compress a block to

block_length == Byte * Byte     \* 64 KB

ASSUME FrameAssumption ==
    /\ {NUM_BLOCK, MIN_B_SIZE, HOST_BUFFER_SIZE} \subseteq Nat \ {0}
    /\ Byte \in Nat /\ Byte % 2 = 0 /\ Byte > 2
    /\ PARALLEL_BYTES = 8       \* the header is 7 bytes and its skip is written for 8
    /\ MIN_B_SIZE <= block_length
    /\ HOST_BUFFER_SIZE % block_length = 0
    /\ Sizes \subseteq Nat \ {0} /\ OutSizes \subseteq Nat \ {0}

PB == PARALLEL_BYTES
Lanes == 0..NUM_BLOCK - 1
FrameByte == <<0, "frame">>     \* a byte of the header or the footer
NoByte == <<0, "none">>

VARIABLES
    input_size, hpc, inIdx, chunk,                          \* compressEngineSeq
    i, readBlockSize, lanes, compressd_size, buf_out,       \* lz4CompressMM
    frame,
    rpc, inStream, inputWindow, readBytes, processedBytes, inputIdx, len,
    blockInfoStream, outStream                              \* lz4HeaderProcessing

kernelVars == <<i, readBlockSize, lanes, compressd_size, buf_out>>
windowVars == <<inStream, inputWindow, readBytes, processedBytes, inputIdx>>
readerVars == <<rpc, windowVars, len, blockInfoStream, outStream>>
vars == <<input_size, hpc, inIdx, chunk, kernelVars, frame, readerVars>>

AtMost(n, bound) == IF n > bound THEN bound ELSE n
Words(n) == (n + PB - 1) \div PB

Idle == [small |-> FALSE, small_inSize |-> 0, size |-> 0, in |-> 0, out |-> 0,
         out_size |-> 0, limited |-> FALSE]

Init == /\ input_size \in Sizes
        /\ hpc = "chunk" /\ inIdx = 0 /\ chunk = 0
        /\ i = 0 /\ readBlockSize = 0 /\ lanes = [j \in Lanes |-> Idle]
        /\ compressd_size = <<>> /\ buf_out = <<>>
        /\ frame = [k \in 1..7 |-> FrameByte]
        /\ rpc = "wait" /\ inStream = <<>> /\ inputWindow = <<>>
        /\ readBytes = 0 /\ processedBytes = 0 /\ inputIdx = 0 /\ len = 0
        /\ blockInfoStream = <<>> /\ outStream = <<>>

-----------------------------------------------------------------------------
(* The host cuts the file into chunks. *)

NextChunk ==
    /\ hpc = "chunk" /\ inIdx < input_size
    /\ chunk' = AtMost(input_size - inIdx, HOST_BUFFER_SIZE)
    /\ i' = 0 /\ readBlockSize' = 0 /\ compressd_size' = <<>>
    /\ buf_out' = [b \in 0..HOST_BUFFER_SIZE \div block_length - 1 |-> <<>>]
    /\ hpc' = "round"
    /\ UNCHANGED <<input_size, inIdx, lanes, frame, readerVars>>

-----------------------------------------------------------------------------
(* lz4CompressMM: one round gives each lane a block. *)

no_blocks == (chunk - 1) \div block_length + 1
nblocks == AtMost(NUM_BLOCK, no_blocks - i)

\* What lane j gets when `read' bytes have been given out; a block too small
\* to compress is not given out.  A lane keeps its output place otherwise.
LaneFor(j, read) ==
    LET n == AtMost(chunk - read, block_length)
    IN  IF j >= nblocks
        THEN [lanes[j] EXCEPT !.size = 0, !.in = 0, !.out_size = 0, !.limited = FALSE]
        ELSE IF n < MIN_B_SIZE
        THEN [lanes[j] EXCEPT !.small = TRUE, !.small_inSize = n, !.size = 0, !.in = 0,
                              !.out_size = 0, !.limited = FALSE]
        ELSE [lanes[j] EXCEPT !.small = FALSE, !.size = n, !.in = (i + j) * block_length,
                              !.out = (i + j) * block_length, !.out_size = 0, !.limited = FALSE]

Round ==
    /\ hpc = "round" /\ i < no_blocks
    /\ LET Read[j \in 0..NUM_BLOCK] ==     \* readBlockSize before lane j
               IF j = 0 THEN readBlockSize ELSE Read[j - 1] + LaneFor(j - 1, Read[j - 1]).size
       IN  /\ lanes' = [j \in Lanes |-> LaneFor(j, Read[j])]
           /\ readBlockSize' = Read[NUM_BLOCK]
    /\ hpc' = "compress"
    /\ UNCHANGED <<input_size, inIdx, chunk, i, compressd_size, buf_out, frame, readerVars>>

\* hlsLz4: a lane without input reports 0 and writes nothing; another writes what
\* it made of its input at its place, the whole of it only if that is smaller.
Outcomes(lane) ==
    IF lane.size = 0 THEN {<<0, FALSE>>}
    ELSE {<<n, FALSE>> : n \in (OutSizes \cap 1..lane.size) \cup {lane.size}} \cup {<<1, TRUE>>}

Compress ==
    /\ hpc = "compress"
    /\ \E o \in [Lanes -> UNION {Outcomes(lanes[j]) : j \in Lanes}] :
          /\ \A j \in Lanes : o[j] \in Outcomes(lanes[j])
          /\ lanes' = [j \in Lanes |-> [lanes[j] EXCEPT !.out_size = o[j][1],
                                                        !.limited = o[j][2]]]
          /\ buf_out' = [b \in DOMAIN buf_out |->
                 LET writers == {j \in Lanes : o[j][1] > 0 /\ lanes[j].out = b * block_length}
                 IN  IF writers = {} THEN buf_out[b]
                     ELSE LET j == CHOOSE j \in writers : TRUE
                          IN  [from |-> inIdx + lanes[j].in, size |-> lanes[j].size,
                               bytes |-> o[j][1],
                               whole |-> o[j][1] < lanes[j].size /\ ~o[j][2]]]
    /\ hpc' = "report"
    /\ UNCHANGED <<input_size, inIdx, chunk, i, readBlockSize, compressd_size, frame, readerVars>>

\* mutant: the size of a small block is not reported
Reported_NoSmall(lane) == IF lane.limited THEN lane.size ELSE lane.out_size
Reported(lane) == IF lane.small THEN lane.small_inSize
                  ELSE IF lane.limited THEN lane.size ELSE lane.out_size

Report ==
    /\ hpc = "report"
    /\ compressd_size' = compressd_size \o [k \in 1..nblocks |-> Reported(lanes[k - 1])]
    /\ i' = i + NUM_BLOCK
    /\ hpc' = IF i + NUM_BLOCK < no_blocks THEN "round" ELSE "write"
    /\ UNCHANGED <<input_size, inIdx, chunk, readBlockSize, lanes, buf_out, frame, readerVars>>

lz4CompressMM == Round \/ Compress \/ Report

-----------------------------------------------------------------------------
(* writeCompressedBlock: the blocks of a chunk, each behind its size *)

BlockSize(b) == AtMost(chunk - b * block_length, block_length)

\* mutant: a block that did not shrink is written as a compressed one
IsCompressed_OrEqual(b) == compressd_size[b + 1] <= BlockSize(b)
IsCompressed(b) == compressd_size[b + 1] < BlockSize(b) /\ (chunk * 10) \div BlockSize(b) >= 10

SizeBytes(n) == << <<n % Byte, "size">>, <<(n \div Byte) % Byte, "size">>,
                   <<n \div block_length, "size">>, <<0, "size">> >>
StoredBytes(n) == IF n = block_length
                  THEN << <<0, "size">>, <<0, "size">>, <<1, "size">>, <<Byte \div 2, "size">> >>
                  ELSE << <<n % Byte, "size">>, <<(n \div Byte) % Byte, "size">>,
                          <<0, "size">>, <<Byte \div 2, "size">> >>

RawBytes(from, n) == [k \in 1..n |-> <<0, <<"raw", from + k>>>>]
PackedBytes(out, n) == [k \in 1..n |-> <<0, <<out, k>>>>]

WriteBlock(b) ==
    IF IsCompressed(b)
    THEN SizeBytes(compressd_size[b + 1]) \o PackedBytes(buf_out[b], compressd_size[b + 1])
    ELSE StoredBytes(BlockSize(b)) \o RawBytes(inIdx + b * block_length, BlockSize(b))

\* The assertion on the sizes ends the program when it fails.
writeCompressedBlock ==
    /\ hpc = "write"
    /\ IF \E b \in 1..no_blocks : compressd_size[b] = 0
       THEN hpc' = "aborted" /\ UNCHANGED <<frame, inIdx>>
       ELSE /\ frame' = frame \o FlattenSeq([b \in 1..no_blocks |-> WriteBlock(b - 1)])
            /\ inIdx' = inIdx + HOST_BUFFER_SIZE
            /\ hpc' = "chunk"
    /\ UNCHANGED <<input_size, chunk, kernelVars, readerVars>>

\* The end mark and the checksum; then the frame goes to the decoder in words.
writeFooter ==
    /\ hpc = "chunk" /\ inIdx >= input_size
    /\ frame' = frame \o [k \in 1..8 |-> FrameByte]
    /\ inStream' = [w \in 1..Words(Len(frame')) |->
                       [k \in 1..PB |-> IF (w - 1) * PB + k <= Len(frame')
                                        THEN frame'[(w - 1) * PB + k] ELSE NoByte]]
    /\ hpc' = "done" /\ rpc' = "start"
    /\ UNCHANGED <<input_size, inIdx, chunk, kernelVars, inputWindow, readBytes,
                   processedBytes, inputIdx, len, blockInfoStream, outStream>>

host == NextChunk \/ writeCompressedBlock \/ writeFooter

-----------------------------------------------------------------------------
(* lz4HeaderProcessing: a window of three words over the frame *)

hostVars == <<input_size, hpc, inIdx, chunk, kernelVars, frame>>

ReadHeader ==
    /\ rpc = "start"
    /\ Len(inStream) >= 3
    /\ inputWindow' = inStream[1] \o inStream[2] \o inStream[3]
    /\ inStream' = SubSeq(inStream, 4, Len(inStream))
    /\ readBytes' = 3 * PB
    /\ inputIdx' = 7 /\ processedBytes' = 8     \* 8 for the footer, not to be read
    /\ rpc' = "size"
    /\ UNCHANGED <<hostVars, len, blockInfoStream, outStream>>

\* The window and the place in it once a used-up word has been shifted out.
Refill == readBytes < Len(frame)
Shifted == IF inputIdx < PB THEN inputWindow
           ELSE SubSeq(inputWindow, PB + 1, 3 * PB)
                    \o (IF Refill THEN Head(inStream) ELSE [k \in 1..PB |-> NoByte])
Place == IF inputIdx < PB THEN inputIdx ELSE inputIdx - PB

Shift(used) ==
    /\ inputIdx >= PB /\ Refill => inStream # <<>>
    /\ inputWindow' = Shifted
    /\ inputIdx' = Place + used
    /\ IF inputIdx < PB THEN UNCHANGED <<processedBytes, readBytes, inStream>>
       ELSE /\ processedBytes' = processedBytes + PB
            /\ IF Refill THEN readBytes' = readBytes + PB /\ inStream' = Tail(inStream)
               ELSE UNCHANGED <<readBytes, inStream>>

SizeOf(b1, b2, b3, b4) ==
    IF b4 # Byte \div 2 THEN b1 + Byte * b2 + block_length * (b3 + Byte * b4)
    ELSE IF b3 = 1 THEN block_length ELSE b1 + Byte * b2

ReadSize ==
    /\ rpc = "size" /\ processedBytes + inputIdx < Len(frame)
    /\ Shift(4)
    /\ LET b(k) == Shifted[Place + k][1]
           n == SizeOf(b(1), b(2), b(3), b(4))
       IN  /\ blockInfoStream' = Append(blockInfoStream, [compressedSize |-> n,
                                                storedBlock |-> b(4) >= Byte \div 2])
           /\ len' = n
           /\ rpc' = IF n > 0 THEN "data" ELSE "size"
    /\ UNCHANGED <<hostVars, outStream>>

PutWord ==
    /\ rpc = "data"
    /\ Shift(AtMost(len, PB))
    /\ outStream' = Append(outStream, SubSeq(Shifted, Place + 1, Place + PB))
    /\ len' = len - AtMost(len, PB)
    /\ rpc' = IF len > PB THEN "data" ELSE "size"
    /\ UNCHANGED <<hostVars, blockInfoStream>>

EndOfFrame ==
    /\ rpc = "size" /\ ~(processedBytes + inputIdx < Len(frame))
    /\ blockInfoStream' = Append(blockInfoStream, [compressedSize |-> 0, storedBlock |-> FALSE])
    /\ rpc' = "done"
    /\ UNCHANGED <<hostVars, windowVars, len, outStream>>

lz4HeaderProcessing == ReadHeader \/ ReadSize \/ PutWord \/ EndOfFrame

-----------------------------------------------------------------------------

Finished == (rpc = "done" \/ hpc = "aborted") /\ UNCHANGED vars

Next == host \/ lz4CompressMM \/ lz4HeaderProcessing \/ Finished

Spec == Init /\ [][Next]_vars

-----------------------------------------------------------------------------
(* Properties *)

FileBlocks == (input_size - 1) \div block_length + 1
Start(b) == (b - 1) * block_length
Length(b) == AtMost(input_size - Start(b), block_length)

\* The bytes put out for block b: the words of a block start a new word.
Before(counts, m) == LET sum[k \in 1..m] == IF k = 1 THEN 0 ELSE sum[k - 1] + counts[k - 1]
                     IN  sum[m]
WordsBefore(b) == Before([k \in DOMAIN blockInfoStream |-> Words(blockInfoStream[k].compressedSize)], b)
DataOf(b) == SubSeq(FlattenSeq(SubSeq(outStream, WordsBefore(b) + 1, WordsBefore(b + 1))),
                    1, blockInfoStream[b].compressedSize)

\* Whatever the lanes make of their blocks, the decoder gets the file back: one
\* block for each block of the file, in order, stored with exactly its bytes or
\* compressed with exactly the output of the lane that had them, as many words as
\* the size says, one end mark, and no word of the frame left unread.  No size is
\* zero (assert in writeCompressedBlock), small blocks and partial rounds included.
FrameIsReadBack ==
    /\ hpc # "aborted"
    /\ rpc = "done" =>
          /\ Len(blockInfoStream) = FileBlocks + 1
          /\ blockInfoStream[FileBlocks + 1].compressedSize = 0
          /\ inStream = <<>> /\ Len(outStream) = WordsBefore(FileBlocks + 1)
          /\ \A b \in 1..FileBlocks :
                LET info == blockInfoStream[b]
                IN  IF info.storedBlock THEN DataOf(b) = RawBytes(Start(b), Length(b))
                    ELSE DataOf(b) = PackedBytes([from |-> Start(b), size |-> Length(b),
                                                  bytes |-> info.compressedSize, whole |-> TRUE],
                                                 info.compressedSize)
=============================================================================
