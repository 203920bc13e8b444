# TLA+ models of the HLS kernels

This directory holds TLA+ specifications of the C++ kernels in this repository, the
TLC configurations that model-check them on small instances, and proofs that the TLA+
proof system (TLAPS) checks for every value of the parameters.

## 1. The system

The repository is a set of kernels for FPGAs written in HLS C++ (copies of four AMD Vitis
libraries: `data_compression`, `security`, `solver`, `utils`), three of which the project
tunes: LZ4 compression, HMAC with SHA-256, and the Cholesky decomposition. A kernel is
not a sequential program: under `#pragma HLS dataflow` every called function becomes a
process of its own, all processes run at once, and they talk through `hls::stream` FIFOs
whose depth is a `#pragma HLS STREAM`. C simulation runs the functions one after the other
on unbounded FIFOs; what only the circuit does (blocking on a full FIFO, a pipelined read
that misses a write) is never seen by the tests. That is what the models are about.

### Components

| Component | State it keeps | Operations | Interaction | What makes it correct |
|---|---|---|---|---|
| `lzCompress` (lz_compress.hpp) | window, dictionary of earlier windows | one item per byte: literal, length, offset | reads bytes, writes `compressdStream` | an attached match is true of the input and within the offset limits |
| `lzBestMatchFilter` (lz_optional.hpp) | window of MATCH_LEN items | drop a match a later one outreaches | `compressdStream` -> `bestMatchStream` | keeps count and order, drops only matches |
| `lzBooster` (lz_optional.hpp) | circular memory of bytes, the match in hand | extend, swallow, pass on | `bestMatchStream` -> `boosterStream` | the items cover the input exactly and are true |
| `lz4Compress` Part1 / Part2 (lz4_compress.hpp) | literal count; encoder state machine | split into literals and records; emit bytes | `lit_outStream`, `lenOffset_Stream` | no circular wait, nothing left over, output decodes to the items |
| `hlsLz4`, `lz4CompressMM` | block sizes and indices per lane | split in 64 KB blocks, report sizes | 8 lanes, `mm2s`, `s2mm` | every block gets its own size, in order |
| LZ4 host (lz4OCLHost.cpp, lz4Base) | the frame being written | cut into chunks, call the kernel, write blocks compressed or stored | buffers of the kernel | the frame reads back as the file |
| `mm2multStreamSize`, `multStream2MM` | pending lanes, addresses | poll lanes, bursts | memory and per-lane FIFOs | no lane is starved or stops the others, memory holds every lane's bytes |
| `lz4HeaderProcessing`, `lz4MultiByteDecompress`, `lzPreProcessingUnitLL`, `lzMultiByteDecompressLL` | window over the input; token state; location count; register and RAM history | take the frame apart; parse; cut into chunks; copy | seven FIFOs | output is what the file decodes to |
| `lz4Packer`, block packer | packing window | headers, blocks | streams | bytes stay contiguous |
| SHA-256 (sha224_256.hpp) | block, schedule, state registers | pad, duplicate, schedule, digest | five processes, ten FIFOs | as many blocks sent as announced, digests in message order |
| HMAC (hmac.hpp) | pads | inner and outer hash | three stages of hashes | each message meets its own key pads |
| Cholesky (cholesky.hpp) | packed triangular matrix | three architectures | arrays | every entry read was computed before, indices in range |
| `streamNToOne`, `streamOneToN` (utils) | buffers, end flags | poll, merge, distribute | per-stream FIFOs | nothing lost or duplicated |
| Read-only cache (cache.hpp) | rows of lines with tags and valid bits; registers of the last accesses | initialise, look up, fetch | address and data streams, off-chip memory | cannot be told from the memory behind it |

Snappy, zlib, zstd, the other ciphers and hashes, the other solvers, the other host
applications and the vendored libraries are upstream code or I/O; PROJECT.json lists them
all with the reason they are left out.

### What is hard

* **Concurrency and blocking.** Two processes that share two FIFOs can wait for each other;
  whether they do depends on depths and on the input. C simulation cannot show it.
* **Ordering.** Literals and the records that count them travel on different FIFOs.
* **Termination.** Each process ends on its own count; nobody tells it that the other ended.
* **State across calls.** FIFOs are hardware: what one call leaves, the next call reads.
* **Stale reads.** `#pragma HLS dependence ... inter false` lets a pipelined read miss the
  writes of the iterations before.
* **Boundaries.** Nibbles of 15, bytes of 255, a literal limit, a circular window.

There is no crash or message loss in this system: nothing is persisted and a FIFO neither
loses nor reorders. PROJECT.json lists the hazards one by one with the line each bites at.

## 2. The modules

| Module | Models | Kind |
|---|---|---|
| `Lz4Format` | the symbols of the LZ4 block format and a reference decoder | operators |
| `Lz4Encoder` | `lz4Compress`: `lz4CompressPart1` and `lz4CompressPart2` with their FIFOs | specification |
| `Lz4EncoderProofs` | the encoder's inductive invariant and theorems | proofs |
| `LzMatch` | `lzCompress`, `lzBestMatchFilter`, `lzBooster` as wired by `hlsLz4Core` | specification |
| `LzMatchProofs` | its inductive invariants and theorems | proofs |
| `LzMatchMC` | the hash function used to check `LzMatch` | for TLC |
| `LaneTransfer` | what either side of the memory-mapped kernel promises its lanes | abstract specification |
| `Mm2MultStream` | `mm2multStreamSize`: memory to cores, implements `LaneTransfer` | specification |
| `Mm2MultStreamProofs` | its inductive invariant and theorems | proofs |
| `MultStream2Mm` | `multStream2MM` and the end of the core that feeds it, implements `LaneTransfer` | specification |
| `MultStream2MmProofs` | its inductive invariants and theorems | proofs |
| `Lz4Frame` | the host's `compressEngineSeq` and `writeCompressedBlock`, the kernel's `lz4CompressMM`, the decoder's `lz4HeaderProcessing` | specification |
| `Lz4FrameProofs` | its inductive invariant and theorems | proofs |
| `Lz4Decoder` | `lz4CoreDecompressEngine`: `lz4MultiByteDecompress`, `lzPreProcessingUnitLL`, `lzMultiByteDecompressLL` | specification |
| `Lz4DecoderMC` | the files `Lz4Decoder` is checked on | for TLC |
| `Sha256Padding` | what `preProcessing` makes of one message, 32-bit and 64-bit version | operators |
| `HashFunction` | what a hash function over streams promises | abstract specification |
| `Sha256Dataflow` | `sha256_top`: `preProcessing`, the two stages of `dup_strm`, `generateMsgSchedule`, `sha256Digest`; implements `HashFunction` | specification |
| `Sha256DataflowProofs` | its invariants, the blocks announced, and that it implements `HashFunction` | proofs |
| `Hmac` | `hmacDataflow`: `expandStrm`, `kpad`/`genPad`, `mergeKipad`, `mergeKopad` and three hash units | specification |
| `HmacProofs` | its inductive invariant and theorems | proofs |
| `StreamNToOne` | `stream_n_to_one_load_balance`: the polling reader, the collector, the distributor, and the producers | specification |
| `Cache` | the four `readOnly` functions and the two initialisations of `cache`, the processes around them | specification |
| `CacheProofs` | its inductive invariant and theorems | proofs |

How they fit together in `hlsLz4`: `Mm2MultStream` feeds a byte stream to each core; in a core the bytes
pass `LzMatch` and then `Lz4Encoder`; `MultStream2Mm` takes the bytes of all cores to memory. Each module
abstracts its neighbours to what they may do at the stream between them, and the neighbour's
properties justify it. `Lz4Frame` is the frame around all of it: the lanes are there only the sizes they may report.
`Lz4Decoder` takes what `Lz4Frame`'s reader puts out. `Hmac` takes `Sha256Dataflow` for its hash, abstracted to what
`HashFunction` promises.

### Lz4Encoder

Names follow the source. A FIFO is the sequence of all it was given in the block and a
counter of what was read, so that "the literal of this record" can be said; its content is
the part not yet read. One action is one loop iteration of the pipelined loop:

* Part1: `Return1` (the early return), `FirstRead`, one of `DropItem`, `EmitRecord`,
  `EmitLiteral` per iteration, `Finish1` (the tail record and `max_lit_limit`).
* Part2: `ReadRecord` (an iteration that only reads), one action per state of the state
  machine, `Finish2`. `ApplyPending` is the delayed index update every iteration makes,
  `Emit` the write that discards bytes past `input_size`.
* `NextBlock`: the host calls again; registers start anew, FIFOs keep their content.

The items Part1 reads come from `Offer`, the items the booster can deliver: a literal, or a
match that stays clear of the last `LEFT_BYTES` positions. `LzMatch` checks that the booster
does deliver only such items (`ItemsFitEncoder`, `InputIsCovered`). A literal byte is
stood for by its input position. The output streams are taken to be drained by `multStream2MM`.

### LzMatch

The input is any sequence over `Bytes`. `lag`, chosen once, says how many dictionary writes a read
misses (a pipeline misses a fixed number). The byte memory of the booster starts with
arbitrary content. Each FIFO holds at most `Depth` items and loses those that are read.
The hash is a parameter, since nothing may depend on it; the one used for checking makes
different windows share a slot.

### Mm2MultStream, MultStream2Mm

A word is stood for by its address, a byte by the address it came from or belongs at, so that a
byte of another lane, a byte twice or a byte out of order cannot go unnoticed. A size on a size FIFO carries, as history,
how many words had been written before it; no guard looks at it. One action is one iteration of a pipelined loop, or one visit of
the polling loop up to its first blocking write.

* `mm2multStreamSimple`: `Skip` (nothing pending, or the size FIFO is full), `StartBurst`, `GmemRead`,
  `Announce`, `SizeInit`. `mm2multStreamDownSizer`, one for each lane: `ReadSize`, `Downsize`, `BurstEnd`. `CoreRead` is the core,
  which reads its block at any pace.
* `stream2mmUpsizer`, one for each lane: `FirstByte`, `Upsize` (`PassOn` is what it does with a full
  word), `EndOfStream`, `Flush`, `LastSize`, `ZeroSize`. `multStream2mmSize`: `Skip`, `ReadSize`, `GmemWrite`, `BurstWritten`,
  `ReadTotal`. `CoreByte`, `CoreTotal`, `CoreLast` are the last lines of `lz4CompressPart2`, which write a byte and
  its end flag in the same iteration and the size before the last flag.
* `NextCall`: the loop of `lz4CompressMM` with any block sizes; FIFOs keep what is in them. A lane without a block keeps an
  `output_idx` of an earlier round, here any lane's (`Layouts`).

The unrolled loop `size_init` is taken lane by lane.

### Lz4Frame

The steps of host and kernel are sequential, and one action is a phase: `NextChunk`; `Round`, `Compress`, `Report` for each
round of lanes; `writeCompressedBlock`, whose assertion ends the program (`aborted`); `writeFooter`. Then the reader runs over the
words of the frame: `ReadHeader`, `ReadSize`, `PutWord`, `EndOfFrame`, with the window of three words (`Shift`). What a lane makes of
its block is chosen from `Outcomes`: any size up to the block's, the block's own when it did not shrink
(lz4_compress.hpp:266 stops writing there), and a size with the limit flag. Only the bytes of sizes have values; the others say which
block and place they stand for. The window byte arithmetic is that of the code, the frame's header is 7 bytes.

### Lz4Decoder

A file is a sequence of blocks, its bytes those of the format (`Compiled`), a literal known by its number. `lz4MultiByteDecompress`
has an action for each state of its machine, `NextBlock`, `PreRead`, `EndOfBlock`, `EndOfFile`; `Advance` is the shift and
refill every iteration ends with. `lzPreProcessingUnitLL`: `FetchSeq`, `LiteralChunk`, `MatchChunk`, `EndChunk`.
`lzMultiByteDecompressLL`: `FirstInfo`, `Copy`, `NextInfo`, `Flush`; an iteration is two steps because it writes history first and then reads the
next chunk, which may block. `flying` holds the writes to the RAM of the last `RamLag` iterations; a read may see the word before or
after each of them, the registers always have their last value. The blocks and their infos are on the streams before the call, as the
engine puts them there; several blocks stand for the calls with a header in front (`lz4DecompressEngine`).

### Sha256Padding, Sha256Dataflow

`blk_num` (announced ahead) and `SentBlocks` (the three padding branches) are separate, as in the code. `Reads32`/`M32` and
`Reads64`/`M64` say for word i of a block whether the stream is read and what M holds.
The processes have one action for each blocking read or write, so that the order of two writes in one iteration counts.
`dup_strm` is two processes, as its inner `#pragma HLS DATAFLOW` makes it. A digest is the sequence of schedule words that entered it since H was
initialised; the schedule words past the block are terms over the block.

### Hmac

One action for each blocking read or write. The hash unit of each stage takes messages (`take`) and puts digests out (`put`) at its own pace, with
`FDepth` in flight between, which is what `Sha256Dataflow` does. A key block is a tuple of bytes, last byte first, with the
shifts of the code (`ShiftWord`, `KeyAt`, `TopWord`); a digest is the length and the words hashed.

### StreamNToOne

The reader looks at the streams one at a time, data before flag (`ReadDatum`, `ReadFlag`), and a producer may write between two
looks; `empty()` is the state at that instant. `Pack` is the part of the iteration that follows. `CollectGroup`, `CollectFull`,
`CollectLast`; `NextBuffer`, `PutWord`, `PutEnd`. The producers write a datum and then its flag, as those of the test do
(test.cpp:35), and pause at will.

### Cache

`MEMS` and `withEnd`, which a call chooses, select one of the four `readOnly` functions. One action is one blocking read or write, except that `Access`
reads the address and does the whole look-up, which touches nothing shared: `ReadFlag`, `LoopTest`, `Access` (`Hit`, `Serve`), `PutItem`, `PutFlag`,
`PutEnd`. `Recent` is the chain of comparisons with the registers, `Push` the shift. A line of off-chip memory
carries its memory, its place and the contents it is of; `Reinitialise` is the host that changes the memory and initialises the cache
again. `expected` is history: what the memory holds at the addresses asked for and not yet answered.

## 3. What TLC checks

| Run | Specification | Expect | Shows |
|---|---|---|---|
| `lz4_encoder` | `Lz4Encoder.cfg` | pass | see below |
| `lz4_encoder_shallow` | `Lz4EncoderShallow.cfg` | violation | the depth of `lit_outStream` as declared admits a deadlock |
| `lz_match` | `LzMatch.cfg` | pass | see below |
| `mm2_mult_stream` | `Mm2MultStream.cfg` | pass | see below |
| `mult_stream_2mm` | `MultStream2Mm.cfg` | pass | see below |
| `lz4_frame` | `Lz4Frame.cfg` | pass | see below |
| `lz4_decoder` | `Lz4Decoder.cfg` | pass | see below |
| `sha256_dataflow` | `Sha256Dataflow.cfg` | pass | see below |
| `hmac` | `Hmac.cfg` | pass | see below |
| `stream_n_to_one` | `StreamNToOne.cfg` | pass | see below |
| `cache` | `Cache.cfg` | pass | see below |
| `stream_n_to_one_narrow` | `StreamNToOneNarrow.cfg` | violation | complete words of the last buffer are lost when it holds several |

**lz4_encoder.** `NoCircularWait`: the processes never wait for each other.
`LiteralsComeFirst`, `LiteralsOfTheRun`: a record finds its own literals in the FIFO, all of
them. `Part2StopsLast`, `NothingLeftBehind`: Part2, which counts positions with a delay of one
iteration, ends neither early nor late, and a block leaves nothing to the next.
`StoredBlockDecodes`: a block the host keeps (not flagged, smaller than its input) decodes
to the items Part1 read. `BlockFinishes`: every block ends.
Bounds: blocks of 0, 1, 3 and 15 positions; nibbles and bytes of length go up to 2
instead of 15 and 255, so that lengths need no, one (also zero) and several extension bytes;
the literal limit is 5, reached in blocks of 15 before, at and after a match; one record of room, the
tightest. `NextBlock` puts any block after any other. The three sizes below the limits
exercise the empty block, the block of a single item and blocks that do not shrink.

**lz4_encoder_shallow.** The same specification with `LitDepth < MaxLitCount`, the proportion
of the source (512 and 4096, lz4_compress.hpp:318). A run of literals that fills the FIFO
before its match comes blocks Part1 on the FIFO and Part2 on the missing record. The prompt log
(`tests/lz4_compress/prompts/llm_usage.md:197`) records the change of the depths as verified free of
deadlock. Theorem `DeepFifoNeverBlocks` says which depth is enough.

**lz_match.** `EveryItemIsTrue`: each item handed to the encoder is the byte at its place or
a true repetition, even with stale dictionary reads. `ItemsFitEncoder`: lengths, offsets and reach are
what the encoder assumes. `InputIsCovered`: the items cover the input exactly.
`ComparedByteIsOld`: the booster compares with the byte it means to, never with a cell
overwritten, uninitialised or written in the same iteration. `AllDone`: no process is left waiting.
Bounds: all inputs of 9 bytes over two values, and the empty one; a window of 3, two entries per slot
and two slots, so that slots overflow and collide; a booster window of 3 and matches of up to 5,
so that offsets inside and outside the window, extended and cut matches occur; lags 0 and 1;
FIFOs of depth 2.

**mm2_mult_stream.** `BurstNeverStuck`: a burst waits for room only in a lane whose downsizer has something
to do, although the size of the burst is announced after its words. `WordsComeFirst`: a downsizer never waits for a word of a
burst it was told of. `NothingLeftBehind`: words, sizes and bytes are used up when a call returns. `ImplementsTransfer`: each core receives
exactly its block, and none is starved (`LaneTransfer`, with its fairness). `CallReturns`: every call ends.
Bounds: two lanes; bursts of two words of two bytes; blocks of 0, 3, 8 and 9 bytes: no burst, a burst
with a partial word, two full bursts, and two bursts and a partial one; a data FIFO of 3 words,
less than the source's two bursts (theorem `NeverStuck`: one burst is enough) and one place in the other FIFOs, the tightest.

**mult_stream_2mm.** `UpsizerNeverStuck`, `WordsComeFirst`: as above in the other direction, where the writer waits for
words and the upsizer for room. `NothingLeftBehind`: the sizes returned are those of the blocks and all FIFOs are empty. `ImplementsTransfer`: memory
receives each lane's bytes in the lane's place; an idle lane writes nowhere, wherever its `output_idx` points.
`CallReturns`: every call ends. Bounds: two lanes, bursts of two words of two bytes, compressed sizes of 0, 1, 5, 8 and 9: nothing, part of a word,
a burst and a partial word, exactly two bursts (the last of which goes out after the loop), and one byte more. A data FIFO
of one burst; the flag FIFO has two places (the source: 4). With one place the model stops, because an iteration of the upsizer is a single step
and takes the flag of one byte together with the next byte.

**lz4_frame.** `FrameIsReadBack`: no size is zero, the frame holds one block for each block of the file, stored with its bytes or
compressed with the output of the lane that had it, and the reader takes it apart exactly.
Bounds: bytes of 4 values, so that a block is 16 bytes; 2 lanes, 3 blocks to a chunk, so that the last round is partial;
21 file sizes from 1 to 80 bytes, below and at `MIN_B_SIZE`, around each multiple of block, round and chunk; lanes that report sizes around one
word of 8 bytes, and the block's own. Files start at 1 byte: the frame of an empty file has two words, for which the reader, which reads three,
would wait (lz4_decompress.hpp:70).

**lz4_decoder.** `OutputIsDecoded`: what is out is always a prefix of the decoded file, and in the end all of it, with nothing left on a
stream. `CallReturns`. Bounds: words of 2 bytes (offsets of one and more than a word, runs cut at every alignment), a history of 64
bytes and nibbles of 3, extension bytes of 9, so that a match can fill the window; four families of files (short and overlapping matches; stored
blocks and blocks of a word or less; distances around the register/RAM border; distances up to the window's, after the
indices wrapped); every FIFO one place deep. `RamLag = 4`: with 5 TLC finds a stale word put out, so the pipeline may
have at most 4 writes to the RAM in flight, of the six words the registers bridge.

**sha256_dataflow.** `IsHashFunction`: the refinement of `HashFunction` (the digests are those of the messages padded as FIPS 180-4 asks, in order, each after
its message was taken, the end flag last). `AnnouncedBlocksAreSent`: the block count computed ahead is the number of blocks the padding branches
send. `NothingLeftBehind`: every stream is empty and exactly the words of the messages were read. `CallReturns`.
Bounds: both widths of the message stream; blocks of 4 words and schedules of 5; calls of one message, of nearly every length modulo the block
of 16 bytes and with 0 or 1 full blocks before the tail; calls of up to three messages, of one block with padding
in it and of two, and three blocks in all; every stream one place deep, but `w_strm` two. The numbers of the code, 14, 55, 56 and 64, all follow from the size of the block.

**hmac.** `TagsOfTheirMessages`: each result is the HMAC of its own message, in order, and in the end nothing is left. `CallReturns`.
Bounds: blocks of 4 bytes in words of 2; keys shorter than, equal to and longer than a block; messages of 0 and 3 bytes; up to two messages; every
stream one place deep. Keys are whole words, as in the test; see the hazard at hmac.hpp:124.

**stream_n_to_one.** `EveryWordIsDelivered`: the output is a merge of the inputs, nothing lost, repeated or out of order in its stream.
`CallReturns`: the polling ends. Bounds: two streams of up to 3 data, 3 data to an output word, so that groups and output words do not
align; `num_out` is 2, but the last buffer of those counts holds at most one complete word.

**stream_n_to_one_narrow.** Three streams as wide as the output. The distributor leaves its loop when it has read the last buffer
and put out its first word; the second datum in it is lost. The round-robin version has the loop that is missing here (round_robin.hpp:251).

**cache.** `AnswersAreTheMemory`: the answers are what the off-chip memory holds now, in the order of the addresses.
`NoNeedlessFetch`: what is in its row is not fetched again, also when the registers have forgotten it. `EndFlagIsLast`, `CallReturns`:
the flag of the next address is read before the address itself, and still the end flag comes last and the call ends. Bounds: two memories; two rows;
four addresses, of which three lines share a row; up to 4 accesses in a call, and any
number of calls, with and without end flags, and changes of the memory. There are two registers, not four, so that a line falls out of them
within a call; the theorems hold for every number and for a single memory too. The address stream has two places: with one and end flags an address is in it
whose access waits for the next flag, which the asker would write after the next address.

One place in a stream is the tightest depth: a behaviour with deeper streams has more room, never less, so that no
wait is added by it; what deeper streams add is that a producer runs further ahead, which the proofs about the lanes and the encoder treat for every depth.

**Fairness.** In `Lz4Decoder`, `Sha256Dataflow` and `Hmac` no step ever undoes another, so `WF` of the next-state relation is enough and is implied by the
fairness of each process; the caller has its input on the streams and room for the output. In `StreamNToOne` the polling loop can go round for ever, so there
each process and each producer is fair on its own. In `Cache` the asker, `readOnly` and the taker of each memory are fair on their own; the host, who calls, is not assumed to be.
In the other modules, `WF` of each process: a process is a circuit that makes its next step as soon as
its FIFOs allow it, whatever the others do. The environment is fair in that the next item is there when
Part1 asks for it. That the host calls again is not assumed.
A core reads its block and ends it (`WF` of `CoreRead`, `Core`): `lz_match` and `lz4_encoder` show that it does
when its streams allow it. `LaneTransfer` asks fairness of each lane, which is what "no lane is starved" means.

## 4. What is proved

`Lz4EncoderProofs` proves, for every set of block sizes, FIFO depths, literal limit and
widths allowed by the assumptions `SizesAssumption`, `DepthAssumption`, `LimitAssumption`
(a limit of 1 to 65535, matches of `MinMatch` to 255, at least one trailing literal), `FormatAssumption` and, for
the last one, `OffsetAssumption` (the largest distance fits two offset bytes):

| Theorem | Statement |
|---|---|
| `Invariance` | `Spec => []IInv` |
| `TypeCorrect` | `Spec => []TypeOK` |
| `LiteralFirst` | `Spec => []LiteralsComeFirst` |
| `StopsLast` | `Spec => []Part2StopsLast` |
| `NothingLeft` | `Spec => []NothingLeftBehind` |
| `DeepFifoNeverBlocks` | if `LitDepth >= MaxLitCount` then `Spec => []NoCircularWait` |
| `OwnLiterals` | `Spec => []LiteralsOfTheRun` |
| `StoredDecodes` | `Spec => []StoredBlockDecodes` |

None of the properties is inductive. `IInv` adds what relates the processes: consecutive records cover
consecutive runs of literals, all written (`RunsInv`); a record says where its match ends, and
exactly one end record closes the block (`RecordsInv`); `lit_count` is the number of literals no record covers yet
(`Part1Inv`); and, in each state of Part2, how many of the record's literals were read and which input position the
delayed index will reach (`Part2Inv`). The proof has one lemma per process, with one step per action.
The trailing literals are essential: they guarantee an end record after the last match, without which
Part2 could stop before Part1.

`OwnLiterals` is about positions, which `IInv` does not need. `PlacesInv` says that the literals written so far have growing
positions and that the literals of a record lie between the end of its predecessor's match and the start of its own;
`LeftInv` says the same of those Part1 has written and not yet covered by a record. A literal Part2
writes is then one of the record in hand by counting (`IInv`), and in its run by place.

`StoredDecodes` says that what is written is right, for every block. Three parts:

1. *What the decoder reads.* `Decode` is recursive over the output; that the functions it defines exist, and their equations
   (`ExtensionIs`, `DecodeIs`), is proved by induction from the end of the output. `Whole(o, ls, t, r, u, e)` says that the sequence of record
   `r` stands from `t` to before `e`: token, extension, literals, distance, extension. `LastIsRead` and `MatchIsRead` say that the decoder takes it
   for the literals and the match of `r`; the number of length bytes is what is at stake (`SpeltIsRead`), and the distance modulo two bytes (`DistanceIsRead`).
2. *What the processes do.* `ItemsInv`: as long as no item was dropped, literals and records are, in their places, the items given.
   `OutInv`: as long as the output is below the input's size, the sequences of the records read are in it one behind the other
   (`Placed`), and behind them as much of the record in hand as the state of Part2 says (`Progress`). One lemma for each state of Part2; the lemmas
   `After...` say what a byte adds to a sequence that is being written.
3. *Together.* `DecodesFrom` compares decoder and items from the last record back to the first.

`Mm2MultStreamProofs` proves, for every number of lanes, burst and word size, FIFO depth and set of block sizes
allowed by `LanesAssumption` (all positive, a burst below 65536 bytes, blocks no larger than their space):

| Theorem | Statement |
|---|---|
| `Invariance` | `Spec => []IInv` |
| `TypeCorrect` | `Spec => []TypeOK` |
| `WordsFirst` | `Spec => []WordsComeFirst` |
| `NeverStuck` | if `DataDepth >= BURST_SIZE` then `Spec => []BurstNeverStuck` |
| `NothingIsLeft` | `Spec => []NothingLeftBehind` |
| `DataInvariance` | `Spec => []AllInv` |
| `TransferIsSafe` | `Spec => Transfer!TransferInit /\ [][Transfer!TransferNext]_(Transfer!tvars)` |

The argument counts words in bytes: `Holds(words, bytes)` says that so many words hold so many bytes and one word less would
not. Every size on a size FIFO holds the words written since the size before, and only the last one of a
call is zero (`SizesInv`); the words written are those announced and those of the burst in hand
(`WordsInv`); the words a downsizer has read hold the bytes it has written (`DownInv`); the burst in hand is
what `BurstOf` says of the bytes pending (`BurstInv`), from which the size announced holds its words. So a downsizer that wants a word is in a burst all of
whose words are written; and when it has no size left, the data FIFO holds only the words of the burst in hand, fewer than `BURST_SIZE`.
Lemmas `HoldsNone` to `HoldsUnique` are the arithmetic, `LaneUntouched` and
`AppendKeeps` say when a step keeps a lane's part, and there is one lemma for each action.

`DataInv` says what the words and bytes are: the words in a lane's FIFO are those of its block in order (`WordData`), the polling
process has asked for what is not yet pending (`PollData`), and the stream is a prefix of the block, as long as the words read in earlier
bursts and the bytes of this one (`ByteData`). Words and bytes together leave nothing behind at the end. `TransferIsSafe` is the
safety half of the refinement `ImplementsTransfer`: the initial state of the detailed system is one of `LaneTransfer`, and each
of its steps, under the refinement mapping, is a step of `LaneTransfer` or a stutter. The fairness half stays with TLC.

`MultStream2MmProofs` proves the same of the way out, for every number of lanes, widths, bursts, depths and sizes allowed by
`LanesAssumption` of that module:

| Theorem | Statement |
|---|---|
| `TypeCorrect` | `Spec => []TypeOK` |
| `WordsAreThere` | `Spec => []WordsComeFirst` |
| `NeverStuck` | if `DataDepth >= BURST_SIZE` then `Spec => []UpsizerNeverStuck` |
| `NothingIsLeft` | `Spec => []NothingLeftBehind` |
| `DataInvariance` | `Spec => []DataInv` |
| `TransferIsSafe` | `Spec => Transfer!TransferInit /\ [][Transfer!TransferNext]_(Transfer!tvars)` |

There are three layers. `CountsInv` counts words: a size announces the words since the size before (`SizesInv`), the upsizer has at most a burst
unannounced (`CountInv`), the writer is at word `j` of the burst whose size it read last (`WriteInv`); `WordsAreThere` and `NeverStuck`
follow. `StreamsInv` counts bytes and flags between core and upsizer, which reads a byte ahead of its flag (`TakenInv`), and totals
(`TotalInv`). `DataInv` says that buffer, words and memory hold the bytes of the block in their places (`BufferInv`,
`WordsInv`, `OutInv`); for the memory it needs that a lane's space holds its stream, which `LanesAssumption` asks of the caller, and that
a lane without a block writes nothing, which is proved.

`LzMatchProofs` proves, for every input, hash, window and dictionary, FIFO depth and lag of the memory allowed by `SearchAssumption`
(at least `LEFT_BYTES + MATCH_LEN` bytes or none, indices that fit in 24 bits, a hash that is a function of the window):

| Theorem | Statement |
|---|---|
| `Invariance` | `Spec => []IInv` |
| `TypeCorrect` | `Spec => []TypeOK` |
| `ItemsAreTrue` | `Spec => []EveryItemIsTrue` |
| `ItemsFit` | `Spec => []ItemsFitEncoder` |
| `CoversTheInput` | `Spec => []InputIsCovered` |
| `ReadsOldBytes` | `Spec => []ComparedByteIsOld` |

`FlowInv` is about the search and the filter: the dictionary holds windows of positions searched before, or the reset value,
whichever of its writes have landed (`SearchInv`); the FIFOs and the filter's window hold the items of consecutive positions (`CountsInv`), and each
item is true of its position: a literal is its byte, a match repeats the bytes its offset points back to (`ItemsInv`). `BoostInv` is
about the booster: its memory holds the last bytes read (`MemInv`), what it has written is true (`StreamInv`), and the item in hand is
one of three (`HandInv`): a literal; a match within reach of the window, which grows by comparison until it is at least as long as it was found; a match beyond
the window, whose remaining positions are skipped. That an extended match is true is what none of the earlier stages says: it rests on `MemInv` and
on the match being longer than what was compared.

`Sha256DataflowProofs` proves, for messages of any number and length, both widths of their stream, all depths of the streams between the
processes, and every even block size above two words (`BlockAssumption`, `DataflowAssumption`):

| Theorem | Statement |
|---|---|
| `AnnouncedAreSent` | `Spec => AnnouncedBlocksAreSent` |
| `NothingIsLeft` | `Spec => []NothingLeftBehind` |
| `HashesTheMessages` | `Spec => IsHashFunction`, the refinement of `HashFunction` |

For the first, `CutLength` divides a length into full blocks and a rest, `PaddingLength` counts the blocks of each padding branch, `BlocksAnnounced`
compares the sum with the expression the code announces, and `PreInv` says which block of which message is being filled. The other two
rest on `FlowInv`, in three layers:

1. *One word.* `StandardBytes` says what byte `k` of the standard's padding is, `PaddedBlocksAre` what word `w` of its block `b` is.
   `MadeWord` shows branch by branch that the code's 32-bit version makes that word from the message word it reads; `WordFilled` and
   `WideFilled` carry this to both versions, the 64-bit one by comparing it with two 32-bit words (`TwoWords`). `PreData`, an invariant, says
   that the words read so far are those the steps so far ask for, so that the block in hand is a prefix of the padded block.
2. *The streams.* All that goes over a FIFO in a call is a sequence fixed by the messages: the counts, the flags, the blocks, the words of
   their schedules. A FIFO is a window on it, `Window(fifo, S, r, w)`: what was written up to `w` and not read up to `r`. `Flow(d, e, g, h)` says
   where the four readers are (the message each has in hand) and gives both ends of the window of all twelve FIFOs; there is one
   lemma for each action. No bound on a FIFO's depth is used: safety does not depend on it, only `CallReturns` does.
3. *The digest.* What is digested between a count and its last word is a window of the schedule that starts and ends with a message's
   blocks, which `DigestIs` compares with `Sha256`. `DigestIsOfTaken`: a digest's words are made of blocks that were sent, so its message was read.

`CacheProofs` proves, for every number of rows, groups, registers and tags, one or two memories, with end flags or without, and any
addresses whose tag fits (`SizeAssumption`, `AddressAssumption`):

| Theorem | Statement |
|---|---|
| `Invariance` | `Spec => []IInv` |
| `Transparent` | `Spec => []AnswersAreTheMemory` |
| `FetchesNeeded` | `Spec => NoNeedlessFetch` |
| `EndComesLast` | `Spec => []EndFlagIsLast` |

A valid row holds a line of the current contents, and that line's tag (`RamInv`); while a call runs, the registers are about such lines
and about rows that became valid (`QueInv`), although the row may hold another line by now; row and tag together identify a line
(`Identified`). So a hit is served the line asked for, whether valid bit, tag and line come from registers or rows. What is expected is what is on
the data stream, in hand and on the address stream (`OrderInv`). For `FetchesNeeded` the converse is needed (`HeldInv`): a row
that holds a line is valid and has its tag. For `EndComesLast` addresses and flags sent, read and in hand are counted (`AskInv` with end flags,
`CountInv` without), and an answer stream has one flag for each item and the last one after them (`FlagInv`).

`HmacProofs` proves, for any number of messages of any lengths, keys of any length, every size of word, block and digest allowed by
`HmacAssumption`, and all depths:

| Theorem | Statement |
|---|---|
| `FlowIsKept` | if `KeysFillWords` then `Spec => []FlowInv` |
| `TagsAreRight` | if `KeysFillWords` then `Spec => []TagsOfTheirMessages` |

`KeysFillWords` says that a key not longer than a block is a whole number of words. It is not a convenience: the code places a key that ends
inside a word as if it filled it (the hazard at hmac.hpp:124), and the tag is then that of another key. The two layers:

1. *The key block.* `IsRegister` says what the register `kpad` shifts words into holds when the key, or its digest, has entered it,
   and `Shifts` what `TopWord` takes out of it word by word; `PadWord` is word `j` of a pad as RFC 2104 has it. `KeyAtByte` is a byte of the key.
2. *The streams.* As in `Sha256DataflowProofs`, all that goes over a FIFO is fixed by the call: flags, lengths, key words, pads, the words of
   the inner and the outer hash (`InnerWord`, `OuterWord`), the digests. `FlowInv` says of each process how many messages it has finished and what it has
   in hand (`XAt`, `KAt`, `MAt`, `RAt`, `TAt`, `OAt`), and that every FIFO is the window on its sequence between writer and reader. The three hash units are
   treated once, for any unit (`UnitFlow`); there is one lemma for each action. A key that needs no hash leaves its unit idle (`Unhashed`).

What the last process has put out is then the outer digests of the messages so far, and when every process is done all windows are empty.

`Lz4FrameProofs` proves, for files of any size but 0, any number of lanes, sizes of block and chunk, and any size a lane reports, under
`FrameAssumption` (a chunk is a whole number of blocks, as in lz4Base):

| Theorem | Statement |
|---|---|
| `FrameIsKept` | `Spec => []FrameInv` |
| `FileComesBack` | `Spec => []FrameIsReadBack` |

`FrameInv` has two phases.

1. *The frame is made.* `Written(frame, O, Z, G)`: `G` blocks are in the frame, block `g` with `Z[g]` bytes of data behind a size field at
   offset `O[g]`. `Placed` says that they are the first `G` of the file, so that the chunk in hand goes on where they end (`NextBlocks`).
   In a round, each lane has the block of its place (`Given`), and the sizes and outputs reported so far are those of their blocks (`Reported0`,
   `LanesGood`, `ChunkGood`). The arithmetic is that of `Blocks`: blocks of chunks are the blocks of the file.
2. *The frame is read.* `Looks(q, rw)`: the window shows the bytes of the frame from `8q`, `rw` words were read from the stream. The reader is before a
   size field (`AtSize`), in the data of a block (`AtData`) or behind the end mark (`AtEnd`); the place in the window is the offset modulo 8. A size field may
   lie across two words and the window then moves by one or two of them (`Sees`); infos and words put out are those of the blocks before. `DataIs`
   compares the words of a block, cut to its size, with its bytes in the frame.

**Only model-checked.**

* Liveness (`BlockFinishes`, `AllDone`, `CallReturns`, and the fairness in the refinements `ImplementsTransfer`): the prover has no support
  for fairness arguments. The safety half of the refinements is proved.
* `OutputIsDecoded` of `Lz4Decoder` and `EveryWordIsDelivered` of `StreamNToOne`: not proved. The first also depends on how many writes are in
  flight, the second on the widths, as the run `stream_n_to_one_narrow` shows; a proof would start from an assumption that says which are safe.

The library's induction theorems take an operator as a parameter, which no prover here can instantiate. Where a proof needs induction over
data it argues by the least counterexample instead (`LeastElement` and `SetInduction` in the proof modules).

## 5. Abstractions

* A byte of output is a symbol with its kind; the decoder rejects a symbol in the wrong place.
* Clock cycles, initiation intervals and pipelining are not modelled, but for the stale reads.
* The dictionary index is 24 bits wide and blocks are 64 KB: it never wraps and is a plain integer.
* Block sizes below `MIN_B_SIZE` never reach the kernel (lz4_compress.hpp:454); the models assume sizes of 0
  or above that minimum where it matters (`SearchAssumption`).

* The input streams of a hash and of the decoder hold all of their input when a call starts, as the tests fill them; an input that comes later only
  delays the process that reads it.
* In `Cache` a read of on-chip memory sees every earlier write: the pragmas declare the distance of the dependence as true, so the compiler
  keeps it. The bits of a row of `valid` are set and cleared together and are one Boolean. Addresses are below 2^31 (an `int` in the code).
* SHA-224 and SHA-256 share all control; they differ in constants and the width of the result.

## 6. Not modelled

* **Upstream code with no kernel here.** Zlib, gzip, zstd and Snappy, the other hashes, ciphers and signatures, the other solvers: about a
  hundred thousand of the repository's lines, most of them table-driven arithmetic (CRC tables, field arithmetic, AES rounds, FSE and
  Huffman tables, matrix numerics) or vendored C (zlib, xxhash). A model of them would restate formulas; the concurrency in them is the
  same chain of processes that end on flags, which the modules above examine. For that reason the models cover only a small part of the
  implementation's lines.
* **Byte-wise LZ4 decoder** (`lz4Decompress`, `lzDecompress`), the versions with several output words, and the stream-terminated versions of the
  search (with static dictionary state, lz_compress.hpp:204): no kernel of this repository is built from them.
* **`Cholesky`**: the numbers are out of TLC's reach; index arithmetic and evaluation order are in the plan.
* **The other stream utilities, the packers**: in the plan or single-process adapters.
* **OpenCL, files, command line, scripts and reports.**

## 7. Plan

1. Proofs for `StreamNToOne` (no word lost, for which widths) and `Lz4Decoder` (the copy of a match through registers and RAM).
2. *CholeskyOrder*: packed indices and the order of reads and writes of the three architectures.
3. *streamOneToN* and the round-robin and tag versions of the merge.
4. *Lz4Pipeline*: `LzMatch` and `Lz4Encoder` composed; the items of the one are the `Offer` of the other. An abstract encoder (the
   sequential program) refined by `Lz4Encoder`, whose output is the input of `Lz4Decoder`.
