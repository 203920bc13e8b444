------------------------- MODULE Mm2MultStreamProofs -------------------------
(***************************************************************************)
(* Proofs about Mm2MultStream, for every number of lanes, burst, width,    *)
(* FIFO depth and set of block sizes.  What has to be known is how the     *)
(* bytes announced to a downsizer and the words in its FIFO go together.   *)
(***************************************************************************)
EXTENDS Mm2MultStream, SequenceTheorems, TLAPS

-----------------------------------------------------------------------------
(* The inductive invariant *)

\* These words hold these bytes, and one word less would not.
Holds(words, bytes) == bytes <= WordSize * words /\ WordSize * words < bytes + WordSize

\* The bytes of the k-th size of a lane, and the words written up to it.
BytesAt(v, k) == outStreamVSize[v][k].bytes
UpTo(v, k)  == IF k = 0 THEN 0 ELSE outStreamVSize[v][k].upto

\* The lane has been sent its size of zero.
Terminated(v) == pc = "done" \/ (pc = "size_init" /\ v < vid)

\* Each size announces the words written since the one before; only the last
\* one of a call is zero.
SizesInv(v) ==
    \A k \in 1..Len(outStreamVSize[v]) :
        /\ UpTo(v, k - 1) <= UpTo(v, k)
        /\ UpTo(v, k) <= UpTo(v, Len(outStreamVSize[v]))
        /\ Holds(UpTo(v, k) - UpTo(v, k - 1), BytesAt(v, k))
        /\ BytesAt(v, k) = 0 => k = Len(outStreamVSize[v]) /\ Terminated(v)

\* Only the words of the burst in hand are not announced.
WordsInv(v) == Len(outStreamV[v]) = UpTo(v, Len(outStreamVSize[v]))
                                    + IF pc = "burst" /\ vid = v THEN midx ELSE 0

\* How far a downsizer has come in its words.
DownInv(v) ==
    /\ dpc[v] = "size" => wordsRead[v] = UpTo(v, sizesRead[v])
    /\ dpc[v] = "bytes" => /\ sizesRead[v] > 0
                           /\ inSize[v] = BytesAt(v, sizesRead[v])
                           /\ itr[v] <= inSize[v]
                           /\ wordsRead[v] >= UpTo(v, sizesRead[v] - 1)
                           /\ Holds(wordsRead[v] - UpTo(v, sizesRead[v] - 1), itr[v])
    /\ dpc[v] = "done" => /\ sizesRead[v] > 0
                          /\ BytesAt(v, sizesRead[v]) = 0
                          /\ wordsRead[v] = UpTo(v, sizesRead[v])

BurstInv == pc = "burst" => Pending(vid) > 0 /\ burstSize = BurstOf(vid)

IInv == /\ TypeOK
        /\ BurstInv
        /\ \A v \in Lanes : SizesInv(v) /\ WordsInv(v) /\ DownInv(v)

-----------------------------------------------------------------------------
(* Words and bytes *)

\* The product of two naturals is one.
LEMMA ProductIsNat == ASSUME NEW a \in Nat, NEW b \in Nat PROVE a * b \in Nat
OBVIOUS

\* Division with remainder.
LEMMA DivMod ==
    ASSUME NEW w \in Nat \ {0}, NEW a \in Nat
    PROVE  /\ a \div w \in Nat /\ a % w \in 0..w - 1
           /\ a = w * (a \div w) + (a % w)
OBVIOUS

\* No bytes need no words, and no words hold no bytes.
LEMMA HoldsNone ==
    /\ Holds(0, 0)
    /\ \A words \in Nat : Holds(words, 0) => words = 0
<1> DEFINE W == WordSize
<1>1. W \in Nat /\ W > 0
  BY LanesAssumption
<1>2. ASSUME NEW words \in Nat, W * words < W PROVE words = 0
  <2>1. CASE words >= 1
    <3>1. W * words >= W
      BY <1>1, <2>1, SMT
    <3> QED BY <3>1, <1>2, <1>1
  <2> QED BY <2>1
<1> QED BY <1>1, <1>2 DEF Holds

\* When the bytes fill their words, that is exact.
LEMMA HoldsExactly ==
    ASSUME NEW words \in Nat, NEW bytes \in Nat, Holds(words, bytes), bytes % WordSize = 0
    PROVE  WordSize * words = bytes
<1> DEFINE W == WordSize  q == bytes \div WordSize
<1>1. W \in Nat \ {0}
  BY LanesAssumption
<1>2. q \in Nat /\ bytes = W * q
  <2>1. q \in Nat /\ bytes = W * q + (bytes % W)
    BY <1>1, DivMod
  <2>2. W * q \in Nat /\ bytes % W = 0
    BY <1>1, <2>1, ProductIsNat
  <2> HIDE DEF q, W
  <2> QED BY <2>1, <2>2
<1>3. W * q <= W * words /\ W * words < W * q + W
  BY <1>2 DEF Holds
<1> HIDE DEF q, W
<1>4. W * (q - words) <= 0 /\ W * (words - q) < W
  BY <1>1, <1>2, <1>3, SMT
<1>5. CASE words - q >= 1
  <2>1. W * (words - q) >= W
    BY <1>1, <1>2, <1>5, SMT
  <2> QED BY <2>1, <1>1, <1>2, <1>4, SMT
<1>6. CASE words - q <= -1
  <2>1. W * (q - words) >= W
    <3>1. q - words >= 1
      BY <1>2, <1>6
    <3> QED BY <1>1, <1>2, <3>1, SMT
  <2> QED BY <2>1, <1>1, <1>2, <1>4, SMT
<1>7. CASE words = q
  BY <1>2, <1>7 DEF W
<1>8. words - q >= 1 \/ words - q <= -1 \/ words = q
  BY <1>2
<1> QED BY <1>5, <1>6, <1>7, <1>8

\* One more byte: a word more exactly when the words so far are full.
LEMMA HoldsNext ==
    ASSUME NEW words \in Nat, NEW bytes \in Nat, Holds(words, bytes)
    PROVE  /\ bytes % WordSize = 0 => Holds(words + 1, bytes + 1)
           /\ bytes % WordSize # 0 => Holds(words, bytes + 1)
<1> DEFINE W == WordSize
<1>1. W \in Nat \ {0}
  BY LanesAssumption
<1>2. W * words \in Nat /\ W * (words + 1) = W * words + W
  BY <1>1, SMT
<1>3. bytes <= W * words /\ W * words < bytes + W
  BY DEF Holds
<1>4. CASE bytes % W = 0
  <2>1. bytes + 1 <= W * (words + 1) /\ W * (words + 1) < bytes + 1 + W
    BY <1>1, <1>2, <1>3, <1>4, HoldsExactly
  <2> QED BY <2>1, <1>4 DEF Holds
<1>5. CASE bytes % W # 0
  <2>1. bytes # W * words
    <3>1. SUFFICES ASSUME bytes = W * words PROVE bytes % W = 0
      BY <1>5
    <3> DEFINE r == bytes % W  q == bytes \div W
    <3>2. q \in Nat /\ r \in 0..W - 1 /\ bytes = W * q + r
      BY <1>1, DivMod
    <3> HIDE DEF r, q
    <3>3. W * (words - q) = r
      BY <3>1, <3>2, <1>1, SMT
    <3>4. CASE words - q >= 1
      <4>1. W * (words - q) >= W
        BY <1>1, <3>2, <3>4, SMT
      <4> QED BY <4>1, <3>3, <3>2, <1>1
    <3>5. CASE words - q <= 0
      <4>1. W * (words - q) <= 0
        BY <1>1, <3>2, <3>5, SMT
      <4> QED BY <4>1, <3>3, <3>2 DEF r
    <3> QED BY <3>2, <3>4, <3>5
  <2>2. bytes + 1 <= W * words /\ W * words < bytes + 1 + W
    BY <1>1, <1>2, <1>3, <2>1
  <2> QED BY <2>2, <1>5 DEF Holds
<1> QED BY <1>4, <1>5

\* Full words hold less than words that hold more bytes.
LEMMA HoldsLess ==
    ASSUME NEW words \in Nat, NEW bytes \in Nat, Holds(words, bytes), bytes % WordSize = 0,
           NEW more \in Nat, NEW most \in Nat, Holds(more, most), bytes < most
    PROVE  words < more
<1> DEFINE W == WordSize
<1>1. W \in Nat \ {0}
  BY LanesAssumption
<1>2. W * words < W * more
  <2>1. W * words = bytes
    BY HoldsExactly
  <2>2. most <= W * more
    BY DEF Holds
  <2>3. W * more \in Nat
    BY <1>1, ProductIsNat
  <2> QED BY <2>1, <2>2, <2>3
<1> HIDE DEF W
<1>3. CASE words >= more
  <2>1. W * words >= W * more
    BY <1>1, <1>3, SMT
  <2>2. W * words \in Nat /\ W * more \in Nat
    BY <1>1, ProductIsNat
  <2> QED BY <2>1, <2>2, <1>2
<1> QED BY <1>3

\* The words of a given number of bytes are determined.
LEMMA HoldsUnique ==
    ASSUME NEW words \in Nat, NEW bytes \in Nat, Holds(words, bytes),
           NEW more \in Nat, Holds(more, bytes)
    PROVE  words = more
<1> DEFINE W == WordSize
<1>1. W \in Nat \ {0}
  BY LanesAssumption
<1>2. /\ W * words < bytes + W /\ bytes <= W * words
      /\ W * more < bytes + W /\ bytes <= W * more
  BY DEF Holds
<1> HIDE DEF W
<1>3. W * (words - more) < W /\ W * (more - words) < W
  BY <1>1, <1>2, SMT
<1>4. CASE words - more >= 1
  <2>1. W * (words - more) >= W
    BY <1>1, <1>4, SMT
  <2> QED BY <2>1, <1>3, <1>1
<1>5. CASE more - words >= 1
  <2>1. W * (more - words) >= W
    BY <1>1, <1>5, SMT
  <2> QED BY <2>1, <1>3, <1>1
<1> QED BY <1>4, <1>5

-----------------------------------------------------------------------------
(* Bursts *)

\* The sizes of blocks are numbers.
LEMMA SizesAreNat == \A n \in InputSizes : n \in Nat /\ 0 <= n
<1> DEFINE top == BlockWords * WordSize
<1>1. top \in Nat /\ InputSizes \subseteq 0..top
  BY LanesAssumption, ProductIsNat
<1> HIDE DEF top
<1> QED BY <1>1

\* What is pending of a lane is a number, and the rest of its block.
LEMMA PendingRest ==
    ASSUME TypeOK, NEW v \in Lanes
    PROVE  /\ input_size[v] \in Nat /\ read_size[v] \in Nat
           /\ Pending(v) = input_size[v] - read_size[v] /\ Pending(v) \in Nat
<1>1. input_size[v] \in InputSizes /\ read_size[v] \in Nat /\ read_size[v] <= input_size[v]
  BY DEF TypeOK
<1>2. input_size[v] \in Nat
  BY <1>1, SizesAreNat
<1> QED BY <1>1, <1>2 DEF Pending

\* The words pending are those that hold the bytes pending.
LEMMA PendingHolds ==
    ASSUME TypeOK, NEW v \in Lanes, Pending(v) > 0
    PROVE  /\ PendingWords(v) \in Nat \ {0}
           /\ Holds(PendingWords(v), Pending(v))
<1> DEFINE W == WordSize  p == Pending(v)  q == (p - 1) \div W
<1>1. W \in Nat \ {0} /\ p \in Nat /\ p - 1 \in Nat
  BY LanesAssumption, PendingRest
<1>2. q \in Nat /\ (p - 1) % W \in 0..W - 1 /\ p - 1 = W * q + ((p - 1) % W)
  BY <1>1, DivMod
<1>3. W * q \in Nat /\ W * (q + 1) = W * q + W
  <2> HIDE DEF q, W
  <2> QED BY <1>1, <1>2, SMT
<1>4. p <= W * (q + 1) /\ W * (q + 1) < p + W
  <2> HIDE DEF p, q, W
  <2> QED BY <1>1, <1>2, <1>3
<1> QED BY <1>2, <1>4 DEF PendingWords, Holds

\* A burst has at least one word and no more than BURST_SIZE.
LEMMA BurstBounds ==
    ASSUME TypeOK, NEW v \in Lanes, Pending(v) > 0
    PROVE  BurstOf(v) \in 1..BURST_SIZE
BY PendingHolds, LanesAssumption DEF BurstOf

\* The size announced for a burst is what the words of the burst hold, and no
\* more than what is pending.
LEMMA BurstHolds ==
    ASSUME TypeOK, NEW v \in Lanes, Pending(v) > 0, burstSize = BurstOf(v)
    PROVE  /\ Announced(v) \in Nat \ {0}
           /\ Holds(burstSize, Announced(v))
           /\ read_size[v] + Announced(v) <= input_size[v]
<1> DEFINE W == WordSize  p == Pending(v)  w == PendingWords(v)  b == burstSize
<1>1. /\ input_size[v] \in Nat /\ read_size[v] \in Nat
      /\ p = input_size[v] - read_size[v] /\ p \in Nat \ {0}
  BY PendingRest
<1>2. W \in Nat \ {0} /\ b \in Nat \ {0} /\ w \in Nat \ {0}
  BY LanesAssumption, BurstBounds, PendingHolds
<1>3. p <= W * w /\ W * w < p + W
  BY PendingHolds DEF Holds
<1>4. b <= w /\ (b < w => b = BURST_SIZE)
  BY <1>2, LanesAssumption DEF BurstOf
<1>5. b * W = W * b /\ W * b \in Nat /\ W * b >= W
  BY <1>2, SMT
<1>6. CASE read_size[v] + b * W < input_size[v]
  <2>1. Announced(v) = b * W
    BY <1>6 DEF Announced
  <2>2. Holds(b, b * W)
    <3> HIDE DEF b
    <3> QED BY <1>2, <1>5 DEF Holds
  <2> QED BY <1>1, <1>2, <1>5, <1>6, <2>1, <2>2
<1>7. CASE ~(read_size[v] + b * W < input_size[v])
  <2>1. Announced(v) = p
    BY <1>1, <1>7 DEF Announced
  <2>2. p <= W * b
    BY <1>1, <1>5, <1>7
  <2>3. b = w
    <3>1. SUFFICES ASSUME w >= b + 1 PROVE FALSE
      BY <1>2, <1>4
    <3> HIDE DEF b, w, W, p
    <3>2. W * w >= W * b + W
      BY <1>2, <3>1, SMT
    <3>3. W * w \in Nat
      BY <1>2, ProductIsNat
    <3> QED BY <1>1, <1>2, <1>3, <1>5, <2>2, <3>2, <3>3
  <2> QED BY <1>1, <2>1, <2>3, PendingHolds
<1> QED BY <1>6, <1>7

-----------------------------------------------------------------------------
(* The sizes of a lane *)

\* The types of what belongs to a lane.
LEMMA LaneTypes ==
    ASSUME TypeOK, NEW v \in Lanes
    PROVE  /\ outStreamV[v] \in Seq(Nat) /\ Len(outStreamV[v]) \in Nat
           /\ outStreamVSize[v] \in Seq(Sizes) /\ Len(outStreamVSize[v]) \in Nat
           /\ wordsRead[v] \in 0..Len(outStreamV[v])
           /\ sizesRead[v] \in 0..Len(outStreamVSize[v])
           /\ itr[v] \in Nat /\ inSize[v] \in Nat /\ inBuffer[v] \in Nat
           /\ burstSize \in Nat /\ midx \in 0..burstSize /\ midx \in Nat
<1>1. outStreamV[v] \in Seq(Nat) /\ outStreamVSize[v] \in Seq(Sizes)
  BY DEF TypeOK
<1>2. Len(outStreamV[v]) \in Nat /\ Len(outStreamVSize[v]) \in Nat
  BY <1>1
<1> QED BY <1>1, <1>2 DEF TypeOK

\* The word counts of the sizes are numbers.
LEMMA UpToIsNat ==
    ASSUME TypeOK, NEW v \in Lanes, NEW k \in 0..Len(outStreamVSize[v])
    PROVE  /\ UpTo(v, k) \in Nat
           /\ k > 0 => BytesAt(v, k) \in Nat
<1>1. outStreamVSize[v] \in Seq(Sizes)
  BY DEF TypeOK
<1>2. CASE k > 0
  <2>1. outStreamVSize[v][k] \in Sizes
    BY <1>1, <1>2, ElementOfSeq
  <2> QED BY <2>1, <1>2 DEF UpTo, BytesAt, Sizes
<1> QED BY <1>2 DEF UpTo

\* A downsizer in the middle of a burst finds its next word.
LEMMA NextWord ==
    ASSUME IInv, NEW v \in Lanes, dpc[v] = "bytes", itr[v] < OutSizeV(v), NeedsWord(v)
    PROVE  wordsRead[v] < UpTo(v, sizesRead[v]) /\ wordsRead[v] < Len(outStreamV[v])
<1> DEFINE n == sizesRead[v]  prev == UpTo(v, n - 1)
<1>1. /\ TypeOK /\ SizesInv(v) /\ WordsInv(v) /\ DownInv(v)
  BY DEF IInv
<1>2. /\ n \in 1..Len(outStreamVSize[v]) /\ itr[v] \in Nat /\ wordsRead[v] \in Nat
      /\ midx \in Nat /\ Len(outStreamVSize[v]) \in Nat
  BY <1>1, LaneTypes DEF DownInv
<1>3. prev \in Nat /\ UpTo(v, n) \in Nat /\ BytesAt(v, n) \in Nat
      /\ UpTo(v, Len(outStreamVSize[v])) \in Nat
  BY <1>1, <1>2, UpToIsNat
<1>4. /\ wordsRead[v] - prev \in Nat /\ Holds(wordsRead[v] - prev, itr[v])
      /\ itr[v] < BytesAt(v, n)
  BY <1>1, <1>2, <1>3 DEF DownInv, OutSizeV
<1>5. UpTo(v, n) - prev \in Nat /\ Holds(UpTo(v, n) - prev, BytesAt(v, n))
  BY <1>1, <1>2, <1>3 DEF SizesInv
<1>6. wordsRead[v] - prev < UpTo(v, n) - prev
  BY <1>2, <1>3, <1>4, <1>5, HoldsLess DEF NeedsWord
<1>7. UpTo(v, n) <= UpTo(v, Len(outStreamVSize[v]))
  BY <1>1, <1>2 DEF SizesInv
<1>8. Len(outStreamV[v]) >= UpTo(v, Len(outStreamVSize[v]))
  BY <1>1, <1>2, <1>3 DEF WordsInv
<1>9. Len(outStreamV[v]) \in Nat
  BY <1>1, LaneTypes
<1> QED BY <1>2, <1>3, <1>6, <1>7, <1>8, <1>9

\* When a call has returned, the FIFOs to the downsizers are empty.
LEMMA FifosEmpty ==
    ASSUME IInv, Returned, NEW v \in Lanes
    PROVE  wordsRead[v] = Len(outStreamV[v]) /\ sizesRead[v] = Len(outStreamVSize[v])
<1>1. /\ TypeOK /\ SizesInv(v) /\ WordsInv(v) /\ DownInv(v)
  BY DEF IInv
<1>2. pc = "done" /\ dpc[v] = "done"
  BY DEF Returned
<1>3. sizesRead[v] \in 1..Len(outStreamVSize[v])
  BY <1>1, <1>2, LaneTypes DEF DownInv
<1>4. sizesRead[v] = Len(outStreamVSize[v])
  BY <1>1, <1>2, <1>3 DEF DownInv, SizesInv
<1>5. UpTo(v, Len(outStreamVSize[v])) \in Nat
  BY <1>1, <1>3, UpToIsNat
<1> QED BY <1>1, <1>2, <1>4, <1>5 DEF DownInv, WordsInv

-----------------------------------------------------------------------------
(* Type correctness *)

\* The address a lane reads from is a number.
LEMMA InputIdxIsNat ==
    ASSUME NEW sizes, NEW v \in Lanes
    PROVE  InputIdx(sizes, v) \in Nat
<1>1. v \in Nat /\ BlockWords \in Nat
  BY LanesAssumption DEF Lanes
<1> QED BY <1>1, ProductIsNat DEF InputIdx, Base

\* The first lane is a lane.
LEMMA FirstLane == 0 \in Lanes
BY LanesAssumption DEF Lanes

\* The polling process moves on to a lane.
LEMMA AdvanceType ==
    ASSUME TypeOK, NEW pending, Advance(pending)
    PROVE  vid' \in Lanes /\ pc' \in {"poll", "size_init"} /\ (pc' = "size_init" => vid' = 0)
<1> DEFINE more == \E v \in Lanes : pending[v]
<1>1. vid \in 0..NUM_BLOCKS - 1 /\ NUM_BLOCKS \in Nat
  BY LanesAssumption DEF TypeOK, Lanes
<1>2. CASE vid < NUM_BLOCKS - 1
  BY <1>1, <1>2 DEF Advance, Lanes
<1>3. CASE ~(vid < NUM_BLOCKS - 1)
  <2>1. vid' = 0 /\ pc' = IF more THEN "poll" ELSE "size_init"
    BY <1>3 DEF Advance
  <2> HIDE DEF more
  <2> QED BY <2>1, FirstLane
<1> QED BY <1>2, <1>3

\* Calls start well-typed.
LEMMA TypeInit == Init => TypeOK
<1> SUFFICES ASSUME Init PROVE TypeOK
  OBVIOUS
<1>1. \A v \in Lanes : input_size[v] \in Nat /\ 0 <= input_size[v]
  BY SizesAreNat DEF Init
<1>2. read_idx \in [Lanes -> Nat]
  BY InputIdxIsNat DEF Init
<1> QED BY <1>1, <1>2, FirstLane DEF Init, TypeOK, PerLane

\* What is left of a sequence is a sequence.
LEMMA RestOfSeq ==
    ASSUME NEW S, NEW s \in Seq(S), NEW n \in Nat
    PROVE  SubSeq(s, n + 1, Len(s)) \in Seq(S)
<1>1. \A k \in n + 1..Len(s) : s[k] \in S
  BY ElementOfSeq
<1> QED BY <1>1, SubSeqProperties

\* Every step of the polling process keeps the types.
LEMMA TypeSimple ==
    ASSUME TypeOK, BurstInv, mm2multStreamSimple
    PROVE  TypeOK'
<1>1. vid \in Lanes
  BY DEF TypeOK
<1>2. CASE Skip
  <2>1. vid' \in Lanes /\ pc' \in {"poll", "size_init"}
    BY <1>2, AdvanceType DEF Skip
  <2>2. is_pending' \in [Lanes -> BOOLEAN]
    <3>1. is_pending \in [Lanes -> BOOLEAN] /\ (Pending(vid) > 0) \in BOOLEAN
      BY DEF TypeOK
    <3> QED BY <1>2, <3>1 DEF Skip
  <2> QED BY <1>2, <1>1, <2>1, <2>2 DEF TypeOK, Skip, downVars
<1>3. CASE StartBurst
  <2>1. burstSize' \in Nat /\ midx' \in 0..burstSize'
    BY <1>1, <1>3, BurstBounds, LanesAssumption DEF StartBurst
  <2> QED BY <1>3, <1>1, <2>1 DEF TypeOK, StartBurst, downVars
<1>4. CASE GmemRead
  <2>1. read_idx[vid] + midx \in Nat /\ midx' \in 0..burstSize
    BY <1>4, <1>1 DEF TypeOK, GmemRead
  <2>2. outStreamV' \in [Lanes -> Seq(Nat)]
    BY <1>4, <1>1, <2>1 DEF TypeOK, GmemRead
  <2>3. \A v \in Lanes : wordsRead[v] <= Len(outStreamV'[v])
    BY <1>4, <1>1, <2>1 DEF TypeOK, GmemRead
  <2> QED BY <1>4, <1>1, <2>1, <2>2, <2>3 DEF TypeOK, GmemRead, downVars
<1>5. CASE Announce
  <2>1. /\ Announced(vid) \in Nat /\ read_size[vid] + Announced(vid) <= input_size[vid]
    BY <1>5, <1>1, BurstHolds DEF Announce, BurstInv
  <2>2. Size(Announced(vid), Len(outStreamV[vid])) \in Sizes
    BY <1>1, <2>1, LaneTypes DEF Size, Sizes
  <2>3. outStreamVSize' \in [Lanes -> Seq(Sizes)]
    BY <1>5, <1>1, <2>2 DEF TypeOK, Announce
  <2>4. \A v \in Lanes : sizesRead[v] <= Len(outStreamVSize'[v])
    BY <1>5, <1>1, <2>2 DEF TypeOK, Announce
  <2>5. read_size' \in [Lanes -> Nat] /\ read_idx' \in [Lanes -> Nat]
    BY <1>5, <1>1, <2>1 DEF TypeOK, Announce
  <2>6. \A v \in Lanes : read_size'[v] <= input_size[v]
    BY <1>5, <1>1, <2>1 DEF TypeOK, Announce
  <2> QED BY <1>5, <1>1, <2>3, <2>4, <2>5, <2>6, AdvanceType DEF TypeOK, Announce, downVars
<1>6. CASE SizeInit
  <2>1. Size(0, Len(outStreamV[vid])) \in Sizes
    BY <1>1, LaneTypes DEF Size, Sizes
  <2>2. outStreamVSize' \in [Lanes -> Seq(Sizes)]
    BY <1>6, <1>1, <2>1 DEF TypeOK, SizeInit
  <2>3. \A v \in Lanes : sizesRead[v] <= Len(outStreamVSize'[v])
    BY <1>6, <1>1, <2>1 DEF TypeOK, SizeInit
  <2>4. vid' \in Lanes /\ pc' \in {"size_init", "done"}
    BY <1>6, <1>1, LanesAssumption DEF SizeInit, Lanes
  <2> QED BY <1>6, <1>1, <2>2, <2>3, <2>4 DEF TypeOK, SizeInit, downVars
<1> QED BY <1>2, <1>3, <1>4, <1>5, <1>6 DEF mm2multStreamSimple

\* Every step of a downsizer keeps the types.
LEMMA TypeDown ==
    ASSUME TypeOK, NEW v \in Lanes, mm2multStreamDownSizer(v)
    PROVE  TypeOK'
<1>1. CASE ReadSize(v)
  <2>1. sizesRead[v] + 1 \in 1..Len(outStreamVSize[v])
    BY <1>1, LaneTypes DEF ReadSize
  <2>2. outStreamVSize[v][sizesRead[v] + 1] \in Sizes
    BY <2>1, LaneTypes, ElementOfSeq
  <2>3. outStreamVSize[v][sizesRead[v] + 1].bytes \in Nat
    BY <2>2 DEF Sizes
  <2>4. sizesRead' \in [Lanes -> Nat]
    <3>1. sizesRead \in [Lanes -> Nat]
      BY DEF TypeOK
    <3> QED BY <1>1, <3>1 DEF ReadSize
  <2>5. ASSUME NEW u \in Lanes PROVE sizesRead'[u] <= Len(outStreamVSize[u])
    <3>1. sizesRead \in [Lanes -> Nat] /\ sizesRead[u] \in 0..Len(outStreamVSize[u])
      BY LaneTypes DEF TypeOK
    <3> QED BY <1>1, <2>1, <3>1, LaneTypes DEF ReadSize
  <2> QED BY <1>1, <2>3, <2>4, <2>5 DEF TypeOK, ReadSize, simpleVars
<1>2. CASE Downsize(v)
  <2>1. Buffer(v) \in Nat
    <3>1. CASE NeedsWord(v)
      <4>1. wordsRead[v] + 1 \in 1..Len(outStreamV[v])
        BY <1>2, <3>1, LaneTypes DEF Downsize
      <4> QED BY <3>1, <4>1, LaneTypes, ElementOfSeq DEF Buffer
    <3>2. CASE ~NeedsWord(v)
      BY <3>2, LaneTypes DEF Buffer
    <3> QED BY <3>1, <3>2
  <2>2. Buffer(v) * WordSize + (itr[v] % WordSize) \in Nat
    <3>1. Buffer(v) * WordSize \in Nat
      BY <2>1, LanesAssumption, ProductIsNat
    <3>2. itr[v] % WordSize \in Nat
      BY LanesAssumption, LaneTypes
    <3> QED BY <3>1, <3>2
  <2>3. outStream' \in [Lanes -> Seq(Nat)]
    BY <1>2, <2>2 DEF TypeOK, Downsize
  <2>4. \A u \in Lanes : bytesRead[u] <= Len(outStream'[u])
    BY <1>2, <2>2 DEF TypeOK, Downsize
  <2>5. wordsRead' \in [Lanes -> Nat]
    <3>1. wordsRead \in [Lanes -> Nat]
      BY DEF TypeOK
    <3> HIDE DEF NeedsWord
    <3> QED BY <1>2, <3>1 DEF Downsize
  <2>6. ASSUME NEW u \in Lanes PROVE wordsRead'[u] <= Len(outStreamV[u])
    <3>1. wordsRead \in [Lanes -> Nat] /\ wordsRead[u] \in 0..Len(outStreamV[u])
      BY LaneTypes DEF TypeOK
    <3>2. NeedsWord(v) => wordsRead[v] < Len(outStreamV[v])
      BY <1>2 DEF Downsize
    <3> QED BY <1>2, <3>1, <3>2, LaneTypes DEF Downsize
  <2>7. itr' \in [Lanes -> Nat] /\ inBuffer' \in [Lanes -> Nat]
    <3>1. itr \in [Lanes -> Nat] /\ inBuffer \in [Lanes -> Nat]
      BY DEF TypeOK
    <3> HIDE DEF Buffer
    <3> QED BY <1>2, <2>1, <3>1 DEF Downsize
  <2>8. UNCHANGED <<input_size, simpleVars, outStreamV, outStreamVSize, sizesRead,
                    dpc, inSize, bytesRead>>
    BY <1>2 DEF Downsize
  <2> QED BY <2>3, <2>4, <2>5, <2>6, <2>7, <2>8 DEF TypeOK, simpleVars
<1>3. CASE BurstEnd(v)
  BY <1>3 DEF TypeOK, BurstEnd, simpleVars
<1> QED BY <1>1, <1>2, <1>3 DEF mm2multStreamDownSizer

\* So does a core, and the start of the next call.
LEMMA TypeRest ==
    ASSUME TypeOK, (\E v \in Lanes : CoreRead(v)) \/ NextCall
    PROVE  TypeOK'
<1>1. ASSUME NEW v \in Lanes, CoreRead(v) PROVE TypeOK'
  <2>1. bytesRead \in [Lanes -> Nat] /\ \A u \in Lanes : bytesRead[u] <= Len(outStream[u])
    BY DEF TypeOK
  <2>2. outStream[v] \in Seq(Nat) /\ Len(outStream[v]) \in Nat
    BY DEF TypeOK
  <2>3. bytesRead' \in [Lanes -> Nat] /\ \A u \in Lanes : bytesRead'[u] <= Len(outStream[u])
    BY <1>1, <2>1, <2>2 DEF CoreRead
  <2>4. UNCHANGED <<input_size, simpleVars, outStreamV, wordsRead, outStreamVSize, sizesRead,
                    downVars, outStream>>
    BY <1>1 DEF CoreRead
  <2> QED BY <2>3, <2>4 DEF TypeOK, simpleVars, downVars
<1>2. CASE NextCall
  <2>1. \A v \in Lanes : input_size'[v] \in Nat /\ 0 <= input_size'[v]
    BY <1>2, SizesAreNat DEF NextCall
  <2>2. read_idx' \in [Lanes -> Nat]
    BY <1>2, InputIdxIsNat DEF NextCall
  <2>3. ASSUME NEW v \in Lanes
        PROVE  /\ outStreamV'[v] \in Seq(Nat) /\ 0 <= Len(outStreamV'[v])
               /\ outStreamVSize'[v] \in Seq(Sizes) /\ 0 <= Len(outStreamVSize'[v])
               /\ outStream'[v] \in Seq(Nat) /\ 0 <= Len(outStream'[v])
    <3>1. /\ outStreamV'[v] = SubSeq(outStreamV[v], wordsRead[v] + 1, Len(outStreamV[v]))
          /\ outStreamVSize'[v] =
                 SubSeq(outStreamVSize[v], sizesRead[v] + 1, Len(outStreamVSize[v]))
          /\ outStream'[v] = SubSeq(outStream[v], bytesRead[v] + 1, Len(outStream[v]))
      BY <1>2 DEF NextCall, Left
    <3>2. outStream[v] \in Seq(Nat) /\ bytesRead[v] \in Nat /\ wordsRead[v] \in Nat
          /\ sizesRead[v] \in Nat
      BY DEF TypeOK
    <3>3. /\ outStreamV'[v] \in Seq(Nat) /\ outStreamVSize'[v] \in Seq(Sizes)
          /\ outStream'[v] \in Seq(Nat)
      BY <3>1, <3>2, LaneTypes, RestOfSeq
    <3> QED BY <3>3
  <2>4. /\ outStreamV' \in [Lanes -> Seq(Nat)] /\ outStreamVSize' \in [Lanes -> Seq(Sizes)]
        /\ outStream' \in [Lanes -> Seq(Nat)]
    BY <1>2, <2>3 DEF NextCall, Left
  <2>5. /\ input_size' \in [Lanes -> InputSizes] /\ pc' = "poll" /\ vid' \in Lanes
        /\ burstSize' = 0 /\ midx' = 0
    BY <1>2, FirstLane DEF NextCall
  <2>6. /\ is_pending' \in [Lanes -> BOOLEAN] /\ read_size' \in [Lanes -> Nat]
        /\ wordsRead' \in [Lanes -> Nat] /\ sizesRead' \in [Lanes -> Nat]
        /\ dpc' \in [Lanes -> {"size", "bytes", "done"}] /\ inSize' \in [Lanes -> Nat]
        /\ itr' \in [Lanes -> Nat] /\ inBuffer' \in [Lanes -> Nat]
        /\ bytesRead' \in [Lanes -> Nat]
    BY <1>2 DEF NextCall, PerLane
  <2>7. \A v \in Lanes : /\ read_size'[v] = 0 /\ wordsRead'[v] = 0 /\ sizesRead'[v] = 0
                         /\ bytesRead'[v] = 0
    BY <1>2 DEF NextCall, PerLane
  <2>8. /\ \A v \in Lanes : read_size'[v] <= input_size'[v]
        /\ \A v \in Lanes : /\ wordsRead'[v] <= Len(outStreamV'[v])
                            /\ sizesRead'[v] <= Len(outStreamVSize'[v])
                            /\ bytesRead'[v] <= Len(outStream'[v])
        /\ pc' \in {"poll", "burst", "size_init", "done"}
        /\ burstSize' \in Nat /\ midx' \in 0..burstSize'
    BY <2>1, <2>3, <2>5, <2>7
  <2> QED BY <2>2, <2>4, <2>5, <2>6, <2>8, Zenon DEF TypeOK
<1> QED BY <1>1, <1>2

-----------------------------------------------------------------------------
(* The invariant *)

\* What the invariant says of a lane depends on the lane's own FIFOs and
\* registers, and on whether the polling process is at the lane.
LEMMA LaneUntouched ==
    ASSUME NEW v \in Lanes, SizesInv(v), WordsInv(v), DownInv(v),
           outStreamV'[v] = outStreamV[v], outStreamVSize'[v] = outStreamVSize[v],
           wordsRead'[v] = wordsRead[v], sizesRead'[v] = sizesRead[v],
           dpc'[v] = dpc[v], inSize'[v] = inSize[v], itr'[v] = itr[v],
           Terminated(v) => Terminated(v)',
           (IF pc' = "burst" /\ vid' = v THEN midx' ELSE 0)
               = (IF pc = "burst" /\ vid = v THEN midx ELSE 0)
    PROVE  SizesInv(v)' /\ WordsInv(v)' /\ DownInv(v)'
<1>1. \A k : UpTo(v, k)' = UpTo(v, k) /\ BytesAt(v, k)' = BytesAt(v, k)
  BY DEF UpTo, BytesAt
<1>2. SizesInv(v)'
  BY <1>1 DEF SizesInv, Holds
<1>3. WordsInv(v)'
  BY <1>1 DEF WordsInv
<1>4. DownInv(v)'
  BY <1>1 DEF DownInv, Holds
<1> QED BY <1>2, <1>3, <1>4

\* A size appended to a lane's FIFO leaves those before it as they were.
LEMMA AppendedSize ==
    ASSUME TypeOK, NEW v \in Lanes, NEW bytes \in Nat, NEW upto \in Nat,
           NEW n \in Nat, n = Len(outStreamVSize[v]),
           outStreamVSize'[v] = Append(outStreamVSize[v], Size(bytes, upto))
    PROVE  /\ Len(outStreamVSize'[v]) = n + 1
           /\ \A k \in 0..n : UpTo(v, k)' = UpTo(v, k)
           /\ \A k \in 1..n : BytesAt(v, k)' = BytesAt(v, k)
           /\ UpTo(v, n + 1)' = upto
           /\ BytesAt(v, n + 1)' = bytes
<1> DEFINE s == outStreamVSize[v]  r == Size(bytes, upto)
<1>1. s \in Seq(Sizes) /\ Len(s) = n /\ r \in Sizes
  BY LaneTypes DEF Size, Sizes
<1>2. /\ Len(Append(s, r)) = n + 1
      /\ \A k \in 1..n : Append(s, r)[k] = s[k]
      /\ Append(s, r)[n + 1] = r
  BY <1>1, AppendProperties
<1>3. r.bytes = bytes /\ r.upto = upto
  BY DEF Size
<1>4. n + 1 # 0 /\ \A k \in 0..n : k = 0 \/ k \in 1..n
  OBVIOUS
<1>5. outStreamVSize'[v] = Append(s, r) /\ outStreamVSize[v] = s
  OBVIOUS
<1> HIDE DEF r, s
<1>6. \A k \in 1..n : UpTo(v, k)' = UpTo(v, k) /\ BytesAt(v, k)' = BytesAt(v, k)
  BY <1>2, <1>5 DEF UpTo, BytesAt
<1>7. UpTo(v, 0)' = UpTo(v, 0)
  BY DEF UpTo
<1>8. UpTo(v, n + 1)' = upto /\ BytesAt(v, n + 1)' = bytes
  BY <1>2, <1>3, <1>4, <1>5 DEF UpTo, BytesAt
<1> QED BY <1>2, <1>4, <1>5, <1>6, <1>7, <1>8

\* The same for the whole invariant of the lane: the appended size holds the
\* words since the one before.
LEMMA AppendKeeps ==
    ASSUME TypeOK, NEW v \in Lanes, NEW bytes \in Nat,
           NEW n \in Nat, n = Len(outStreamVSize[v]), NEW w \in Nat, w = Len(outStreamV[v]),
           outStreamVSize'[v] = Append(outStreamVSize[v], Size(bytes, w)),
           SizesInv(v), DownInv(v), ~Terminated(v),
           w >= UpTo(v, n), Holds(w - UpTo(v, n), bytes),
           bytes = 0 => Terminated(v)',
           outStreamV'[v] = outStreamV[v],
           wordsRead'[v] = wordsRead[v], sizesRead'[v] = sizesRead[v],
           dpc'[v] = dpc[v], inSize'[v] = inSize[v], itr'[v] = itr[v],
           ~(pc' = "burst" /\ vid' = v)
    PROVE  SizesInv(v)' /\ WordsInv(v)' /\ DownInv(v)'
<1>1. sizesRead[v] \in 0..n
  BY LaneTypes
<1>2. /\ Len(outStreamVSize'[v]) = n + 1
      /\ \A k \in 0..n : UpTo(v, k)' = UpTo(v, k)
      /\ \A k \in 1..n : BytesAt(v, k)' = BytesAt(v, k)
      /\ UpTo(v, n + 1)' = w /\ BytesAt(v, n + 1)' = bytes
  BY AppendedSize
<1>3. \A k \in 0..n : UpTo(v, k) \in Nat
  BY UpToIsNat
<1>4. \A k \in 1..n : BytesAt(v, k) # 0
  BY DEF SizesInv
<1>5. SizesInv(v)'
  <2>1. ASSUME NEW k \in 1..n + 1
        PROVE  /\ UpTo(v, k - 1)' <= UpTo(v, k)'
               /\ UpTo(v, k)' <= UpTo(v, n + 1)'
               /\ Holds(UpTo(v, k)' - UpTo(v, k - 1)', BytesAt(v, k)')
               /\ BytesAt(v, k)' = 0 => k = n + 1 /\ Terminated(v)'
    <3>1. CASE k = n + 1
      <4>1. k - 1 = n /\ k - 1 \in 0..n
        BY <3>1
      <4>2. UpTo(v, k - 1)' = UpTo(v, n) /\ UpTo(v, k)' = w /\ BytesAt(v, k)' = bytes
        BY <1>2, <3>1, <4>1
      <4> QED BY <1>2, <1>3, <3>1, <4>2
    <3>2. CASE k \in 1..n
      <4>1. k \in 0..n /\ k - 1 \in 0..n
        BY <3>2
      <4>2. /\ UpTo(v, k - 1)' = UpTo(v, k - 1) /\ UpTo(v, k)' = UpTo(v, k)
            /\ BytesAt(v, k)' = BytesAt(v, k)
        BY <1>2, <3>2, <4>1
      <4>3. /\ UpTo(v, k - 1) <= UpTo(v, k) /\ UpTo(v, k) <= UpTo(v, n)
            /\ Holds(UpTo(v, k) - UpTo(v, k - 1), BytesAt(v, k))
        BY <3>2 DEF SizesInv
      <4>4. UpTo(v, k) \in Nat /\ UpTo(v, n) \in Nat
        BY <1>3, <4>1
      <4>5. UpTo(v, k) <= w
        BY <4>3, <4>4
      <4> QED BY <1>2, <1>4, <3>2, <4>2, <4>3, <4>5
    <3> QED BY <3>1, <3>2
  <2>2. Len(outStreamVSize'[v]) = n + 1
    BY <1>2
  <2> QED BY <2>1, <2>2 DEF SizesInv, Holds
<1>6. WordsInv(v)'
  <2>1. UpTo(v, Len(outStreamVSize[v]))' = w
    BY <1>2
  <2>2. Len(outStreamV'[v]) = w
    OBVIOUS
  <2> QED BY <2>1, <2>2 DEF WordsInv
<1>7. DownInv(v)'
  <2>1. UpTo(v, sizesRead[v])' = UpTo(v, sizesRead[v])
    BY <1>1, <1>2
  <2>2. sizesRead[v] > 0 => /\ UpTo(v, sizesRead[v] - 1)' = UpTo(v, sizesRead[v] - 1)
                            /\ BytesAt(v, sizesRead[v])' = BytesAt(v, sizesRead[v])
    BY <1>1, <1>2
  <2> QED BY <1>1, <2>1, <2>2 DEF DownInv, Holds
<1> QED BY <1>5, <1>6, <1>7

LaneInv(v) == SizesInv(v) /\ WordsInv(v) /\ DownInv(v)

\* A visit of the polling process that reads nothing.
LEMMA InvSkip ==
    ASSUME IInv, Skip
    PROVE  BurstInv' /\ \A v \in Lanes : LaneInv(v)'
<1>1. pc = "poll" /\ pc' \in {"poll", "size_init"}
  BY AdvanceType DEF IInv, Skip
<1>2. ASSUME NEW v \in Lanes PROVE LaneInv(v)'
  <2>1. LaneInv(v) /\ ~Terminated(v)
    BY <1>1 DEF IInv, LaneInv, Terminated
  <2>2. UNCHANGED <<outStreamV, outStreamVSize, wordsRead, sizesRead, dpc, inSize, itr>>
    BY DEF Skip, downVars
  <2> QED BY <1>1, <2>1, <2>2, LaneUntouched DEF LaneInv
<1>3. BurstInv'
  BY <1>1 DEF BurstInv
<1> QED BY <1>2, <1>3

\* The start of a burst.
LEMMA InvStartBurst ==
    ASSUME IInv, StartBurst
    PROVE  BurstInv' /\ \A v \in Lanes : LaneInv(v)'
<1>1. /\ pc = "poll" /\ pc' = "burst" /\ midx' = 0 /\ vid' = vid
      /\ Pending(vid) > 0 /\ burstSize' = BurstOf(vid)
  BY DEF StartBurst
<1>2. ASSUME NEW v \in Lanes PROVE LaneInv(v)'
  <2>1. LaneInv(v) /\ ~Terminated(v)
    BY <1>1 DEF IInv, LaneInv, Terminated
  <2>2. UNCHANGED <<outStreamV, outStreamVSize, wordsRead, sizesRead, dpc, inSize, itr>>
    BY DEF StartBurst, downVars
  <2> QED BY <1>1, <2>1, <2>2, LaneUntouched DEF LaneInv
<1>3. BurstInv'
  <2>1. UNCHANGED <<input_size, read_size>>
    BY DEF StartBurst
  <2> QED BY <1>1, <2>1 DEF BurstInv, BurstOf, PendingWords, Pending
<1> QED BY <1>2, <1>3

\* A word read from memory: the lane it belongs to has one word more that is
\* not announced.
LEMMA InvGmemRead ==
    ASSUME IInv, GmemRead
    PROVE  BurstInv' /\ \A v \in Lanes : LaneInv(v)'
<1>1. pc = "burst" /\ pc' = "burst" /\ midx' = midx + 1 /\ vid' = vid /\ vid \in Lanes
  BY DEF IInv, TypeOK, GmemRead
<1>2. UNCHANGED <<outStreamVSize, wordsRead, sizesRead, dpc, inSize, itr>>
  BY DEF GmemRead, downVars
<1>3. ASSUME NEW v \in Lanes PROVE LaneInv(v)'
  <2>1. LaneInv(v)
    BY DEF IInv, LaneInv
  <2>2. CASE v # vid
    <3>1. outStreamV'[v] = outStreamV[v]
      BY <2>2 DEF IInv, TypeOK, GmemRead
    <3>2. Terminated(v) => Terminated(v)'
      BY <1>1 DEF Terminated
    <3> QED BY <1>1, <1>2, <2>1, <2>2, <3>1, <3>2, LaneUntouched DEF LaneInv
  <2>3. CASE v = vid
    <3>1. \A k : UpTo(v, k)' = UpTo(v, k) /\ BytesAt(v, k)' = BytesAt(v, k)
      BY <1>2 DEF UpTo, BytesAt
    <3>2. Len(outStreamV'[v]) = Len(outStreamV[v]) + 1
      BY <1>1, <2>3 DEF IInv, TypeOK, GmemRead
    <3>3. WordsInv(v)'
      <4>1. Len(outStreamV[v]) = UpTo(v, Len(outStreamVSize[v])) + midx
        BY <1>1, <2>1, <2>3 DEF LaneInv, WordsInv
      <4>2. UpTo(v, Len(outStreamVSize[v])) \in Nat /\ midx \in Nat
        BY LaneTypes, UpToIsNat DEF IInv
      <4>3. Len(outStreamV'[v]) = UpTo(v, Len(outStreamVSize[v])) + midx'
        BY <1>1, <3>2, <4>1, <4>2
      <4>4. UpTo(v, Len(outStreamVSize[v]))' = UpTo(v, Len(outStreamVSize[v]))
        BY <1>2, <3>1
      <4> QED BY <1>1, <2>3, <4>3, <4>4 DEF WordsInv
    <3>4. SizesInv(v)'
      BY <1>1, <1>2, <2>1, <3>1 DEF LaneInv, SizesInv, Holds, Terminated
    <3>5. DownInv(v)'
      BY <1>2, <2>1, <3>1 DEF LaneInv, DownInv, Holds
    <3> QED BY <3>3, <3>4, <3>5 DEF LaneInv
  <2> QED BY <2>2, <2>3
<1>4. BurstInv'
  <2>1. UNCHANGED <<input_size, read_size, burstSize>>
    BY DEF GmemRead
  <2> QED BY <1>1, <2>1 DEF IInv, BurstInv, BurstOf, PendingWords, Pending
<1> QED BY <1>3, <1>4

\* The announcement of a burst: its size holds the words that were not.
LEMMA InvAnnounce ==
    ASSUME IInv, Announce
    PROVE  BurstInv' /\ \A v \in Lanes : LaneInv(v)'
<1>1. /\ TypeOK /\ pc = "burst" /\ vid \in Lanes /\ midx = burstSize
      /\ pc' \in {"poll", "size_init"}
  BY AdvanceType DEF IInv, TypeOK, Announce, BurstWritten
<1>2. UNCHANGED <<outStreamV, wordsRead, sizesRead, dpc, inSize, itr>>
  BY DEF Announce, downVars
<1>3. ASSUME NEW v \in Lanes PROVE LaneInv(v)'
  <2>1. LaneInv(v) /\ ~Terminated(v)
    BY <1>1 DEF IInv, LaneInv, Terminated
  <2>2. CASE v # vid
    <3>1. outStreamVSize'[v] = outStreamVSize[v]
      BY <1>1, <2>2 DEF TypeOK, Announce
    <3> QED BY <1>1, <1>2, <2>1, <2>2, <3>1, LaneUntouched DEF LaneInv
  <2>3. CASE v = vid
    <3> DEFINE n == Len(outStreamVSize[v])  w == Len(outStreamV[v])  bytes == Announced(v)
    <3>1. n \in Nat /\ w \in Nat /\ UpTo(v, n) \in Nat /\ midx \in Nat
      BY <1>1, LaneTypes, UpToIsNat
    <3>2. bytes \in Nat \ {0} /\ Holds(midx, bytes)
      BY <1>1, <2>3, BurstHolds DEF IInv, BurstInv
    <3>3. outStreamVSize'[v] = Append(outStreamVSize[v], Size(bytes, w))
      BY <1>1, <2>3 DEF TypeOK, Announce
    <3>4. w = UpTo(v, n) + midx
      BY <1>1, <2>1, <2>3 DEF LaneInv, WordsInv
    <3>5. w >= UpTo(v, n) /\ Holds(w - UpTo(v, n), bytes)
      <4>1. w - UpTo(v, n) = midx /\ w >= UpTo(v, n)
        <5> HIDE DEF w, n
        <5> QED BY <3>1, <3>4
      <4> QED BY <3>2, <4>1
    <3>6. outStreamV'[v] = outStreamV[v]
      BY <1>2
    <3>7. pc' # "burst" /\ bytes # 0
      BY <1>1, <3>2
    <3>8. SizesInv(v)' /\ WordsInv(v)' /\ DownInv(v)'
      <4> HIDE DEF bytes
      <4> QED BY <1>1, <1>2, <2>1, <3>1, <3>2, <3>3, <3>5, <3>6, <3>7, AppendKeeps DEF LaneInv
    <3> QED BY <3>8 DEF LaneInv
  <2> QED BY <2>2, <2>3
<1>4. BurstInv'
  BY <1>1 DEF BurstInv
<1> QED BY <1>3, <1>4

\* The size of zero that ends a lane.
LEMMA InvSizeInit ==
    ASSUME IInv, SizeInit
    PROVE  BurstInv' /\ \A v \in Lanes : LaneInv(v)'
<1>1. /\ TypeOK /\ pc = "size_init" /\ vid \in Lanes /\ vid \in Nat
      /\ pc' \in {"size_init", "done"}
      /\ pc' = "size_init" => vid' = vid + 1
  <2>1. TypeOK /\ vid \in Lanes
    BY DEF IInv, TypeOK
  <2>2. \A v \in Lanes : v \in Nat
    BY LanesAssumption DEF Lanes
  <2>3. /\ pc = "size_init"
        /\ IF vid < NUM_BLOCKS - 1 THEN vid' = vid + 1 /\ pc' = pc
           ELSE vid' = vid /\ pc' = "done"
    BY DEF SizeInit
  <2> QED BY <2>1, <2>2, <2>3
<1>2. UNCHANGED <<outStreamV, wordsRead, sizesRead, dpc, inSize, itr>>
  BY DEF SizeInit, downVars
<1>3. ASSUME NEW v \in Lanes PROVE LaneInv(v)'
  <2>1. LaneInv(v) /\ v \in Nat
    BY LanesAssumption DEF IInv, LaneInv, Lanes
  <2>2. CASE v # vid
    <3>1. outStreamVSize'[v] = outStreamVSize[v]
      BY <1>1, <2>2 DEF TypeOK, SizeInit
    <3>2. Terminated(v) => Terminated(v)'
      BY <1>1, <2>1 DEF Terminated
    <3> QED BY <1>1, <1>2, <2>1, <3>1, <3>2, LaneUntouched DEF LaneInv
  <2>3. CASE v = vid
    <3> DEFINE n == Len(outStreamVSize[v])  w == Len(outStreamV[v])
    <3>1. n \in Nat /\ w \in Nat /\ UpTo(v, n) \in Nat
      BY <1>1, LaneTypes, UpToIsNat
    <3>2. outStreamVSize'[v] = Append(outStreamVSize[v], Size(0, w))
      BY <1>1, <2>3 DEF TypeOK, SizeInit
    <3>3. w = UpTo(v, n)
      BY <1>1, <2>1, <3>1 DEF LaneInv, WordsInv
    <3>4. w >= UpTo(v, n) /\ Holds(w - UpTo(v, n), 0)
      <4>1. w - UpTo(v, n) = 0 /\ w >= UpTo(v, n)
        <5> HIDE DEF w, n
        <5> QED BY <3>1, <3>3
      <4> QED BY <4>1, HoldsNone
    <3>5. ~Terminated(v) /\ Terminated(v)' /\ pc' # "burst"
      BY <1>1, <2>1, <2>3 DEF Terminated
    <3>6. outStreamV'[v] = outStreamV[v]
      BY <1>2
    <3>7. SizesInv(v)' /\ WordsInv(v)' /\ DownInv(v)'
      BY <1>1, <1>2, <2>1, <3>1, <3>2, <3>4, <3>5, <3>6, AppendKeeps DEF LaneInv
    <3> QED BY <3>7 DEF LaneInv
  <2> QED BY <2>2, <2>3
<1>4. BurstInv'
  BY <1>1 DEF BurstInv
<1> QED BY <1>3, <1>4

\* A downsizer takes the next size: there is no word left of the burst before.
LEMMA InvReadSize ==
    ASSUME IInv, NEW u \in Lanes, ReadSize(u)
    PROVE  BurstInv' /\ \A v \in Lanes : LaneInv(v)'
<1>1. UNCHANGED <<input_size, simpleVars, outStreamV, wordsRead, outStreamVSize>>
  BY DEF ReadSize
<1>2. ASSUME NEW v \in Lanes PROVE LaneInv(v)'
  <2>1. TypeOK /\ LaneInv(v) /\ (Terminated(v) => Terminated(v)')
    BY <1>1 DEF IInv, LaneInv, Terminated, simpleVars
  <2>2. \A k : UpTo(v, k)' = UpTo(v, k) /\ BytesAt(v, k)' = BytesAt(v, k)
    BY <1>1 DEF UpTo, BytesAt
  <2>3. CASE v # u
    <3>1. /\ sizesRead'[v] = sizesRead[v] /\ dpc'[v] = dpc[v]
          /\ inSize'[v] = inSize[v] /\ itr'[v] = itr[v]
      BY <2>1, <2>3 DEF TypeOK, ReadSize
    <3> QED BY <1>1, <2>1, <3>1, LaneUntouched DEF LaneInv, simpleVars
  <2>4. CASE v = u
    <3>1. SizesInv(v)' /\ WordsInv(v)'
      BY <1>1, <2>1, <2>2 DEF LaneInv, SizesInv, WordsInv, Holds, simpleVars
    <3>2. PICK k \in 1..Len(outStreamVSize[v]) : k = sizesRead[v] + 1
      BY <2>1, <2>4, LaneTypes DEF ReadSize
    <3>3. /\ UpTo(v, k) \in Nat /\ UpTo(v, k - 1) \in Nat /\ BytesAt(v, k) \in Nat
          /\ k - 1 = sizesRead[v]
      <4>1. k \in 0..Len(outStreamVSize[v]) /\ k - 1 \in 0..Len(outStreamVSize[v]) /\ k > 0
        BY <2>1, <3>2, LaneTypes
      <4>2. k - 1 = sizesRead[v]
        BY <2>1, <3>2, LaneTypes
      <4> QED BY <2>1, <4>1, <4>2, UpToIsNat
    <3>4. UpTo(v, k - 1) <= UpTo(v, k) /\ Holds(UpTo(v, k) - UpTo(v, k - 1), BytesAt(v, k))
      BY <2>1, <3>2 DEF LaneInv, SizesInv
    <3>5. wordsRead'[v] = UpTo(v, k - 1)
      BY <1>1, <2>1, <2>4, <3>3 DEF LaneInv, DownInv, ReadSize
    <3>6. /\ sizesRead'[v] = k /\ itr'[v] = 0 /\ inSize'[v] = BytesAt(v, k)
          /\ dpc'[v] = IF BytesAt(v, k) = 0 THEN "done" ELSE "bytes"
      BY <2>1, <2>4, <3>2 DEF TypeOK, ReadSize, BytesAt
    <3>7. /\ UpTo(v, sizesRead[v])' = UpTo(v, k)
          /\ UpTo(v, sizesRead[v] - 1)' = UpTo(v, k - 1)
          /\ BytesAt(v, sizesRead[v])' = BytesAt(v, k)
      BY <2>2, <3>6
    <3>8. CASE BytesAt(v, k) = 0
      <4>1. UpTo(v, k) - UpTo(v, k - 1) = 0
        BY <3>3, <3>4, <3>8, HoldsNone
      <4>2. wordsRead'[v] = UpTo(v, k)
        BY <3>3, <3>5, <4>1
      <4> QED BY <3>1, <3>2, <3>6, <3>7, <3>8, <4>2 DEF LaneInv, DownInv
    <3>9. CASE BytesAt(v, k) # 0
      <4>1. wordsRead'[v] - UpTo(v, k - 1) = 0 /\ wordsRead'[v] >= UpTo(v, k - 1)
        BY <3>3, <3>5
      <4>2. Holds(wordsRead[v] - UpTo(v, sizesRead[v] - 1), itr[v])'
        <5>1. Holds(wordsRead'[v] - UpTo(v, k - 1), itr'[v])
          BY <3>6, <4>1, HoldsNone
        <5> QED BY <3>7, <5>1 DEF Holds
      <4> QED BY <3>1, <3>2, <3>3, <3>6, <3>7, <3>9, <4>1, <4>2 DEF LaneInv, DownInv
    <3> QED BY <3>8, <3>9
  <2> QED BY <2>3, <2>4
<1>3. BurstInv'
  BY <1>1 DEF IInv, BurstInv, BurstOf, PendingWords, Pending, simpleVars
<1> QED BY <1>2, <1>3

\* A byte written by a downsizer: a word more is read exactly when the words
\* so far are used up.
LEMMA InvDownsize ==
    ASSUME IInv, NEW u \in Lanes, Downsize(u)
    PROVE  BurstInv' /\ \A v \in Lanes : LaneInv(v)'
<1>1. UNCHANGED <<input_size, simpleVars, outStreamV, outStreamVSize, sizesRead, dpc, inSize>>
  BY DEF Downsize
<1>2. ASSUME NEW v \in Lanes PROVE LaneInv(v)'
  <2>1. TypeOK /\ LaneInv(v) /\ (Terminated(v) => Terminated(v)')
    BY <1>1 DEF IInv, LaneInv, Terminated, simpleVars
  <2>2. \A k : UpTo(v, k)' = UpTo(v, k) /\ BytesAt(v, k)' = BytesAt(v, k)
    BY <1>1 DEF UpTo, BytesAt
  <2>3. CASE v # u
    <3>1. wordsRead'[v] = wordsRead[v] /\ itr'[v] = itr[v]
      BY <2>1, <2>3 DEF TypeOK, Downsize
    <3> QED BY <1>1, <2>1, <3>1, LaneUntouched DEF LaneInv, simpleVars
  <2>4. CASE v = u
    <3> DEFINE n == sizesRead[v]  prev == UpTo(v, n - 1)  words == wordsRead[v] - prev
    <3>1. SizesInv(v)' /\ WordsInv(v)'
      BY <1>1, <2>1, <2>2 DEF LaneInv, SizesInv, WordsInv, Holds, simpleVars
    <3>2. /\ dpc[v] = "bytes" /\ itr[v] < inSize[v] /\ n > 0 /\ inSize[v] = BytesAt(v, n)
          /\ wordsRead[v] >= prev /\ Holds(words, itr[v])
      BY <2>1, <2>4 DEF LaneInv, DownInv, Downsize, OutSizeV
    <3>3. n \in Nat /\ prev \in Nat /\ wordsRead[v] \in Nat /\ itr[v] \in Nat /\ inSize[v] \in Nat
      BY <2>1, <3>2, LaneTypes, UpToIsNat
    <3>4. /\ itr'[v] = itr[v] + 1
          /\ wordsRead'[v] = IF NeedsWord(v) THEN wordsRead[v] + 1 ELSE wordsRead[v]
      <4>1. itr \in [Lanes -> Nat] /\ wordsRead \in [Lanes -> Nat]
        BY <2>1 DEF TypeOK
      <4> HIDE DEF NeedsWord
      <4> QED BY <2>4, <4>1 DEF Downsize
    <3>5. wordsRead'[v] >= prev /\ Holds(wordsRead'[v] - prev, itr[v] + 1)
      <4>1. words \in Nat
        BY <3>2, <3>3
      <4>2. CASE NeedsWord(v)
        <5>1. Holds(words + 1, itr[v] + 1)
          <6> HIDE DEF words
          <6> QED BY <3>2, <3>3, <4>1, <4>2, HoldsNext DEF NeedsWord
        <5>2. wordsRead'[v] = wordsRead[v] + 1
          BY <3>4, <4>2
        <5>3. wordsRead'[v] - prev = words + 1 /\ wordsRead'[v] >= prev
          <6> HIDE DEF prev
          <6> QED BY <3>2, <3>3, <5>2
        <5> QED BY <5>1, <5>3
      <4>3. CASE ~NeedsWord(v)
        <5>1. Holds(words, itr[v] + 1)
          <6> HIDE DEF words
          <6> QED BY <3>2, <3>3, <4>1, <4>3, HoldsNext DEF NeedsWord
        <5> QED BY <3>2, <3>4, <4>3, <5>1
      <4> QED BY <4>2, <4>3
    <3>6. /\ UpTo(v, sizesRead[v] - 1)' = prev
          /\ BytesAt(v, sizesRead[v])' = BytesAt(v, n)
      BY <1>1, <2>2
    <3>7. /\ dpc'[v] = "bytes" /\ sizesRead'[v] = n /\ inSize'[v] = inSize[v]
          /\ itr'[v] <= inSize'[v]
      BY <1>1, <3>2, <3>3, <3>4
    <3>8. DownInv(v)'
      <4> HIDE DEF prev
      <4> QED BY <3>2, <3>4, <3>5, <3>6, <3>7 DEF DownInv, Holds
    <3> QED BY <3>1, <3>8 DEF LaneInv
  <2> QED BY <2>3, <2>4
<1>3. BurstInv'
  BY <1>1 DEF IInv, BurstInv, BurstOf, PendingWords, Pending, simpleVars
<1> QED BY <1>2, <1>3

\* The end of a burst: all its words have been read.
LEMMA InvBurstEnd ==
    ASSUME IInv, NEW u \in Lanes, BurstEnd(u)
    PROVE  BurstInv' /\ \A v \in Lanes : LaneInv(v)'
<1>1. UNCHANGED <<input_size, simpleVars, outStreamV, wordsRead, outStreamVSize, sizesRead,
                  inSize, itr>>
  BY DEF BurstEnd
<1>2. ASSUME NEW v \in Lanes PROVE LaneInv(v)'
  <2>1. TypeOK /\ LaneInv(v) /\ (Terminated(v) => Terminated(v)')
    BY <1>1 DEF IInv, LaneInv, Terminated, simpleVars
  <2>2. \A k : UpTo(v, k)' = UpTo(v, k) /\ BytesAt(v, k)' = BytesAt(v, k)
    BY <1>1 DEF UpTo, BytesAt
  <2>3. CASE v # u
    <3>1. dpc'[v] = dpc[v]
      BY <2>1, <2>3 DEF TypeOK, BurstEnd
    <3> QED BY <1>1, <2>1, <3>1, LaneUntouched DEF LaneInv, simpleVars
  <2>4. CASE v = u
    <3> DEFINE n == sizesRead[v]  prev == UpTo(v, n - 1)
    <3>1. SizesInv(v)' /\ WordsInv(v)'
      BY <1>1, <2>1, <2>2 DEF LaneInv, SizesInv, WordsInv, Holds, simpleVars
    <3>2. /\ dpc[v] = "bytes" /\ itr[v] = BytesAt(v, n) /\ n > 0
          /\ wordsRead[v] >= prev /\ Holds(wordsRead[v] - prev, itr[v])
      BY <2>1, <2>4, LaneTypes DEF LaneInv, DownInv, BurstEnd, OutSizeV
    <3>3. n \in 1..Len(outStreamVSize[v])
      BY <2>1, <3>2, LaneTypes
    <3>4. prev \in Nat /\ UpTo(v, n) \in Nat /\ BytesAt(v, n) \in Nat /\ wordsRead[v] \in Nat
      <4>1. n \in 0..Len(outStreamVSize[v]) /\ n - 1 \in 0..Len(outStreamVSize[v]) /\ n > 0
        BY <2>1, <3>3, LaneTypes
      <4> QED BY <2>1, <4>1, LaneTypes, UpToIsNat
    <3>5. prev <= UpTo(v, n) /\ Holds(UpTo(v, n) - prev, BytesAt(v, n))
      BY <2>1, <3>3 DEF LaneInv, SizesInv
    <3>6. wordsRead[v] - prev = UpTo(v, n) - prev
      <4>1. wordsRead[v] - prev \in Nat /\ UpTo(v, n) - prev \in Nat
        <5> HIDE DEF prev
        <5> QED BY <3>2, <3>4, <3>5
      <4> QED BY <3>2, <3>4, <3>5, <4>1, HoldsUnique
    <3>7. wordsRead[v] = UpTo(v, n)
      <4> HIDE DEF prev
      <4> QED BY <3>4, <3>6
    <3>8. dpc'[v] = "size" /\ UpTo(v, sizesRead[v])' = UpTo(v, n) /\ wordsRead'[v] = wordsRead[v]
      BY <1>1, <2>1, <2>2, <2>4 DEF TypeOK, BurstEnd
    <3>9. DownInv(v)'
      BY <3>7, <3>8 DEF DownInv
    <3> QED BY <3>1, <3>9 DEF LaneInv
  <2> QED BY <2>3, <2>4
<1>3. BurstInv'
  BY <1>1 DEF IInv, BurstInv, BurstOf, PendingWords, Pending, simpleVars
<1> QED BY <1>2, <1>3

\* A core that reads a byte touches nothing of this.
LEMMA InvCoreRead ==
    ASSUME IInv, NEW u \in Lanes, CoreRead(u)
    PROVE  BurstInv' /\ \A v \in Lanes : LaneInv(v)'
<1>1. UNCHANGED <<input_size, simpleVars, outStreamV, wordsRead, outStreamVSize, sizesRead,
                  downVars>>
  BY DEF CoreRead
<1>2. ASSUME NEW v \in Lanes PROVE LaneInv(v)'
  <2>1. LaneInv(v) /\ (Terminated(v) => Terminated(v)')
    BY <1>1 DEF IInv, LaneInv, Terminated, simpleVars
  <2> QED BY <1>1, <2>1, LaneUntouched DEF LaneInv, simpleVars, downVars
<1>3. BurstInv'
  BY <1>1 DEF IInv, BurstInv, BurstOf, PendingWords, Pending, simpleVars
<1> QED BY <1>2, <1>3

\* The next call starts with empty FIFOs, as the first one does.
LEMMA InvNextCall ==
    ASSUME IInv, NextCall
    PROVE  BurstInv' /\ \A v \in Lanes : LaneInv(v)'
<1>1. pc' = "poll"
  BY DEF NextCall
<1>2. ASSUME NEW v \in Lanes PROVE LaneInv(v)'
  <2>1. outStreamV'[v] = <<>> /\ outStreamVSize'[v] = <<>>
    <3>1. /\ outStreamV'[v] = SubSeq(outStreamV[v], wordsRead[v] + 1, Len(outStreamV[v]))
          /\ outStreamVSize'[v] =
                 SubSeq(outStreamVSize[v], sizesRead[v] + 1, Len(outStreamVSize[v]))
      BY DEF NextCall, Left
    <3>2. /\ wordsRead[v] = Len(outStreamV[v]) /\ sizesRead[v] = Len(outStreamVSize[v])
          /\ Len(outStreamV[v]) \in Nat /\ Len(outStreamVSize[v]) \in Nat
      BY FifosEmpty, LaneTypes DEF NextCall, IInv
    <3>3. /\ SubSeq(outStreamV[v], wordsRead[v] + 1, Len(outStreamV[v])) = <<>>
          /\ SubSeq(outStreamVSize[v], sizesRead[v] + 1, Len(outStreamVSize[v])) = <<>>
      BY <3>2, SubSeqEmpty
    <3> QED BY <3>1, <3>3
  <2>2. dpc'[v] = "size" /\ wordsRead'[v] = 0 /\ sizesRead'[v] = 0
    BY DEF NextCall, PerLane
  <2>3. Len(outStreamV'[v]) = 0 /\ Len(outStreamVSize'[v]) = 0
    BY <2>1
  <2>4. SizesInv(v)'
    BY <2>3 DEF SizesInv
  <2>5. WordsInv(v)'
    BY <1>1, <2>3 DEF WordsInv, UpTo
  <2>6. DownInv(v)'
    BY <2>2 DEF DownInv, UpTo
  <2> QED BY <2>4, <2>5, <2>6 DEF LaneInv
<1>3. BurstInv'
  BY <1>1 DEF BurstInv
<1> QED BY <1>2, <1>3

\* The invariant holds when the first call starts.
LEMMA InvInit == Init => IInv
<1> SUFFICES ASSUME Init PROVE IInv
  OBVIOUS
<1>1. TypeOK
  BY TypeInit
<1>2. BurstInv
  BY DEF Init, BurstInv
<1>3. ASSUME NEW v \in Lanes PROVE SizesInv(v) /\ WordsInv(v) /\ DownInv(v)
  <2>1. /\ outStreamV[v] = <<>> /\ outStreamVSize[v] = <<>> /\ pc = "poll"
        /\ dpc[v] = "size" /\ wordsRead[v] = 0 /\ sizesRead[v] = 0
    BY DEF Init, PerLane
  <2>2. Len(outStreamV[v]) = 0 /\ Len(outStreamVSize[v]) = 0
    BY <2>1
  <2>3. SizesInv(v)
    BY <2>2 DEF SizesInv
  <2> QED BY <2>1, <2>2, <2>3 DEF WordsInv, DownInv, UpTo
<1> QED BY <1>1, <1>2, <1>3 DEF IInv

\* Every step keeps it.
LEMMA InvNext == IInv /\ [Next]_vars => IInv'
<1> SUFFICES ASSUME IInv, [Next]_vars PROVE IInv'
  OBVIOUS
<1>1. ASSUME TypeOK', BurstInv', \A v \in Lanes : LaneInv(v)' PROVE IInv'
  BY <1>1 DEF IInv, LaneInv
<1>2. TypeOK /\ BurstInv
  BY DEF IInv
<1>3. CASE mm2multStreamSimple
  BY <1>1, <1>2, <1>3, TypeSimple, InvSkip, InvStartBurst, InvGmemRead, InvAnnounce, InvSizeInit
  DEF mm2multStreamSimple
<1>4. ASSUME NEW v \in Lanes, mm2multStreamDownSizer(v) PROVE IInv'
  BY <1>1, <1>2, <1>4, TypeDown, InvReadSize, InvDownsize, InvBurstEnd
  DEF mm2multStreamDownSizer
<1>5. ASSUME NEW v \in Lanes, CoreRead(v) PROVE IInv'
  BY <1>1, <1>2, <1>5, TypeRest, InvCoreRead
<1>6. CASE NextCall
  BY <1>1, <1>2, <1>6, TypeRest, InvNextCall
<1>7. CASE UNCHANGED vars
  <2>1. \A v \in Lanes : LaneInv(v)
    BY DEF IInv, LaneInv
  <2>2. TypeOK'
    BY <1>2, <1>7 DEF vars, simpleVars, downVars, TypeOK
  <2>3. BurstInv'
    BY <1>2, <1>7 DEF vars, simpleVars, BurstInv, BurstOf, PendingWords, Pending
  <2>4. ASSUME NEW v \in Lanes PROVE LaneInv(v)'
    <3>1. LaneInv(v) /\ (Terminated(v) => Terminated(v)')
      BY <1>7, <2>1 DEF vars, simpleVars, Terminated
    <3> QED BY <1>7, <3>1, LaneUntouched DEF LaneInv, vars, simpleVars, downVars
  <2> QED BY <1>1, <2>2, <2>3, <2>4
<1> QED BY <1>3, <1>4, <1>5, <1>6, <1>7 DEF Next

-----------------------------------------------------------------------------
(* Theorems *)

\* Words, sizes and bytes of a lane always go together as the invariant says.
THEOREM Invariance == Spec => []IInv
BY InvInit, InvNext, PTL DEF Spec

\* Every register and FIFO of mm2multStreamSize holds a value of its kind, and
\* no FIFO is read past what was written to it.
THEOREM TypeCorrect == Spec => []TypeOK
<1>1. IInv => TypeOK
  BY DEF IInv
<1> QED BY <1>1, Invariance, PTL

\* A downsizer never waits for a word of a burst whose size it has read, for
\* any number of lanes, burst size, word width and FIFO depths.
THEOREM WordsFirst == Spec => []WordsComeFirst
<1>1. IInv => WordsComeFirst
  BY NextWord DEF WordsComeFirst
<1> QED BY <1>1, Invariance, PTL

\* A data FIFO that holds a whole burst is enough for the polling process to
\* be stuck on no lane: the code's depth is twice that.
THEOREM NeverStuck == DataDepth >= BURST_SIZE => (Spec => []BurstNeverStuck)
<1>1. ASSUME DataDepth >= BURST_SIZE, IInv PROVE BurstNeverStuck
  <2>1. SUFFICES ASSUME pc = "burst", midx < burstSize, ~DataRoom(vid), dpc[vid] # "bytes",
                        ~(dpc[vid] = "size" /\ sizesRead[vid] < Len(outStreamVSize[vid]))
                 PROVE  FALSE
    BY DEF BurstNeverStuck
  <2> DEFINE n == Len(outStreamVSize[vid])
  <2>2. /\ TypeOK /\ vid \in Lanes /\ dpc[vid] \in {"size", "bytes", "done"}
        /\ SizesInv(vid) /\ WordsInv(vid) /\ DownInv(vid)
    BY <1>1 DEF IInv, TypeOK
  <2>3. /\ n \in Nat /\ sizesRead[vid] \in 0..n /\ midx \in Nat
        /\ wordsRead[vid] \in Nat /\ UpTo(vid, n) \in Nat
    BY <2>2, LaneTypes, UpToIsNat
  <2>4. burstSize \in 1..BURST_SIZE
    BY <1>1, <2>1, <2>2, BurstBounds DEF IInv, BurstInv
  <2>5. dpc[vid] = "size"
    <3>1. SUFFICES ASSUME dpc[vid] = "done" PROVE FALSE
      BY <2>1, <2>2
    <3>2. sizesRead[vid] \in 1..n /\ BytesAt(vid, sizesRead[vid]) = 0
      BY <2>2, <2>3, <3>1 DEF DownInv
    <3>3. Terminated(vid)
      BY <2>2, <3>2 DEF SizesInv
    <3> QED BY <2>1, <3>3 DEF Terminated
  <2>6. sizesRead[vid] = n
    BY <2>1, <2>3, <2>5
  <2>7. wordsRead[vid] = UpTo(vid, n)
    BY <2>2, <2>5, <2>6 DEF DownInv
  <2>8. Len(outStreamV[vid]) = UpTo(vid, n) + midx
    BY <2>1, <2>2 DEF WordsInv
  <2>9. Len(outStreamV[vid]) - wordsRead[vid] < DataDepth
    <3>1. midx < BURST_SIZE /\ BURST_SIZE \in Nat /\ DataDepth \in Nat
      BY <2>1, <2>3, <2>4, LanesAssumption
    <3>2. Len(outStreamV[vid]) - wordsRead[vid] = midx
      <4> HIDE DEF n
      <4> QED BY <2>3, <2>7, <2>8
    <3> QED BY <1>1, <2>3, <3>1, <3>2
  <2> QED BY <2>1, <2>9 DEF DataRoom
<1>2. CASE DataDepth >= BURST_SIZE
  <2>1. IInv => BurstNeverStuck
    BY <1>1, <1>2
  <2>2. Spec => []BurstNeverStuck
    BY <2>1, Invariance, PTL
  <2> QED BY <2>2
<1> QED BY <1>2

-----------------------------------------------------------------------------
(* The bytes themselves: from here on, what the words and bytes are and not *)
(* only how many.                                                           *)

\* The address lane v reads from, and the bytes of its block in n words.
From(v) == InputIdx(input_size, v)
Cap(v, n) == IF WordSize * n < input_size[v] THEN WordSize * n ELSE input_size[v]

\* What the polling process has read and announced: the words of the block in
\* their order, and of the last one only the bytes that belong to the block.
WordData(v) ==
    /\ read_idx[v] = From(v) + UpTo(v, Len(outStreamVSize[v]))
    /\ read_size[v] = Cap(v, UpTo(v, Len(outStreamVSize[v])))
    /\ \A k \in 1..Len(outStreamVSize[v]) : Cap(v, UpTo(v, k)) = Cap(v, UpTo(v, k - 1)) + BytesAt(v, k)
    /\ \A k \in 1..Len(outStreamV[v]) : outStreamV[v][k] = From(v) + k - 1

\* A lane that is not polled any more has been read to its end.
PollData(v) == ~is_pending[v] \/ pc \in {"size_init", "done"} => read_size[v] = input_size[v]

\* What a downsizer has given to its core: the bytes of the block in their
\* order; the buffer is the word they are cut from.
ByteData(v) ==
    /\ dpc[v] # "bytes" => Len(outStream[v]) = Cap(v, UpTo(v, sizesRead[v]))
    /\ dpc[v] = "bytes" =>
           /\ inSize[v] > 0
           /\ Len(outStream[v]) = WordSize * UpTo(v, sizesRead[v] - 1) + itr[v]
           /\ itr[v] % WordSize # 0 => inBuffer[v] = From(v) + wordsRead[v] - 1
    /\ \A k \in 1..Len(outStream[v]) : outStream[v][k] = Base(v) * WordSize + k - 1

LaneData(v) == WordData(v) /\ PollData(v) /\ ByteData(v)
DataInv == \A v \in Lanes : LaneData(v)

\* The bytes in n words are at most those of the block, and fill the words
\* that do not reach its end.
LEMMA CapBounds ==
    ASSUME TypeOK, NEW v \in Lanes, NEW n \in Nat
    PROVE  /\ input_size[v] \in Nat /\ WordSize * n \in Nat /\ Cap(v, n) \in Nat
           /\ Cap(v, n) <= input_size[v]
           /\ Cap(v, n) < input_size[v] => Cap(v, n) = WordSize * n
           /\ Cap(v, n) <= WordSize * n
<1>1. input_size[v] \in Nat
  BY PendingRest
<1>2. WordSize * n \in Nat
  BY LanesAssumption, ProductIsNat
<1> QED BY <1>1, <1>2 DEF Cap

LEMMA CapNone == ASSUME TypeOK, NEW v \in Lanes PROVE Cap(v, 0) = 0
<1>1. input_size[v] \in Nat /\ WordSize * 0 = 0
  BY PendingRest, LanesAssumption
<1> QED BY <1>1 DEF Cap

LEMMA WordDataUntouched ==
    ASSUME NEW v \in Lanes, WordData(v), input_size' = input_size,
           read_idx'[v] = read_idx[v], read_size'[v] = read_size[v],
           outStreamV'[v] = outStreamV[v], outStreamVSize'[v] = outStreamVSize[v]
    PROVE  WordData(v)'
<1>1. \A k : UpTo(v, k)' = UpTo(v, k) /\ BytesAt(v, k)' = BytesAt(v, k)
  BY DEF UpTo, BytesAt
<1>2. From(v)' = From(v) /\ \A n : Cap(v, n)' = Cap(v, n)
  BY DEF From, InputIdx, Cap
<1>3. Len(outStreamVSize[v])' = Len(outStreamVSize[v])
  OBVIOUS
<1>4. Cap(v, UpTo(v, Len(outStreamVSize[v])))' = Cap(v, UpTo(v, Len(outStreamVSize[v])))
  BY <1>1, <1>2, <1>3 DEF Cap
<1>5. \A k : Cap(v, UpTo(v, k))' = Cap(v, UpTo(v, k))
  BY <1>1 DEF Cap
<1>6. UpTo(v, Len(outStreamVSize[v]))' = UpTo(v, Len(outStreamVSize[v]))
  BY <1>1, <1>3
<1> QED BY <1>1, <1>2, <1>3, <1>4, <1>5, <1>6 DEF WordData

LEMMA ByteDataUntouched ==
    ASSUME NEW v \in Lanes, ByteData(v), input_size' = input_size,
           outStreamVSize'[v] = outStreamVSize[v], sizesRead'[v] = sizesRead[v],
           wordsRead'[v] = wordsRead[v], dpc'[v] = dpc[v], inSize'[v] = inSize[v],
           itr'[v] = itr[v], inBuffer'[v] = inBuffer[v], outStream'[v] = outStream[v]
    PROVE  ByteData(v)'
<1>1. \A k : UpTo(v, k)' = UpTo(v, k)
  BY DEF UpTo
<1>2. From(v)' = From(v)
  BY DEF From, InputIdx
<1>3. \A k : Cap(v, UpTo(v, k))' = Cap(v, UpTo(v, k))
  BY <1>1 DEF Cap
<1>4. Cap(v, UpTo(v, sizesRead[v]))' = Cap(v, UpTo(v, sizesRead[v]))
  BY <1>1 DEF Cap
<1>5. UpTo(v, sizesRead[v] - 1)' = UpTo(v, sizesRead[v] - 1)
  BY <1>1
<1> QED BY <1>2, <1>4, <1>5 DEF ByteData

\* A size appended to a lane's FIFO, for the words since the one before.
LEMMA DataAppended ==
    ASSUME TypeOK, NEW v \in Lanes, NEW bytes \in Nat, NEW w \in Nat,
           NEW n \in Nat, n = Len(outStreamVSize[v]),
           outStreamVSize'[v] = Append(outStreamVSize[v], Size(bytes, w)),
           input_size' = input_size, outStreamV'[v] = outStreamV[v],
           WordData(v), Cap(v, w) = Cap(v, UpTo(v, n)) + bytes,
           read_idx'[v] = From(v) + w, read_size'[v] = Cap(v, w),
           ByteData(v), sizesRead'[v] = sizesRead[v],
           wordsRead'[v] = wordsRead[v], dpc'[v] = dpc[v], inSize'[v] = inSize[v],
           itr'[v] = itr[v], inBuffer'[v] = inBuffer[v], outStream'[v] = outStream[v],
           DownInv(v)
    PROVE  WordData(v)' /\ ByteData(v)'
<1>1. /\ Len(outStreamVSize'[v]) = n + 1
      /\ \A k \in 0..n : UpTo(v, k)' = UpTo(v, k)
      /\ \A k \in 1..n : BytesAt(v, k)' = BytesAt(v, k)
      /\ UpTo(v, n + 1)' = w /\ BytesAt(v, n + 1)' = bytes
  BY AppendedSize
<1>2. From(v)' = From(v)
  BY DEF From, InputIdx
<1>3. /\ \A k \in 0..n : Cap(v, UpTo(v, k))' = Cap(v, UpTo(v, k))
      /\ Cap(v, UpTo(v, n + 1))' = Cap(v, w)
  BY <1>1 DEF Cap
<1>4. WordData(v)'
  <2>1. ASSUME NEW k \in 1..n + 1
        PROVE  Cap(v, UpTo(v, k))' = Cap(v, UpTo(v, k - 1))' + BytesAt(v, k)'
    <3>1. CASE k = n + 1
      <4>1. k - 1 = n /\ k - 1 \in 0..n
        BY <3>1
      <4>2. Cap(v, UpTo(v, k - 1))' = Cap(v, UpTo(v, n))
        BY <1>3, <4>1
      <4> QED BY <1>1, <1>3, <3>1, <4>2
    <3>2. CASE k \in 1..n
      <4>1. k \in 0..n /\ k - 1 \in 0..n
        BY <3>2
      <4>2. Cap(v, UpTo(v, k)) = Cap(v, UpTo(v, k - 1)) + BytesAt(v, k)
        BY <3>2 DEF WordData
      <4> QED BY <1>1, <1>3, <3>2, <4>1, <4>2
    <3> QED BY <3>1, <3>2
  <2>2. Len(outStreamVSize[v])' = n + 1
    BY <1>1
  <2>3. UpTo(v, Len(outStreamVSize[v]))' = w
    BY <1>1, <2>2
  <2>4. Cap(v, UpTo(v, Len(outStreamVSize[v])))' = Cap(v, w)
    BY <2>3 DEF Cap
  <2>5. \A k \in 1..Len(outStreamV[v])' : outStreamV'[v][k] = From(v)' + k - 1
    BY <1>2 DEF WordData
  <2> QED BY <1>2, <2>1, <2>2, <2>3, <2>4, <2>5 DEF WordData
<1>5. ByteData(v)'
  <2>1. sizesRead[v] \in 0..n /\ (dpc[v] = "bytes" => sizesRead[v] - 1 \in 0..n)
    BY LaneTypes DEF DownInv
  <2>2. Cap(v, UpTo(v, sizesRead[v]))' = Cap(v, UpTo(v, sizesRead[v]))
    BY <1>1, <2>1 DEF Cap
  <2>3. dpc[v] = "bytes" => UpTo(v, sizesRead[v] - 1)' = UpTo(v, sizesRead[v] - 1)
    BY <1>1, <2>1
  <2> QED BY <1>2, <2>2, <2>3 DEF ByteData
<1> QED BY <1>4, <1>5

\* The polling process leaves its loop only when no lane is pending.
LEMMA AdvanceEnds ==
    ASSUME NEW pending, Advance(pending), pc' # "poll"
    PROVE  \A v \in Lanes : ~pending[v]
<1> DEFINE more == \E v \in Lanes : pending[v]
<1>1. pc' = "poll" \/ pc' = IF more THEN "poll" ELSE "size_init"
  BY DEF Advance
<1>2. ~more
  <2> HIDE DEF more
  <2> QED BY <1>1
<1> QED BY <1>2, Zenon

\* Together with what the counters say.
AllInv == IInv /\ DataInv

\* Only the polling process, and of it only the flags, the lane and its place.
LEMMA DataSkip ==
    ASSUME AllInv, Skip
    PROVE  DataInv'
<1>1. /\ pc = "poll" /\ vid \in Lanes /\ TypeOK
      /\ UNCHANGED <<read_idx, read_size, input_size, outStreamV, wordsRead, outStreamVSize, sizesRead,
                     downVars, outStream>>
  BY DEF AllInv, IInv, TypeOK, Skip
<1>2. is_pending' = [is_pending EXCEPT ![vid] = Pending(vid) > 0] /\ Advance(is_pending')
  BY DEF Skip
<1>3. is_pending \in [Lanes -> BOOLEAN]
  BY <1>1 DEF TypeOK
<1>4. ASSUME NEW v \in Lanes, ~is_pending'[v] PROVE read_size[v] = input_size[v]
  <2>1. CASE v = vid
    <3> DEFINE more == Pending(vid) > 0
    <3>1. is_pending' = [is_pending EXCEPT ![vid] = more]
      BY <1>2
    <3> HIDE DEF more
    <3>2. is_pending'[vid] = more
      BY <1>1, <1>3, <3>1
    <3>3. ~more
      BY <1>4, <2>1, <3>2
    <3> QED BY <1>1, <2>1, <3>3, PendingRest DEF more
  <2>2. CASE v # vid
    <3>1. is_pending'[v] = is_pending[v]
      BY <1>2, <2>2, <1>3
    <3> QED BY <1>4, <3>1 DEF AllInv, DataInv, LaneData, PollData
  <2> QED BY <2>1, <2>2
<1>5. ASSUME NEW v \in Lanes PROVE PollData(v)'
  <2>1. pc' \in {"poll", "size_init"} /\ (pc' # "poll" => ~is_pending'[v])
    BY <1>1, <1>2, AdvanceType, AdvanceEnds
  <2> QED BY <1>1, <1>4, <2>1 DEF PollData
<1>6. ASSUME NEW v \in Lanes PROVE WordData(v)' /\ ByteData(v)'
  BY <1>1, WordDataUntouched, ByteDataUntouched DEF AllInv, DataInv, LaneData, downVars
<1> QED BY <1>5, <1>6 DEF DataInv, LaneData

LEMMA DataStartBurst ==
    ASSUME AllInv, StartBurst
    PROVE  DataInv'
<1>1. /\ pc' = "burst" /\ is_pending' = [is_pending EXCEPT ![vid] = TRUE]
      /\ UNCHANGED <<read_idx, read_size, input_size, outStreamV, wordsRead, outStreamVSize, sizesRead,
                     downVars, outStream>>
  BY DEF StartBurst
<1>2. is_pending \in [Lanes -> BOOLEAN]
  BY DEF AllInv, IInv, TypeOK
<1>3. ASSUME NEW v \in Lanes PROVE PollData(v)'
  <2>1. is_pending'[v] = TRUE \/ is_pending'[v] = is_pending[v]
    BY <1>1, <1>2
  <2> QED BY <1>1, <2>1 DEF PollData, AllInv, DataInv, LaneData
<1>4. ASSUME NEW v \in Lanes PROVE WordData(v)' /\ ByteData(v)'
  BY <1>1, WordDataUntouched, ByteDataUntouched DEF AllInv, DataInv, LaneData, downVars
<1> QED BY <1>3, <1>4 DEF DataInv, LaneData

\* The word read is the next one of the lane's block.
LEMMA DataGmemRead ==
    ASSUME AllInv, GmemRead
    PROVE  DataInv'
<1>1. /\ pc = "burst" /\ pc' = "burst" /\ vid \in Lanes /\ TypeOK
      /\ outStreamV' = [outStreamV EXCEPT ![vid] = Append(@, read_idx[vid] + midx)]
      /\ UNCHANGED <<is_pending, read_idx, read_size, input_size, wordsRead, outStreamVSize, sizesRead,
                     downVars, outStream>>
  BY DEF AllInv, IInv, TypeOK, GmemRead
<1>2. ASSUME NEW v \in Lanes PROVE PollData(v)'
  BY <1>1 DEF PollData, AllInv, DataInv, LaneData
<1>3. ASSUME NEW v \in Lanes PROVE ByteData(v)'
  BY <1>1, ByteDataUntouched DEF AllInv, DataInv, LaneData, downVars
<1>4. ASSUME NEW v \in Lanes PROVE WordData(v)'
  <2>1. WordData(v)
    BY DEF AllInv, DataInv, LaneData
  <2>2. CASE v # vid
    <3>1. outStreamV'[v] = outStreamV[v]
      BY <1>1, <2>2 DEF TypeOK
    <3> QED BY <1>1, <2>1, <3>1, WordDataUntouched
  <2>3. CASE v = vid
    <3> DEFINE s == outStreamV[v]  x == read_idx[v] + midx  n == UpTo(v, Len(outStreamVSize[v]))
    <3>1. s \in Seq(Nat) /\ midx \in Nat /\ read_idx[v] \in Nat /\ Len(s) \in Nat
      BY <1>1, LaneTypes DEF TypeOK
    <3>2. outStreamV'[v] = Append(s, x)
      BY <1>1, <2>3 DEF TypeOK
    <3>3. Len(s) = n + midx /\ n \in Nat
      <4>1. WordsInv(v)
        BY DEF AllInv, IInv
      <4>2. Len(outStreamVSize[v]) \in 0..Len(outStreamVSize[v])
        BY <1>1, LaneTypes
      <4> QED BY <1>1, <2>3, <4>1, <4>2, UpToIsNat DEF WordsInv
    <3>4. read_idx[v] = From(v) + n /\ From(v) \in Nat
      BY <2>1, InputIdxIsNat DEF WordData, From
    <3>5. \A k \in 1..Len(s) : s[k] = From(v) + k - 1
      BY <2>1 DEF WordData
    <3>6. \A k \in 1..Len(outStreamV'[v]) : outStreamV'[v][k] = From(v) + k - 1
      <4>1. x = From(v) + Len(s) /\ x \in Nat
        <5> HIDE DEF n, s
        <5> QED BY <3>1, <3>3, <3>4
      <4> HIDE DEF s, x
      <4>2. /\ Len(Append(s, x)) = Len(s) + 1 /\ Append(s, x)[Len(s) + 1] = x
            /\ \A k \in 1..Len(s) : Append(s, x)[k] = s[k]
        BY <3>1, <4>1, AppendProperties
      <4>3. \A k \in 1..Len(s) + 1 : k \in 1..Len(s) \/ k = Len(s) + 1
        BY <3>1
      <4> QED BY <3>1, <3>2, <3>4, <3>5, <4>1, <4>2, <4>3
    <3>7. \A k : UpTo(v, k)' = UpTo(v, k) /\ BytesAt(v, k)' = BytesAt(v, k)
      BY <1>1 DEF UpTo, BytesAt
    <3>8. From(v)' = From(v) /\ \A k : Cap(v, UpTo(v, k))' = Cap(v, UpTo(v, k))
      BY <1>1, <3>7 DEF From, InputIdx, Cap
    <3>9. Cap(v, UpTo(v, Len(outStreamVSize[v])))' = Cap(v, UpTo(v, Len(outStreamVSize[v])))
          /\ UpTo(v, Len(outStreamVSize[v]))' = UpTo(v, Len(outStreamVSize[v]))
      BY <1>1 DEF Cap, UpTo
    <3> HIDE DEF s, n, x
    <3> QED BY <1>1, <2>1, <3>6, <3>7, <3>8, <3>9 DEF WordData
  <2> QED BY <2>2, <2>3
<1> QED BY <1>2, <1>3, <1>4 DEF DataInv, LaneData

\* The size announced is that of the bytes of the block in the words of the burst.
LEMMA DataAnnounce ==
    ASSUME AllInv, Announce
    PROVE  DataInv'
<1>1. /\ pc = "burst" /\ pc' \in {"poll", "size_init"} /\ vid \in Lanes /\ TypeOK
      /\ midx = burstSize /\ Advance(is_pending)
      /\ outStreamVSize' = [outStreamVSize EXCEPT ![vid] =
                                Append(@, Size(Announced(vid), Len(outStreamV[vid])))]
      /\ read_idx' = [read_idx EXCEPT ![vid] = @ + burstSize]
      /\ read_size' = [read_size EXCEPT ![vid] = @ + Announced(vid)]
      /\ UNCHANGED <<is_pending, input_size, outStreamV, wordsRead, sizesRead, downVars, outStream>>
  BY AdvanceType DEF AllInv, IInv, TypeOK, Announce, BurstWritten
<1>2. ASSUME NEW v \in Lanes, v # vid PROVE LaneData(v)'
  <2>1. /\ outStreamVSize'[v] = outStreamVSize[v] /\ read_idx'[v] = read_idx[v]
        /\ read_size'[v] = read_size[v]
    BY <1>1, <1>2 DEF TypeOK
  <2>2. WordData(v)' /\ ByteData(v)'
    BY <1>1, <2>1, WordDataUntouched, ByteDataUntouched DEF AllInv, DataInv, LaneData, downVars
  <2>3. PollData(v)'
    <3>1. pc' # "poll" => ~is_pending[v]
      BY <1>1, AdvanceEnds
    <3> QED BY <1>1, <2>1, <3>1 DEF PollData, AllInv, DataInv, LaneData
  <2> QED BY <2>2, <2>3 DEF LaneData
<1>3. ASSUME NEW v \in Lanes, v = vid PROVE LaneData(v)'
  <2> DEFINE n == Len(outStreamVSize[v])  w == Len(outStreamV[v])  u == UpTo(v, n)
             bytes == Announced(v)
  <2>1. /\ WordData(v) /\ PollData(v) /\ ByteData(v) /\ WordsInv(v) /\ DownInv(v)
        /\ Pending(v) > 0 /\ burstSize = BurstOf(v)
    BY <1>1, <1>3 DEF AllInv, IInv, DataInv, LaneData, BurstInv
  <2>2. /\ n \in Nat /\ w \in Nat /\ u \in Nat /\ midx \in Nat /\ bytes \in Nat \ {0}
        /\ input_size[v] \in Nat /\ read_size[v] \in Nat /\ read_size[v] < input_size[v]
        /\ read_idx[v] \in Nat /\ read_size[v] + bytes <= input_size[v]
    <3>1. n \in 0..n /\ n \in Nat /\ w \in Nat /\ midx \in Nat
      BY <1>1, LaneTypes
    <3>2. u \in Nat
      BY <1>1, <3>1, UpToIsNat
    <3>3. /\ bytes \in Nat \ {0} /\ input_size[v] \in Nat /\ read_size[v] \in Nat
          /\ read_size[v] < input_size[v] /\ read_size[v] + bytes <= input_size[v]
      BY <1>1, <2>1, BurstHolds, PendingRest
    <3>4. read_idx[v] \in Nat
      BY <1>1 DEF TypeOK
    <3> QED BY <3>1, <3>2, <3>3, <3>4
  <2>3. w = u + midx
    BY <1>1, <1>3, <2>1 DEF WordsInv
  <2>4. read_size[v] = WordSize * u /\ read_size[v] = Cap(v, u)
    BY <1>1, <2>1, <2>2, CapBounds DEF WordData
  <2>5. Cap(v, w) = Cap(v, u) + bytes
    <3>0. WordSize \in Nat
      BY LanesAssumption
    <3>1. WordSize * u \in Nat /\ WordSize * midx \in Nat /\ midx * WordSize = WordSize * midx
      <4> HIDE DEF u
      <4> QED BY <2>2, <3>0, ProductIsNat, SMT
    <3>2. WordSize * w = WordSize * u + WordSize * midx
      <4> HIDE DEF u, w
      <4> QED BY <2>2, <2>3, <3>0, <3>1, SMT
    <3>3. bytes = IF read_size[v] + midx * WordSize < input_size[v] THEN midx * WordSize
                  ELSE input_size[v] - read_size[v]
      BY <1>1, <1>3 DEF Announced
    <3> HIDE DEF u, w, bytes
    <3> QED BY <2>2, <2>4, <3>1, <3>2, <3>3 DEF Cap
  <2>6. read_idx'[v] = From(v) + w /\ read_size'[v] = Cap(v, w)
    <3>1. read_idx'[v] = read_idx[v] + midx /\ read_size'[v] = read_size[v] + bytes
      BY <1>1, <1>3 DEF TypeOK
    <3>2. read_idx[v] = From(v) + u /\ From(v) \in Nat
      BY <1>1, <2>1, InputIdxIsNat DEF WordData, From
    <3> HIDE DEF u, w, bytes
    <3> QED BY <2>2, <2>3, <2>4, <2>5, <3>1, <3>2
  <2>7. outStreamVSize'[v] = Append(outStreamVSize[v], Size(bytes, w))
    BY <1>1, <1>3 DEF TypeOK
  <2>8. WordData(v)' /\ ByteData(v)'
    <3>1. /\ v \in Lanes /\ bytes \in Nat /\ w \in Nat /\ n \in Nat /\ n = Len(outStreamVSize[v])
          /\ Cap(v, w) = Cap(v, UpTo(v, n)) + bytes
      BY <1>1, <2>2, <2>5
    <3>2. /\ input_size' = input_size /\ outStreamV'[v] = outStreamV[v]
          /\ sizesRead'[v] = sizesRead[v] /\ wordsRead'[v] = wordsRead[v] /\ dpc'[v] = dpc[v]
          /\ inSize'[v] = inSize[v] /\ itr'[v] = itr[v] /\ inBuffer'[v] = inBuffer[v]
          /\ outStream'[v] = outStream[v]
      BY <1>1 DEF downVars
    <3> HIDE DEF n, w, u, bytes
    <3> QED BY <1>1, <2>1, <2>6, <2>7, <3>1, <3>2, DataAppended
  <2>9. PollData(v)'
    <3>1. ~is_pending[v] => FALSE
      BY <1>1, <2>1, <2>2 DEF PollData
    <3>2. pc' = "poll" /\ is_pending'[v] = is_pending[v]
      BY <1>1, <3>1, AdvanceEnds
    <3> QED BY <3>1, <3>2 DEF PollData
  <2> QED BY <2>8, <2>9 DEF LaneData
<1> QED BY <1>2, <1>3 DEF DataInv

\* A size of zero is announced when there is nothing else to announce.
LEMMA DataSizeInit ==
    ASSUME AllInv, SizeInit
    PROVE  DataInv'
<1>1. /\ pc = "size_init" /\ pc' \in {"size_init", "done"} /\ vid \in Lanes /\ TypeOK
      /\ outStreamVSize' = [outStreamVSize EXCEPT ![vid] = Append(@, Size(0, Len(outStreamV[vid])))]
      /\ UNCHANGED <<is_pending, read_idx, read_size, input_size, outStreamV, wordsRead, sizesRead,
                     downVars, outStream>>
  BY DEF AllInv, IInv, TypeOK, SizeInit
<1>2. ASSUME NEW v \in Lanes PROVE PollData(v)'
  BY <1>1 DEF PollData, AllInv, DataInv, LaneData
<1>3. ASSUME NEW v \in Lanes, v # vid PROVE WordData(v)' /\ ByteData(v)'
  <2>1. outStreamVSize'[v] = outStreamVSize[v]
    BY <1>1, <1>3 DEF TypeOK
  <2> QED BY <1>1, <2>1, WordDataUntouched, ByteDataUntouched DEF AllInv, DataInv, LaneData, downVars
<1>4. ASSUME NEW v \in Lanes, v = vid PROVE WordData(v)' /\ ByteData(v)'
  <2> DEFINE n == Len(outStreamVSize[v])  w == Len(outStreamV[v])  u == UpTo(v, n)
  <2>1. WordData(v) /\ ByteData(v) /\ WordsInv(v) /\ DownInv(v)
    BY DEF AllInv, IInv, DataInv, LaneData
  <2>2. n \in Nat /\ w \in Nat /\ u \in Nat
    <3>1. n \in 0..n /\ n \in Nat /\ w \in Nat
      BY <1>1, LaneTypes
    <3> QED BY <1>1, <3>1, UpToIsNat
  <2>3. w = u
    BY <1>1, <2>1, <2>2 DEF WordsInv
  <2>4. Cap(v, w) \in Nat
    BY <1>1, <2>2, CapBounds
  <2>5. /\ read_idx'[v] = From(v) + w /\ read_size'[v] = Cap(v, w)
        /\ Cap(v, w) = Cap(v, UpTo(v, n)) + 0
    BY <1>1, <2>1, <2>3, <2>4 DEF WordData
  <2>6. outStreamVSize'[v] = Append(outStreamVSize[v], Size(0, w))
    BY <1>1, <1>4 DEF TypeOK
  <2>7. /\ input_size' = input_size /\ outStreamV'[v] = outStreamV[v]
        /\ sizesRead'[v] = sizesRead[v] /\ wordsRead'[v] = wordsRead[v] /\ dpc'[v] = dpc[v]
        /\ inSize'[v] = inSize[v] /\ itr'[v] = itr[v] /\ inBuffer'[v] = inBuffer[v]
        /\ outStream'[v] = outStream[v] /\ n = Len(outStreamVSize[v])
    BY <1>1 DEF downVars
  <2> HIDE DEF n, w, u
  <2> QED BY <1>1, <2>1, <2>2, <2>5, <2>6, <2>7, DataAppended
<1> QED BY <1>2, <1>3, <1>4 DEF DataInv, LaneData

\* A downsizer that takes the size of a burst has given the words before it.
LEMMA DataReadSize ==
    ASSUME AllInv, NEW u \in Lanes, ReadSize(u)
    PROVE  DataInv'
<1>1. /\ TypeOK
      /\ UNCHANGED <<input_size, simpleVars, outStreamV, wordsRead, outStreamVSize, inBuffer, outStream>>
  BY DEF ReadSize, AllInv, IInv
<1>2. ASSUME NEW v \in Lanes PROVE PollData(v)' /\ WordData(v)'
  BY <1>1, WordDataUntouched DEF PollData, AllInv, DataInv, LaneData, simpleVars
<1>3. ASSUME NEW v \in Lanes, v # u PROVE ByteData(v)'
  <2>1. /\ sizesRead'[v] = sizesRead[v] /\ dpc'[v] = dpc[v]
        /\ inSize'[v] = inSize[v] /\ itr'[v] = itr[v]
    BY <1>1, <1>3 DEF TypeOK, ReadSize
  <2> QED BY <1>1, <2>1, ByteDataUntouched DEF AllInv, DataInv, LaneData
<1>4. ByteData(u)'
  <2>1. WordData(u) /\ ByteData(u) /\ dpc[u] = "size" /\ sizesRead[u] < Len(outStreamVSize[u])
    BY DEF AllInv, DataInv, LaneData, ReadSize
  <2>2. PICK k \in 1..Len(outStreamVSize[u]) : k = sizesRead[u] + 1
    BY <1>1, <2>1, LaneTypes
  <2>3. /\ UpTo(u, k) \in Nat /\ UpTo(u, k - 1) \in Nat /\ BytesAt(u, k) \in Nat
        /\ k - 1 = sizesRead[u]
    <3>1. k \in 0..Len(outStreamVSize[u]) /\ k - 1 \in 0..Len(outStreamVSize[u]) /\ k > 0
      BY <1>1, <2>2, LaneTypes
    <3>2. k - 1 = sizesRead[u]
      BY <1>1, <2>2, LaneTypes
    <3> QED BY <1>1, <3>1, <3>2, UpToIsNat
  <2>4. /\ sizesRead'[u] = k /\ itr'[u] = 0 /\ inSize'[u] = BytesAt(u, k)
        /\ dpc'[u] = IF BytesAt(u, k) = 0 THEN "done" ELSE "bytes"
    BY <1>1, <2>2 DEF TypeOK, ReadSize, BytesAt
  <2>5. \A j : UpTo(u, j)' = UpTo(u, j) /\ Cap(u, UpTo(u, j))' = Cap(u, UpTo(u, j))
    BY <1>1 DEF UpTo, Cap
  <2>6. /\ Cap(u, UpTo(u, k)) = Cap(u, UpTo(u, k - 1)) + BytesAt(u, k)
        /\ Len(outStream[u]) = Cap(u, UpTo(u, k - 1))
    BY <2>1, <2>2, <2>3 DEF WordData, ByteData
  <2>7. \A j \in 1..Len(outStream[u]) : outStream[u][j] = Base(u) * WordSize + j - 1
    BY <2>1 DEF ByteData
  <2>8. /\ Cap(u, UpTo(u, k)) \in Nat /\ Cap(u, UpTo(u, k - 1)) \in Nat /\ input_size[u] \in Nat
        /\ Cap(u, UpTo(u, k)) <= input_size[u]
        /\ Cap(u, UpTo(u, k - 1)) < input_size[u] => Cap(u, UpTo(u, k - 1)) = WordSize * UpTo(u, k - 1)
    BY <1>1, <2>3, CapBounds
  <2>9. Cap(u, UpTo(u, sizesRead[u]))' = Cap(u, UpTo(u, k))
        /\ UpTo(u, sizesRead[u] - 1)' = UpTo(u, k - 1)
    <3>1. UpTo(u, sizesRead[u])' = UpTo(u, k) /\ UpTo(u, sizesRead[u] - 1)' = UpTo(u, k - 1)
      BY <2>4, <2>5
    <3> QED BY <1>1, <3>1 DEF Cap
  <2>10. CASE BytesAt(u, k) = 0
    BY <1>1, <2>4, <2>6, <2>7, <2>8, <2>9, <2>10 DEF ByteData
  <2>11. CASE BytesAt(u, k) # 0
    <3>1. Len(outStream[u]) = WordSize * UpTo(u, k - 1) /\ WordSize * UpTo(u, k - 1) \in Nat
      BY <2>3, <2>6, <2>8, <2>11
    <3>2. itr'[u] % WordSize = 0
      BY <2>4, LanesAssumption
    <3> QED BY <1>1, <2>3, <2>4, <2>7, <2>9, <2>11, <3>1, <3>2 DEF ByteData
  <2> QED BY <2>10, <2>11
<1> QED BY <1>2, <1>3, <1>4 DEF DataInv, LaneData

\* A word in part: the bytes in the words before it, and those in it.
LEMMA HoldsPart ==
    ASSUME NEW words \in Nat, NEW bytes \in Nat, Holds(words, bytes), bytes % WordSize # 0
    PROVE  words \in Nat \ {0} /\ bytes = WordSize * (words - 1) + (bytes % WordSize)
<1> DEFINE W == WordSize  q == bytes \div W  r == bytes % W
<1>1. W \in Nat \ {0}
  BY LanesAssumption
<1>2. q \in Nat /\ r \in 1..W - 1 /\ bytes = W * q + r
  <2>1. q \in Nat /\ r \in 0..W - 1 /\ bytes = W * q + r /\ r # 0
    BY <1>1, DivMod
  <2> HIDE DEF q, r, W
  <2> QED BY <1>1, <2>1
<1>3. Holds(q + 1, bytes)
  <2>1. W * (q + 1) = W * q + W /\ W * q \in Nat
    <3> HIDE DEF q, W
    <3> QED BY <1>1, <1>2, ProductIsNat, SMT
  <2>2. bytes <= W * (q + 1) /\ W * (q + 1) < bytes + W
    <3> HIDE DEF q, W, r
    <3> QED BY <1>1, <1>2, <2>1
  <2> QED BY <2>2 DEF Holds
<1>4. q + 1 \in Nat
  <2> HIDE DEF q
  <2> QED BY <1>2
<1>5. words = q + 1
  BY <1>3, <1>4, HoldsUnique
<1>6. words - 1 = q
  <2> HIDE DEF q
  <2> QED BY <1>2, <1>5
<1>7. bytes = W * (words - 1) + r
  BY <1>2, <1>6
<1>8. words \in Nat \ {0}
  <2> HIDE DEF q
  <2> QED BY <1>2, <1>5
<1> QED BY <1>7, <1>8

\* The byte written is the next one of the block.
LEMMA DataDownsize ==
    ASSUME AllInv, NEW u \in Lanes, Downsize(u)
    PROVE  DataInv'
<1>1. /\ TypeOK
      /\ UNCHANGED <<input_size, simpleVars, outStreamV, outStreamVSize, sizesRead, dpc, inSize>>
  BY DEF Downsize, AllInv, IInv
<1>2. ASSUME NEW v \in Lanes PROVE PollData(v)' /\ WordData(v)'
  BY <1>1, WordDataUntouched DEF PollData, AllInv, DataInv, LaneData, simpleVars
<1>3. ASSUME NEW v \in Lanes, v # u PROVE ByteData(v)'
  <2>1. /\ wordsRead'[v] = wordsRead[v] /\ itr'[v] = itr[v]
        /\ inBuffer'[v] = inBuffer[v] /\ outStream'[v] = outStream[v]
    BY <1>1, <1>3 DEF TypeOK, Downsize
  <2> QED BY <1>1, <2>1, ByteDataUntouched DEF AllInv, DataInv, LaneData
<1>4. ByteData(u)'
  <2> DEFINE n == sizesRead[u]  prev == UpTo(u, n - 1)  words == wordsRead[u] - prev
             s == outStream[u]  b == itr[u]
             x == Buffer(u) * WordSize + (itr[u] % WordSize)
  <2>1. WordData(u) /\ ByteData(u) /\ DownInv(u) /\ SizesInv(u) /\ dpc[u] = "bytes" /\ b < inSize[u]
    BY DEF AllInv, IInv, DataInv, LaneData, Downsize, OutSizeV
  <2>2. /\ n \in 1..Len(outStreamVSize[u]) /\ inSize[u] = BytesAt(u, n) /\ inSize[u] > 0
        /\ wordsRead[u] >= prev /\ Holds(words, b) /\ Len(s) = WordSize * prev + b
        /\ b % WordSize # 0 => inBuffer[u] = From(u) + wordsRead[u] - 1
    BY <1>1, <2>1, LaneTypes DEF DownInv, ByteData
  <2>3. /\ prev \in Nat /\ UpTo(u, n) \in Nat /\ BytesAt(u, n) \in Nat /\ wordsRead[u] \in Nat
        /\ b \in Nat /\ inSize[u] \in Nat /\ inBuffer[u] \in Nat /\ s \in Seq(Nat) /\ words \in Nat
    <3>1. n \in 0..Len(outStreamVSize[u]) /\ n - 1 \in 0..Len(outStreamVSize[u]) /\ n > 0
      BY <1>1, <2>2, LaneTypes
    <3>2. prev \in Nat /\ UpTo(u, n) \in Nat /\ BytesAt(u, n) \in Nat /\ wordsRead[u] \in Nat
      BY <1>1, <3>1, LaneTypes, UpToIsNat
    <3>3. words \in Nat
      <4> HIDE DEF prev
      <4> QED BY <2>2, <3>2
    <3>4. b \in Nat /\ inSize[u] \in Nat /\ inBuffer[u] \in Nat /\ s \in Seq(Nat)
      BY <1>1 DEF TypeOK
    <3> QED BY <3>2, <3>3, <3>4
  <2>4. From(u) = Base(u) /\ From(u) \in Nat
    <3>1. Cap(u, UpTo(u, n)) = Cap(u, prev) + BytesAt(u, n)
      BY <2>1, <2>2 DEF WordData
    <3>2. /\ Cap(u, UpTo(u, n)) <= input_size[u] /\ Cap(u, prev) \in Nat
          /\ Cap(u, UpTo(u, n)) \in Nat /\ input_size[u] \in Nat
      BY <1>1, <2>3, CapBounds
    <3>3. input_size[u] # 0
      <4> HIDE DEF prev, n
      <4> QED BY <2>2, <2>3, <3>1, <3>2
    <3> QED BY <3>3, InputIdxIsNat DEF From, InputIdx
  <2>5. /\ itr'[u] = b + 1 /\ outStream'[u] = Append(s, x)
        /\ wordsRead'[u] = IF NeedsWord(u) THEN wordsRead[u] + 1 ELSE wordsRead[u]
        /\ inBuffer'[u] = Buffer(u)
    <3> HIDE DEF NeedsWord, Buffer
    <3> QED BY <1>1 DEF TypeOK, Downsize
  <2>6. WordSize \in Nat /\ WordSize * prev \in Nat /\ WordSize * words \in Nat /\ From(u) * WordSize \in Nat
    <3>1. WordSize \in Nat
      BY LanesAssumption
    <3> HIDE DEF prev, words
    <3> QED BY <2>3, <2>4, <3>1, ProductIsNat
  <2>7. wordsRead[u] = prev + words
    <3> HIDE DEF prev
    <3> QED BY <2>3
  <2>8. Buffer(u) = From(u) + wordsRead'[u] - 1 /\ x = From(u) * WordSize + Len(s)
    <3>1. CASE NeedsWord(u)
      <4>1. WordSize * words = b /\ b % WordSize = 0
        <5>1. b % WordSize = 0
          BY <3>1 DEF NeedsWord
        <5> HIDE DEF words, b
        <5> QED BY <2>2, <2>3, <5>1, HoldsExactly
      <4>2. wordsRead[u] < Len(outStreamV[u]) /\ Len(outStreamV[u]) \in Nat
        BY <1>1, <3>1, LaneTypes DEF Downsize
      <4>3. outStreamV[u][wordsRead[u] + 1] = From(u) + wordsRead[u]
        <5>1. wordsRead[u] + 1 \in 1..Len(outStreamV[u])
          BY <2>3, <4>2
        <5>2. outStreamV[u][wordsRead[u] + 1] = From(u) + (wordsRead[u] + 1) - 1
          BY <2>1, <5>1 DEF WordData
        <5> QED BY <2>3, <2>4, <5>2
      <4>4. Buffer(u) = From(u) + wordsRead[u]
        BY <3>1, <4>3 DEF Buffer
      <4>5. x = (From(u) + wordsRead[u]) * WordSize
        BY <2>3, <2>4, <2>6, <4>1, <4>4
      <4>6. (From(u) + wordsRead[u]) * WordSize = From(u) * WordSize + WordSize * prev + WordSize * words
        <5> HIDE DEF prev, words
        <5> QED BY <2>3, <2>4, <2>6, <2>7, SMT
      <4>7. x = From(u) * WordSize + Len(s)
        <5> HIDE DEF prev, words, x, s, b
        <5> QED BY <2>2, <2>3, <2>6, <4>1, <4>5, <4>6
      <4>8. wordsRead'[u] = wordsRead[u] + 1
        BY <2>5, <3>1
      <4> QED BY <2>3, <2>4, <4>4, <4>7, <4>8
    <3>2. CASE ~NeedsWord(u)
      <4>1. Buffer(u) = From(u) + wordsRead[u] - 1
        BY <2>2, <3>2 DEF Buffer, NeedsWord
      <4>2. words \in Nat \ {0} /\ b = WordSize * (words - 1) + (b % WordSize)
        <5>1. b % WordSize # 0
          BY <3>2 DEF NeedsWord
        <5> HIDE DEF words, b
        <5> QED BY <2>2, <2>3, <5>1, HoldsPart
      <4>3. b % WordSize \in Nat /\ WordSize * (words - 1) \in Nat
        <5>1. words - 1 \in Nat /\ WordSize \in Nat \ {0}
          BY <4>2, LanesAssumption
        <5> HIDE DEF words, b
        <5> QED BY <2>3, <5>1, ProductIsNat, DivMod
      <4>4. x = (From(u) + wordsRead[u] - 1) * WordSize + (b % WordSize)
        BY <4>1
      <4>5. (From(u) + wordsRead[u] - 1) * WordSize
                = From(u) * WordSize + WordSize * prev + WordSize * (words - 1)
        <5> HIDE DEF prev, words
        <5> QED BY <2>3, <2>4, <2>6, <2>7, <4>2, SMT
      <4>6. x = From(u) * WordSize + Len(s)
        <5> DEFINE r == b % WordSize  wm == WordSize * (words - 1)
        <5>1. b = wm + r /\ wm \in Nat /\ r \in Nat
          BY <4>2, <4>3
        <5>2. x = From(u) * WordSize + WordSize * prev + wm + r
          BY <4>4, <4>5
        <5> HIDE DEF prev, words, x, s, b, r, wm
        <5> QED BY <2>2, <2>6, <5>1, <5>2
      <4>7. wordsRead'[u] = wordsRead[u]
        BY <2>5, <3>2
      <4> QED BY <4>1, <4>6, <4>7
    <3> QED BY <3>1, <3>2
  <2>9. Len(s) \in Nat /\ x \in Nat
    <3>1. Len(s) \in Nat
      BY <2>3
    <3> HIDE DEF s, x
    <3> QED BY <2>6, <2>8, <3>1
  <2>10. /\ Len(outStream'[u]) = Len(s) + 1
         /\ \A k \in 1..Len(outStream'[u]) : outStream'[u][k] = Base(u) * WordSize + k - 1
    <3>1. \A k \in 1..Len(s) : s[k] = Base(u) * WordSize + k - 1
      BY <2>1 DEF ByteData
    <3>2. x = Base(u) * WordSize + (Len(s) + 1) - 1
      <4> HIDE DEF s, x
      <4> QED BY <2>4, <2>6, <2>8, <2>9
    <3> HIDE DEF s, x
    <3>3. /\ Len(Append(s, x)) = Len(s) + 1 /\ Append(s, x)[Len(s) + 1] = x
          /\ \A k \in 1..Len(s) : Append(s, x)[k] = s[k]
      BY <2>3, <2>9, AppendProperties
    <3>4. \A k \in 1..Len(s) + 1 : k \in 1..Len(s) \/ k = Len(s) + 1
      BY <2>9
    <3> QED BY <2>5, <3>1, <3>2, <3>3, <3>4
  <2>11. /\ dpc'[u] = "bytes" /\ inSize'[u] > 0 /\ From(u)' = From(u)
         /\ UpTo(u, sizesRead[u] - 1)' = prev
    BY <1>1, <2>1, <2>2 DEF From, InputIdx, UpTo
  <2>12. Len(outStream'[u]) = WordSize * prev + itr'[u]
    <3> HIDE DEF prev, b, s
    <3> QED BY <2>2, <2>3, <2>5, <2>6, <2>10
  <2> HIDE DEF prev, s, x, b, words, n
  <2> QED BY <2>5, <2>8, <2>10, <2>11, <2>12 DEF ByteData
<1> QED BY <1>2, <1>3, <1>4 DEF DataInv, LaneData

\* At the end of a burst the downsizer has given the bytes of its words.
LEMMA DataBurstEnd ==
    ASSUME AllInv, NEW u \in Lanes, BurstEnd(u)
    PROVE  DataInv'
<1>1. /\ TypeOK
      /\ UNCHANGED <<input_size, simpleVars, outStreamV, wordsRead, outStreamVSize, sizesRead,
                     inSize, itr, inBuffer, outStream>>
  BY DEF BurstEnd, AllInv, IInv
<1>2. ASSUME NEW v \in Lanes PROVE PollData(v)' /\ WordData(v)'
  BY <1>1, WordDataUntouched DEF PollData, AllInv, DataInv, LaneData, simpleVars
<1>3. ASSUME NEW v \in Lanes, v # u PROVE ByteData(v)'
  <2>1. dpc'[v] = dpc[v]
    BY <1>1, <1>3 DEF TypeOK, BurstEnd
  <2> QED BY <1>1, <2>1, ByteDataUntouched DEF AllInv, DataInv, LaneData
<1>4. ByteData(u)'
  <2> DEFINE n == sizesRead[u]  prev == UpTo(u, n - 1)
  <2>1. /\ WordData(u) /\ ByteData(u) /\ DownInv(u) /\ dpc[u] = "bytes" /\ itr[u] >= inSize[u]
        /\ dpc'[u] = "size"
    BY <1>1 DEF AllInv, IInv, DataInv, LaneData, BurstEnd, OutSizeV, TypeOK
  <2>2. /\ n \in 1..Len(outStreamVSize[u]) /\ itr[u] = BytesAt(u, n) /\ itr[u] > 0 /\ itr[u] \in Nat
        /\ Len(outStream[u]) = WordSize * prev + itr[u]
    BY <1>1, <2>1, LaneTypes DEF DownInv, ByteData
  <2>3. prev \in Nat /\ UpTo(u, n) \in Nat
    <3>1. n \in 0..Len(outStreamVSize[u]) /\ n - 1 \in 0..Len(outStreamVSize[u])
      BY <1>1, <2>2, LaneTypes
    <3> QED BY <1>1, <3>1, UpToIsNat
  <2>4. Cap(u, UpTo(u, n)) = Cap(u, prev) + BytesAt(u, n)
    BY <2>1, <2>2 DEF WordData
  <2>5. /\ Cap(u, UpTo(u, n)) \in Nat /\ Cap(u, prev) \in Nat /\ input_size[u] \in Nat
        /\ Cap(u, UpTo(u, n)) <= input_size[u]
        /\ Cap(u, prev) < input_size[u] => Cap(u, prev) = WordSize * prev
    BY <1>1, <2>3, CapBounds
  <2>6. Len(outStream[u]) = Cap(u, UpTo(u, n))
    <3> HIDE DEF prev, n
    <3> QED BY <2>2, <2>4, <2>5
  <2>7. Cap(u, UpTo(u, sizesRead[u]))' = Cap(u, UpTo(u, n))
    BY <1>1 DEF Cap, UpTo
  <2> QED BY <1>1, <2>1, <2>6, <2>7 DEF ByteData
<1> QED BY <1>2, <1>3, <1>4 DEF DataInv, LaneData

LEMMA DataCoreRead ==
    ASSUME AllInv, NEW u \in Lanes, CoreRead(u)
    PROVE  DataInv'
<1>1. UNCHANGED <<input_size, simpleVars, outStreamV, wordsRead, outStreamVSize, sizesRead,
                  downVars, outStream>>
  BY DEF CoreRead
<1> QED BY <1>1, WordDataUntouched, ByteDataUntouched
        DEF AllInv, DataInv, LaneData, PollData, simpleVars, downVars

\* A lane has given no more than its block, and all of it when the call returns.
LEMMA NoMoreThanBlock ==
    ASSUME AllInv, NEW v \in Lanes
    PROVE  Len(outStream[v]) <= input_size[v] /\ Len(outStream[v]) \in Nat /\ input_size[v] \in Nat
<1> DEFINE n == sizesRead[v]  prev == UpTo(v, n - 1)
<1>1. /\ TypeOK /\ DownInv(v) /\ WordData(v) /\ ByteData(v)
      /\ n \in 0..Len(outStreamVSize[v]) /\ itr[v] \in Nat /\ inSize[v] \in Nat
  BY LaneTypes DEF AllInv, IInv, DataInv, LaneData
<1>2. UpTo(v, n) \in Nat
  BY <1>1, UpToIsNat
<1>3. Cap(v, UpTo(v, n)) <= input_size[v] /\ Cap(v, UpTo(v, n)) \in Nat /\ input_size[v] \in Nat
  BY <1>1, <1>2, CapBounds
<1>4. CASE dpc[v] # "bytes"
  BY <1>1, <1>3, <1>4 DEF ByteData
<1>5. CASE dpc[v] = "bytes"
  <2>1. n > 0 /\ n - 1 \in 0..Len(outStreamVSize[v]) /\ n \in 1..Len(outStreamVSize[v])
    BY <1>1, <1>5, LaneTypes DEF DownInv
  <2>2. prev \in Nat
    BY <1>1, <2>1, UpToIsNat
  <2>3. /\ inSize[v] = BytesAt(v, n) /\ itr[v] <= inSize[v] /\ inSize[v] > 0
        /\ Len(outStream[v]) = WordSize * prev + itr[v]
    BY <1>1, <1>5 DEF DownInv, ByteData
  <2>4. Cap(v, UpTo(v, n)) = Cap(v, prev) + BytesAt(v, n)
    BY <1>1, <2>1 DEF WordData
  <2>5. /\ Cap(v, prev) \in Nat /\ WordSize * prev \in Nat
        /\ Cap(v, prev) < input_size[v] => Cap(v, prev) = WordSize * prev
    BY <1>1, <2>2, CapBounds
  <2> HIDE DEF prev, n
  <2> QED BY <1>1, <1>3, <2>3, <2>4, <2>5
<1> QED BY <1>4, <1>5

LEMMA WholeBlock ==
    ASSUME AllInv, Returned, NEW v \in Lanes
    PROVE  /\ wordsRead[v] = Len(outStreamV[v]) /\ sizesRead[v] = Len(outStreamVSize[v])
           /\ Len(outStream[v]) = input_size[v] /\ bytesRead[v] = input_size[v]
           /\ input_size[v] \in Nat
<1>1. /\ TypeOK /\ WordData(v) /\ PollData(v) /\ ByteData(v)
      /\ pc = "done" /\ dpc[v] = "done" /\ bytesRead[v] >= input_size[v]
  BY DEF AllInv, IInv, DataInv, LaneData, Returned
<1>2. wordsRead[v] = Len(outStreamV[v]) /\ sizesRead[v] = Len(outStreamVSize[v])
  BY FifosEmpty DEF AllInv
<1>3. read_size[v] = input_size[v]
  BY <1>1 DEF PollData
<1>4. Len(outStream[v]) = input_size[v] /\ input_size[v] \in Nat
  BY <1>1, <1>2, <1>3, NoMoreThanBlock DEF WordData, ByteData
<1>5. bytesRead[v] \in Nat /\ bytesRead[v] <= Len(outStream[v])
  BY <1>1 DEF TypeOK
<1> QED BY <1>1, <1>2, <1>4, <1>5

\* Nothing has been read yet: the start of a call.
LaneStart(v) == /\ outStreamV[v] = <<>> /\ outStreamVSize[v] = <<>> /\ outStream[v] = <<>>
                /\ read_idx[v] = From(v) /\ read_size[v] = 0 /\ is_pending[v] = TRUE /\ pc = "poll"
                /\ dpc[v] = "size" /\ sizesRead[v] = 0

LEMMA DataStart == TypeOK /\ (\A v \in Lanes : LaneStart(v)) => DataInv
<1> SUFFICES ASSUME TypeOK, NEW v \in Lanes, LaneStart(v) PROVE LaneData(v)
  BY DEF DataInv
<1> USE DEF LaneStart
<1>1. Len(outStreamV[v]) = 0 /\ Len(outStreamVSize[v]) = 0 /\ Len(outStream[v]) = 0
  OBVIOUS
<1>2. UpTo(v, 0) = 0 /\ Cap(v, 0) = 0 /\ From(v) \in Nat
  BY CapNone, InputIdxIsNat DEF UpTo, From
<1>3. WordData(v)
  BY <1>1, <1>2 DEF WordData
<1>4. PollData(v)
  BY DEF PollData
<1>5. ByteData(v)
  BY <1>1, <1>2 DEF ByteData
<1> QED BY <1>3, <1>4, <1>5 DEF LaneData

LEMMA DataNextCall ==
    ASSUME AllInv, NextCall, TypeOK'
    PROVE  DataInv'
<1>1. ASSUME NEW v \in Lanes PROVE LaneStart(v)'
  <2>1. /\ outStreamV'[v] = SubSeq(outStreamV[v], wordsRead[v] + 1, Len(outStreamV[v]))
        /\ outStreamVSize'[v] = SubSeq(outStreamVSize[v], sizesRead[v] + 1, Len(outStreamVSize[v]))
        /\ outStream'[v] = SubSeq(outStream[v], bytesRead[v] + 1, Len(outStream[v]))
    BY DEF NextCall, Left
  <2>2. /\ wordsRead[v] = Len(outStreamV[v]) /\ sizesRead[v] = Len(outStreamVSize[v])
        /\ bytesRead[v] = Len(outStream[v])
        /\ Len(outStreamV[v]) \in Nat /\ Len(outStreamVSize[v]) \in Nat /\ Len(outStream[v]) \in Nat
    BY WholeBlock, LaneTypes DEF NextCall, AllInv, IInv
  <2>3. outStreamV'[v] = <<>> /\ outStreamVSize'[v] = <<>> /\ outStream'[v] = <<>>
    BY <2>1, <2>2, SubSeqEmpty
  <2>4. /\ read_idx'[v] = From(v)' /\ read_size'[v] = 0 /\ is_pending'[v] = TRUE /\ pc' = "poll"
        /\ dpc'[v] = "size" /\ sizesRead'[v] = 0
    BY DEF NextCall, PerLane, From
  <2> QED BY <2>3, <2>4 DEF LaneStart
<1>2. (TypeOK /\ (\A v \in Lanes : LaneStart(v)) => DataInv)'
  BY DataStart, PTL
<1> QED BY <1>1, <1>2

LEMMA DataInit == Init => DataInv
<1> SUFFICES ASSUME Init PROVE DataInv
  OBVIOUS
<1>1. ASSUME NEW v \in Lanes PROVE LaneStart(v)
  BY DEF Init, PerLane, From, LaneStart
<1> QED BY <1>1, TypeInit, DataStart

LEMMA DataNext == AllInv /\ [Next]_vars => AllInv'
<1> SUFFICES ASSUME AllInv, [Next]_vars PROVE DataInv'
  BY InvNext DEF AllInv
<1>1. CASE mm2multStreamSimple
  BY <1>1, DataSkip, DataStartBurst, DataGmemRead, DataAnnounce, DataSizeInit DEF mm2multStreamSimple
<1>2. ASSUME NEW v \in Lanes, mm2multStreamDownSizer(v) PROVE DataInv'
  BY <1>2, DataReadSize, DataDownsize, DataBurstEnd DEF mm2multStreamDownSizer
<1>3. ASSUME NEW v \in Lanes, CoreRead(v) PROVE DataInv'
  BY <1>3, DataCoreRead
<1>4. CASE NextCall
  BY <1>4, InvNext, DataNextCall DEF AllInv, IInv
<1>5. CASE UNCHANGED vars
  BY <1>5, WordDataUntouched, ByteDataUntouched
  DEF AllInv, DataInv, LaneData, PollData, vars, simpleVars, downVars
<1> QED BY <1>1, <1>2, <1>3, <1>4, <1>5 DEF Next

\* Words, sizes and bytes are those of the block, in its order.
THEOREM DataInvariance == Spec => []AllInv
<1>1. Init => AllInv
  BY InvInit, DataInit DEF AllInv
<1> QED BY <1>1, DataNext, PTL DEF Spec

\* A call that has returned leaves no word, size or byte in any FIFO of any
\* lane: what one call reads is not taken for the block of the next one.
THEOREM NothingIsLeft == Spec => []NothingLeftBehind
<1>1. AllInv => NothingLeftBehind
  BY WholeBlock DEF NothingLeftBehind
<1> QED BY <1>1, DataInvariance, PTL

-----------------------------------------------------------------------------
(* The refinement: what LaneTransfer allows is all that happens. *)

\* The block of a lane up to a byte is the block of that many bytes.
LEMMA BlockPrefix ==
    ASSUME NEW v \in Lanes, NEW n \in Nat, NEW m \in 0..n
    PROVE  /\ Len(BlockBytes(v, n)) = n
           /\ SubSeq(BlockBytes(v, n), 1, m) = BlockBytes(v, m)
<1> DEFINE f(k) == Base(v) * WordSize + k - 1
           s == BlockBytes(v, n)
<1>1. /\ s = [k \in 1..n |-> f(k)] /\ DOMAIN s = 1..n /\ \A k \in 1..n : s[k] = f(k)
      /\ BlockBytes(v, m) = [k \in 1..m |-> f(k)]
  BY DEF BlockBytes
<1> HIDE DEF f, s
<1>2. s \in Seq({f(k) : k \in 1..n})
  <2>1. s \in [1..n -> {f(k) : k \in 1..n}]
    BY <1>1
  <2> QED BY <2>1, SeqDef
<1>3. Len(s) = n
  BY <1>1, <1>2, LenProperties
<1>4. SubSeq(s, 1, m) = [k \in 1..m |-> s[1 + k - 1]]
  BY DEF SubSeq
<1>5. \A k \in 1..m : s[1 + k - 1] = f(k)
  <2>1. \A k \in 1..m : 1 + k - 1 = k /\ k \in 1..n
    OBVIOUS
  <2> QED BY <1>1, <2>1
<1> QED BY <1>1, <1>3, <1>4, <1>5 DEF s

\* What has arrived is the beginning of the block.
LEMMA Arrived ==
    ASSUME AllInv, NEW v \in Lanes
    PROVE  /\ bytesRead[v] \in 0..input_size[v] /\ input_size[v] \in Nat
           /\ SubSeq(outStream[v], 1, bytesRead[v]) = BlockBytes(v, bytesRead[v])
<1> DEFINE s == outStream[v]  m == bytesRead[v]
<1>1. m \in Nat /\ m <= Len(s) /\ Len(s) <= input_size[v] /\ Len(s) \in Nat /\ input_size[v] \in Nat
  BY NoMoreThanBlock DEF AllInv, IInv, TypeOK
<1>2. \A k \in 1..Len(s) : s[k] = Base(v) * WordSize + k - 1
  BY DEF AllInv, DataInv, LaneData, ByteData
<1> HIDE DEF s, m
<1>3. SubSeq(s, 1, m) = [k \in 1..m |-> s[1 + k - 1]]
  BY <1>1 DEF SubSeq
<1>4. \A k \in 1..m : s[1 + k - 1] = Base(v) * WordSize + k - 1
  <2>1. \A k \in 1..m : 1 + k - 1 = k /\ k \in 1..Len(s)
    BY <1>1
  <2> QED BY <1>2, <2>1
<1>5. SubSeq(s, 1, m) = BlockBytes(v, m)
  BY <1>3, <1>4 DEF BlockBytes
<1> QED BY <1>1, <1>5 DEF s, m
ChosenBlocks == [v \in Lanes |-> BlockBytes(v, input_size[v])]
ArrivedBytes == [v \in Lanes |-> SubSeq(outStream[v], 1, bytesRead[v])]

\* The blocks a call may be given are blocks LaneTransfer chooses from.
LEMMA BlocksAreChosen ==
    input_size \in [Lanes -> InputSizes] => ChosenBlocks \in Transfer!BlockChoices
<1> SUFFICES ASSUME input_size \in [Lanes -> InputSizes]
             PROVE  ChosenBlocks \in Transfer!BlockChoices
  OBVIOUS
<1> DEFINE b == ChosenBlocks
           B == [v \in Lanes |-> {BlockBytes(v, n) : n \in InputSizes}]
<1>1. \A v \in Lanes : b[v] = BlockBytes(v, input_size[v]) /\ input_size[v] \in InputSizes
  BY DEF ChosenBlocks
<1>2. \A v \in Lanes : b[v] \in B[v]
  BY <1>1
<1>3. b \in [Lanes -> UNION {B[v] : v \in Lanes}]
  <2>1. \A v \in Lanes : b[v] \in UNION {B[y] : y \in Lanes}
    BY <1>2
  <2>2. b = [v \in Lanes |-> b[v]]
    BY DEF ChosenBlocks
  <2> QED BY <2>1, <2>2
<1> QED BY <1>2, <1>3, Zenon DEF Transfer!BlockChoices

\* A call starts with a block for each lane, of which nothing has arrived.
LEMMA StartsTransfer ==
    ASSUME Init
    PROVE  Transfer!TransferInit
<1>1. input_size \in [Lanes -> InputSizes]
  BY DEF Init
<1>2. ArrivedBytes = [v \in Lanes |-> <<>>]
  <2>1. \A v \in Lanes : SubSeq(outStream[v], 1, bytesRead[v]) = <<>>
    BY SubSeqEmpty DEF Init, PerLane
  <2> QED BY <2>1 DEF ArrivedBytes
<1> QED BY <1>1, <1>2, BlocksAreChosen DEF Transfer!TransferInit, ChosenBlocks, ArrivedBytes
LEMMA ArrivedBlocks == AllInv => ArrivedBytes = [v \in Lanes |-> BlockBytes(v, bytesRead[v])]
BY Arrived DEF ArrivedBytes

\* A step that reads nothing for a core moves nothing of LaneTransfer.
LEMMA TransferStutters ==
    ASSUME AllInv, AllInv', UNCHANGED <<input_size, bytesRead>>
    PROVE  UNCHANGED <<ChosenBlocks, ArrivedBytes>>
<1>1. (AllInv => ArrivedBytes = [v \in Lanes |-> BlockBytes(v, bytesRead[v])])'
  BY ArrivedBlocks, PTL
<1>2. ArrivedBytes' = [v \in Lanes |-> BlockBytes(v, bytesRead[v])]
  BY <1>1 DEF BlockBytes
<1> QED BY <1>2, ArrivedBlocks DEF ChosenBlocks, BlockBytes

\* A byte read by a core is the next one of its block.
LEMMA CoreReadDelivers ==
    ASSUME AllInv, AllInv', NEW u \in Lanes, CoreRead(u)
    PROVE  Transfer!Deliver(u)
<1>1. /\ input_size' = input_size /\ bytesRead[u] < input_size[u]
      /\ bytesRead' = [bytesRead EXCEPT ![u] = @ + 1] /\ bytesRead \in [Lanes -> Nat]
  BY DEF CoreRead, AllInv, IInv, TypeOK
<1>2. /\ bytesRead[u] \in Nat /\ input_size[u] \in Nat
      /\ ArrivedBytes = [v \in Lanes |-> BlockBytes(v, bytesRead[v])]
  BY Arrived, ArrivedBlocks
<1>3. ArrivedBytes' = [v \in Lanes |-> BlockBytes(v, bytesRead'[v])]
  <2>1. (AllInv => ArrivedBytes = [v \in Lanes |-> BlockBytes(v, bytesRead[v])])'
    BY ArrivedBlocks, PTL
  <2> QED BY <2>1 DEF BlockBytes
<1> DEFINE m == bytesRead[u]
<1>4. /\ Len(ArrivedBytes[u]) = m /\ Len(ChosenBlocks[u]) = input_size[u]
      /\ SubSeq(ChosenBlocks[u], 1, Len(ArrivedBytes[u]) + 1) = BlockBytes(u, m + 1)
  <2>1. Len(BlockBytes(u, m)) = m
    BY <1>2, BlockPrefix
  <2>2. /\ Len(BlockBytes(u, input_size[u])) = input_size[u]
        /\ SubSeq(BlockBytes(u, input_size[u]), 1, m + 1) = BlockBytes(u, m + 1)
    <3>1. m + 1 \in 0..input_size[u]
      BY <1>1, <1>2
    <3> QED BY <1>2, <3>1, BlockPrefix
  <2>3. ArrivedBytes[u] = BlockBytes(u, m) /\ ChosenBlocks[u] = BlockBytes(u, input_size[u])
    BY <1>2 DEF ChosenBlocks
  <2> QED BY <2>1, <2>2, <2>3
<1>5. ArrivedBytes' = [ArrivedBytes EXCEPT ![u] = SubSeq(ChosenBlocks[u], 1, Len(ArrivedBytes[u]) + 1)]
  <2>1. bytesRead'[u] = m + 1 /\ \A v \in Lanes : v # u => bytesRead'[v] = bytesRead[v]
    BY <1>1
  <2> DEFINE x == BlockBytes(u, m + 1)
  <2>2. \A v \in Lanes : BlockBytes(v, bytesRead'[v]) = IF v = u THEN x ELSE ArrivedBytes[v]
    BY <1>2, <2>1
  <2>3. SubSeq(ChosenBlocks[u], 1, Len(ArrivedBytes[u]) + 1) = x
    BY <1>4
  <2> HIDE DEF x
  <2> QED BY <1>2, <1>3, <2>2, <2>3
<1>6. Len(ArrivedBytes[u]) + 1 <= Len(ChosenBlocks[u])
  BY <1>1, <1>2, <1>4
<1>7. ChosenBlocks' = ChosenBlocks
  BY <1>1 DEF ChosenBlocks, BlockBytes
<1>8. \E n \in 1..1 : /\ Len(ArrivedBytes[u]) + n <= Len(ChosenBlocks[u])
                      /\ ArrivedBytes' = [ArrivedBytes EXCEPT ![u] =
                                               SubSeq(ChosenBlocks[u], 1, Len(ArrivedBytes[u]) + n)]
                      /\ ChosenBlocks' = ChosenBlocks
  BY <1>5, <1>6, <1>7
<1> QED BY <1>8, Zenon DEF Transfer!Deliver, ChosenBlocks, ArrivedBytes

\* The next call: every block has arrived.
LEMMA NextCallIsAgain ==
    ASSUME AllInv, AllInv', NextCall
    PROVE  Transfer!Again
<1>1. ArrivedBytes = ChosenBlocks
  <2>1. \A v \in Lanes : bytesRead[v] = input_size[v]
    BY WholeBlock DEF NextCall
  <2> QED BY <2>1, ArrivedBlocks DEF ChosenBlocks
<1>2. input_size' \in [Lanes -> InputSizes]
  BY DEF NextCall
<1>3. (input_size \in [Lanes -> InputSizes] => ChosenBlocks \in Transfer!BlockChoices)'
  BY BlocksAreChosen, PTL
<1>4. ArrivedBytes' = [v \in Lanes |-> <<>>]
  <2>1. \A v \in Lanes : bytesRead'[v] = 0
    BY DEF NextCall, PerLane
  <2>2. \A v \in Lanes : SubSeq(outStream'[v], 1, bytesRead'[v]) = <<>>
    BY <2>1, SubSeqEmpty
  <2> QED BY <2>2 DEF ArrivedBytes
<1>5. ChosenBlocks' \in Transfer!BlockChoices
  BY <1>2, <1>3, Zenon DEF Transfer!BlockChoices
<1> QED BY <1>1, <1>4, <1>5, Zenon DEF Transfer!Again, ChosenBlocks, ArrivedBytes

LEMMA TransferSteps == AllInv /\ AllInv' /\ [Next]_vars => [Transfer!TransferNext]_(Transfer!tvars)
<1> SUFFICES ASSUME AllInv, AllInv', [Next]_vars PROVE [Transfer!TransferNext]_(Transfer!tvars)
  OBVIOUS
<1>1. ASSUME UNCHANGED <<input_size, bytesRead>> PROVE UNCHANGED Transfer!tvars
  BY <1>1, TransferStutters DEF Transfer!tvars, ChosenBlocks, ArrivedBytes
<1>2. CASE mm2multStreamSimple
  BY <1>1, <1>2 DEF mm2multStreamSimple, Skip, StartBurst, GmemRead, Announce, SizeInit
<1>3. ASSUME NEW v \in Lanes, mm2multStreamDownSizer(v) PROVE UNCHANGED Transfer!tvars
  BY <1>1, <1>3 DEF mm2multStreamDownSizer, ReadSize, Downsize, BurstEnd
<1>4. ASSUME NEW v \in Lanes, CoreRead(v) PROVE Transfer!TransferNext
  BY <1>4, CoreReadDelivers DEF Transfer!TransferNext
<1>5. CASE NextCall
  BY <1>5, NextCallIsAgain DEF Transfer!TransferNext
<1>6. CASE UNCHANGED vars
  BY <1>1, <1>6 DEF vars
<1> QED BY <1>2, <1>3, <1>4, <1>5, <1>6 DEF Next

\* mm2multStreamSize does nothing that LaneTransfer does not allow: whatever
\* the lanes, bursts, widths, depths and sizes of blocks, and however the
\* polling process and the downsizers interleave, each core receives the bytes
\* of its own block, in order and once, and no byte of another call.
THEOREM TransferIsSafe == Spec => Transfer!TransferInit /\ [][Transfer!TransferNext]_(Transfer!tvars)
<1>1. Init => Transfer!TransferInit
  BY StartsTransfer
<1> QED BY <1>1, DataInvariance, TransferSteps, PTL DEF Spec
=============================================================================
