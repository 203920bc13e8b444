------------------------- MODULE MultStream2MmProofs -------------------------
(***************************************************************************)
(* Proofs about MultStream2Mm, for every number of lanes, burst, width,    *)
(* FIFO depth and set of compressed sizes.  Three layers: the kinds of     *)
(* values, how the words written, announced and read go together, and what *)
(* the bytes are.                                                          *)
(***************************************************************************)
EXTENDS MultStream2Mm, SequenceTheorems, TLAPS

-----------------------------------------------------------------------------
(* Type correctness *)

WordType == [0..WordSize - 1 -> Int]
Flags == BOOLEAN
Sizes == [bytes : Nat, upto : Nat]

CallType == /\ compressedSize \in [Lanes -> OutSizes]
            /\ output_idx \in Layouts(compressedSize)
CoreType == /\ cpc \in [Lanes -> {"bytes", "last", "done"}]
            /\ sent \in [Lanes -> Nat]
            /\ inStream \in [Lanes -> Seq(Int)]
            /\ inStreamEos \in [Lanes -> Seq(Flags)]
            /\ totalOutSizeStream \in [Lanes -> Seq(Nat)]
UpType == /\ upc \in [Lanes -> {"start", "loop", "flush", "size", "zero", "done"}]
          /\ inValue \in [Lanes -> Int]
          /\ outBuffer \in [Lanes -> WordType]
          /\ byteIdx \in [Lanes -> 0..WordSize]
          /\ sizeWrite \in [Lanes -> Nat]
FifoType == /\ outStreamV \in [Lanes -> Seq(WordType)]
            /\ outStreamVSize \in [Lanes -> Seq(Sizes)]
            /\ wordsRead \in [Lanes -> Nat]
            /\ sizesRead \in [Lanes -> Nat]
            /\ \A v \in Lanes : sizesRead[v] <= Len(outStreamVSize[v])
MmType == /\ pc \in {"poll", "write", "totals", "done"}
          /\ i \in Lanes /\ readSize \in Nat /\ j \in Nat
          /\ is_pending \in [Lanes -> BOOLEAN]
          /\ write_size \in [Lanes -> Nat]
OutType == out \in [Addresses -> WordType] /\ outSize \in [Lanes -> Nat]

TypeOK == CallType /\ CoreType /\ UpType /\ FifoType /\ MmType /\ OutType

LEMMA ProductIsNat == ASSUME NEW a \in Nat, NEW b \in Nat PROVE a * b \in Nat
OBVIOUS

\* The first lane is a lane.
LEMMA FirstLane == 0 \in Lanes
BY LanesAssumption DEF Lanes

\* A compressed size is a number of bytes that fits in the space of a block.
LEMMA SizeIsNat == \A n \in OutSizes : n \in Nat /\ n <= BlockWords * WordSize
<1>1. BlockWords * WordSize \in Nat
  BY LanesAssumption, ProductIsNat
<1> QED BY <1>1, LanesAssumption

\* A FIFO of one lane written or read: the others keep theirs.
LEMMA PutLane ==
    ASSUME NEW S, NEW f \in [Lanes -> Seq(S)], NEW v \in Lanes, NEW x \in S
    PROVE  [f EXCEPT ![v] = Append(@, x)] \in [Lanes -> Seq(S)]
<1>1. Append(f[v], x) \in Seq(S)
  BY AppendProperties
<1> QED BY <1>1

LEMMA TakeLane ==
    ASSUME NEW S, NEW f \in [Lanes -> Seq(S)], NEW v \in Lanes, f[v] # <<>>
    PROVE  [f EXCEPT ![v] = Tail(@)] \in [Lanes -> Seq(S)] /\ Head(f[v]) \in S
<1>1. Tail(f[v]) \in Seq(S) /\ Head(f[v]) \in S
  BY HeadTailProperties
<1> QED BY <1>1

\* What is left of a sequence is a sequence.
LEMMA RestOfSeq ==
    ASSUME NEW S, NEW s \in Seq(S), NEW n \in Nat
    PROVE  SubSeq(s, n + 1, Len(s)) \in Seq(S)
<1>1. \A k \in n + 1..Len(s) : s[k] \in S
  BY ElementOfSeq
<1> QED BY <1>1, SubSeqProperties

LEMMA BytesAreInt == NoByte \in Int /\ NoWord \in WordType
                     /\ \A v \in Lanes, k \in Nat : Byte(v, k) \in Int
<1>1. \A v \in Lanes : Base(v) * WordSize \in Int
  <2>1. ASSUME NEW v \in Lanes PROVE Base(v) * WordSize \in Int
    <3>1. v \in Int /\ BlockWords \in Int /\ WordSize \in Int
      BY LanesAssumption DEF Lanes
    <3>2. v * BlockWords \in Int
      BY <3>1
    <3> QED BY <3>1, <3>2 DEF Base
  <2> QED BY <2>1
<1> QED BY <1>1 DEF NoByte, NoWord, WordType, Byte

\* The writer moves on to a lane.
LEMMA AdvanceType ==
    ASSUME TypeOK, NEW pending, Advance(pending)
    PROVE  /\ i' \in Lanes /\ pc' \in {"poll", "totals"}
           /\ pc' = "totals" => i' = 0 /\ ~(\E v \in Lanes : pending[v])
<1> DEFINE more == \E v \in Lanes : pending[v]
<1>1. i \in 0..NUM_BLOCK - 1 /\ NUM_BLOCK \in Nat
  BY LanesAssumption DEF TypeOK, MmType, Lanes
<1>2. CASE i < NUM_BLOCK - 1
  BY <1>1, <1>2 DEF Advance, Lanes
<1>3. CASE ~(i < NUM_BLOCK - 1)
  <2>1. i' = 0 /\ pc' = IF more THEN "poll" ELSE "totals"
    BY <1>3 DEF Advance
  <2> HIDE DEF more
  <2> QED BY <2>1, FirstLane DEF more
<1> QED BY <1>2, <1>3

\* Calls start well-typed.
LEMMA TypeInit == Init => TypeOK
<1> SUFFICES ASSUME Init PROVE TypeOK
  OBVIOUS
<1>1. CallType /\ MmType
  BY FirstLane DEF Init, CallType, MmType, PerLane
<1>2. CoreType
  BY DEF Init, CoreType, PerLane
<1>3. UpType
  BY BytesAreInt, LanesAssumption DEF Init, UpType, PerLane
<1>4. FifoType
  BY DEF Init, FifoType, PerLane
<1>5. OutType
  BY BytesAreInt DEF Init, OutType, PerLane
<1> QED BY <1>1, <1>2, <1>3, <1>4, <1>5 DEF TypeOK

\* Every step of a core keeps the types.
LEMMA TypeCore ==
    ASSUME TypeOK, NEW u \in Lanes, Core(u) PROVE TypeOK'
<1>1. CallType /\ CoreType /\ UpType /\ FifoType /\ MmType /\ OutType
  BY DEF TypeOK
<1>2. UNCHANGED <<callVars, upVars, dataFifo, sizeFifo, mmVars, out, outSize>>
  BY DEF Core, CoreByte, CoreTotal, CoreLast
<1>3. ASSUME NEW x \in Int, NEW e \in Flags, Write(u, x, e)
      PROVE  inStream' \in [Lanes -> Seq(Int)] /\ inStreamEos' \in [Lanes -> Seq(Flags)]
  BY <1>1, <1>3, PutLane DEF CoreType, Write
<1>4. ASSUME CoreByte(u) PROVE CoreType'
  <2>1. Byte(u, sent[u]) \in Int /\ FALSE \in Flags
    BY <1>1, BytesAreInt DEF CoreType, Flags
  <2>2. inStream' \in [Lanes -> Seq(Int)] /\ inStreamEos' \in [Lanes -> Seq(Flags)]
    BY <1>3, <1>4, <2>1 DEF CoreByte
  <2>3. sent' = [sent EXCEPT ![u] = @ + 1] /\ cpc' = cpc /\ totalOutSizeStream' = totalOutSizeStream
    BY <1>4 DEF CoreByte
  <2>4. sent' \in [Lanes -> Nat]
    BY <1>1, <2>3 DEF CoreType
  <2> QED BY <1>1, <2>2, <2>3, <2>4 DEF CoreType
<1>5. ASSUME CoreTotal(u) PROVE CoreType'
  <2>1. totalOutSizeStream' \in [Lanes -> Seq(Nat)]
    <3>1. sent[u] \in Nat
      BY <1>1 DEF CoreType
    <3> QED BY <1>1, <1>5, <3>1, PutLane DEF CoreTotal, CoreType
  <2> QED BY <1>1, <1>5, <2>1 DEF CoreTotal, CoreType, coreFifos
<1>6. ASSUME CoreLast(u) PROVE CoreType'
  <2>1. inStream' \in [Lanes -> Seq(Int)] /\ inStreamEos' \in [Lanes -> Seq(Flags)]
    BY <1>3, <1>6, BytesAreInt DEF CoreLast, Flags
  <2> QED BY <1>1, <1>6, <2>1 DEF CoreLast, CoreType
<1>7. CoreType'
  BY <1>4, <1>5, <1>6 DEF Core
<1>8. CallType' /\ UpType' /\ OutType'
  BY <1>1, <1>2 DEF CallType, UpType, OutType, callVars, upVars, Layouts
<1>9. FifoType' /\ MmType'
  BY <1>1, <1>2 DEF FifoType, MmType, dataFifo, sizeFifo, mmVars
<1> QED BY <1>7, <1>8, <1>9 DEF TypeOK

\* A word or a size passed on by an upsizer.
LEMMA TypePutWord ==
    ASSUME TypeOK, NEW u \in Lanes, PutWord(u)
    PROVE  outStreamV' \in [Lanes -> Seq(WordType)] /\ wordsRead' \in [Lanes -> Nat]
<1>1. outStreamV \in [Lanes -> Seq(WordType)] /\ wordsRead \in [Lanes -> Nat]
      /\ outBuffer[u] \in WordType
  BY DEF TypeOK, FifoType, UpType
<1>2. outStreamV' = [outStreamV EXCEPT ![u] = Append(@, outBuffer[u])] /\ wordsRead' = wordsRead
  BY DEF PutWord
<1> HIDE DEF WordType
<1> QED BY <1>1, <1>2, PutLane

LEMMA TypePutSize ==
    ASSUME TypeOK, NEW u \in Lanes, NEW bytes \in Nat, PutSize(u, bytes),
           outStreamV' \in [Lanes -> Seq(WordType)]
    PROVE  /\ outStreamVSize' \in [Lanes -> Seq(Sizes)] /\ sizesRead' \in [Lanes -> Nat]
           /\ \A v \in Lanes : sizesRead'[v] <= Len(outStreamVSize'[v])
<1>1. outStreamVSize \in [Lanes -> Seq(Sizes)] /\ sizesRead \in [Lanes -> Nat]
      /\ \A v \in Lanes : sizesRead[v] <= Len(outStreamVSize[v])
  BY DEF TypeOK, FifoType
<1> DEFINE x == Size(bytes, Len(outStreamV'[u]))
<1>2. x \in Sizes
  <2>1. Len(outStreamV'[u]) \in Nat
    OBVIOUS
  <2> QED BY <2>1 DEF Size, Sizes
<1>3. outStreamVSize' = [outStreamVSize EXCEPT ![u] = Append(@, x)] /\ sizesRead' = sizesRead
  BY DEF PutSize
<1> HIDE DEF x, Sizes
<1>4. outStreamVSize' \in [Lanes -> Seq(Sizes)]
  BY <1>1, <1>2, <1>3, PutLane
<1>5. ASSUME NEW v \in Lanes PROVE sizesRead'[v] <= Len(outStreamVSize'[v])
  <2>1. outStreamVSize[v] \in Seq(Sizes) /\ sizesRead[v] \in Nat /\ Len(outStreamVSize[v]) \in Nat
    BY <1>1
  <2>2. CASE v # u
    BY <1>1, <1>3, <2>2
  <2>3. CASE v = u
    <3>1. outStreamVSize'[v] = Append(outStreamVSize[v], x)
      BY <1>1, <1>3, <2>3
    <3>2. Len(outStreamVSize'[v]) = Len(outStreamVSize[v]) + 1
      BY <2>1, <3>1, <1>2, AppendProperties
    <3> QED BY <1>1, <1>3, <2>1, <3>2
  <2> QED BY <2>2, <2>3
<1> QED BY <1>1, <1>3, <1>4, <1>5

\* Every step of an upsizer keeps the types.
LEMMA TypeUpsizer ==
    ASSUME TypeOK, NEW u \in Lanes, stream2mmUpsizer(u) PROVE TypeOK'
<1>1. CallType /\ CoreType /\ UpType /\ FifoType /\ MmType /\ OutType
  BY DEF TypeOK
<1>2. UNCHANGED <<callVars, coreVars, totalOutSizeStream, mmVars, out, outSize>>
  BY DEF stream2mmUpsizer, FirstByte, Upsize, EndOfStream, Flush, LastSize, ZeroSize, coreFifos
<1>3. CallType' /\ OutType'
  BY <1>1, <1>2 DEF CallType, OutType, callVars, Layouts
<1>4. MmType'
  BY <1>1, <1>2 DEF MmType, mmVars
<1>5. ASSUME CoreType', UpType', FifoType' PROVE TypeOK'
  BY <1>3, <1>4, <1>5 DEF TypeOK
<1>6. ASSUME Take(inStream, u), inStream[u] # <<>>
      PROVE  inStream' \in [Lanes -> Seq(Int)] /\ Head(inStream[u]) \in Int
  BY <1>1, <1>6, TakeLane DEF Take, CoreType
<1>7. ASSUME Take(inStreamEos, u), inStreamEos[u] # <<>>
      PROVE  inStreamEos' \in [Lanes -> Seq(Flags)]
  BY <1>1, <1>7, TakeLane DEF Take, CoreType
<1>8. WordSize \in Nat \ {0} /\ BURST_SIZE * WordSize \in Nat
  BY LanesAssumption, ProductIsNat
<1>9. CASE FirstByte(u)
  <2>1. CoreType'
    BY <1>1, <1>2, <1>6, <1>9 DEF FirstByte, CoreType, coreVars
  <2>2. UpType'
    BY <1>1, <1>6, <1>9 DEF FirstByte, UpType
  <2>3. FifoType'
    BY <1>1, <1>9 DEF FirstByte, FifoType, dataFifo, sizeFifo
  <2> QED BY <1>5, <2>1, <2>2, <2>3
<1>10. CASE Upsize(u)
  <2>1. CoreType'
    BY <1>1, <1>2, <1>6, <1>7, <1>10 DEF Upsize, CoreType, coreVars
  <2>2. byteIdx[u] \in 0..WordSize /\ outBuffer[u] \in WordType /\ inValue[u] \in Int
    BY <1>1 DEF UpType
  <2> DEFINE at == IF WordFull(u) THEN 0 ELSE byteIdx[u]
  <2>3. at \in 0..WordSize - 1
    BY <1>8, <2>2 DEF WordFull
  <2>4. outBuffer' = [outBuffer EXCEPT ![u][at] = inValue[u]] /\ byteIdx' = [byteIdx EXCEPT ![u] = at + 1]
        /\ inValue' = [inValue EXCEPT ![u] = Head(inStream[u])] /\ upc' = upc
        /\ Head(inStream[u]) \in Int
    BY <1>6, <1>10 DEF Upsize
  <2> HIDE DEF at
  <2>5. /\ [outBuffer[u] EXCEPT ![at] = inValue[u]] \in WordType
        /\ at + 1 \in 0..WordSize
    BY <1>8, <2>2, <2>3 DEF WordType
  <2>6. outBuffer' \in [Lanes -> WordType] /\ byteIdx' \in [Lanes -> 0..WordSize]
    <3> HIDE DEF WordType
    <3> QED BY <1>1, <2>4, <2>5 DEF UpType
  <2>7. sizeWrite' \in [Lanes -> Nat] /\ FifoType'
    <3>1. CASE WordFull(u) /\ BurstFull(u)
      <4>1. /\ PutWord(u) /\ PutSize(u, BURST_SIZE * WordSize)
            /\ sizeWrite' = [sizeWrite EXCEPT ![u] = 0]
        BY <1>10, <3>1 DEF Upsize, PassOn
      <4> QED BY <1>1, <1>8, <4>1, TypePutWord, TypePutSize DEF FifoType, UpType
    <3>2. CASE WordFull(u) /\ ~BurstFull(u)
      <4>1. /\ PutWord(u) /\ UNCHANGED sizeFifo
            /\ sizeWrite' = [sizeWrite EXCEPT ![u] = @ + 1]
        BY <1>10, <3>2 DEF Upsize, PassOn
      <4> QED BY <1>1, <4>1, TypePutWord DEF FifoType, UpType, sizeFifo
    <3>3. CASE ~WordFull(u)
      <4>1. UNCHANGED <<dataFifo, sizeFifo, sizeWrite>>
        BY <1>10, <3>3 DEF Upsize, PassOn
      <4> QED BY <1>1, <4>1 DEF FifoType, UpType, sizeFifo, dataFifo
    <3> QED BY <3>1, <3>2, <3>3
  <2>8. UpType'
    BY <1>1, <2>4, <2>6, <2>7 DEF UpType
  <2> QED BY <1>5, <2>1, <2>7, <2>8
<1>11. CASE EndOfStream(u)
  <2>1. CoreType'
    BY <1>1, <1>2, <1>7, <1>11 DEF EndOfStream, CoreType, coreVars
  <2>2. UpType' /\ FifoType'
    BY <1>1, <1>11 DEF EndOfStream, UpType, FifoType, dataFifo, sizeFifo
  <2> QED BY <1>5, <2>1, <2>2
<1>12. CASE Flush(u)
  <2>1. CoreType'
    BY <1>1, <1>2, <1>12 DEF Flush, CoreType, coreVars, coreFifos
  <2>2. UpType'
    BY <1>1, <1>12 DEF Flush, UpType
  <2>3. FifoType'
    BY <1>1, <1>12, TypePutWord DEF Flush, FifoType, sizeFifo
  <2> QED BY <1>5, <2>1, <2>2, <2>3
<1>13. ASSUME NEW bytes \in Nat, PutSize(u, bytes), UNCHANGED dataFifo PROVE FifoType'
  <2>1. outStreamV' \in [Lanes -> Seq(WordType)] /\ wordsRead' \in [Lanes -> Nat]
    BY <1>1, <1>13 DEF FifoType, dataFifo
  <2> QED BY <1>13, <2>1, TypePutSize DEF FifoType
<1>14. CASE LastSize(u)
  <2>1. CoreType' /\ UpType'
    BY <1>1, <1>2, <1>14 DEF LastSize, CoreType, coreVars, coreFifos, UpType
  <2>2. RestSize(u) \in Nat
    <3>1. sizeWrite[u] \in Nat
      BY <1>1 DEF UpType
    <3> QED BY <1>8, <3>1, ProductIsNat DEF RestSize
  <2> QED BY <1>5, <1>13, <1>14, <2>1, <2>2 DEF LastSize
<1>15. CASE ZeroSize(u)
  <2>1. CoreType' /\ UpType'
    BY <1>1, <1>2, <1>15 DEF ZeroSize, CoreType, coreVars, coreFifos, UpType
  <2> QED BY <1>5, <1>13, <1>15, <2>1 DEF ZeroSize
<1> QED BY <1>9, <1>10, <1>11, <1>12, <1>14, <1>15 DEF stream2mmUpsizer

\* Every step of the writer keeps the types.
LEMMA TypeWriter ==
    ASSUME TypeOK, multStream2mmSize PROVE TypeOK'
<1>1. CallType /\ CoreType /\ UpType /\ FifoType /\ MmType /\ OutType
  BY DEF TypeOK
<1>2. UNCHANGED <<callVars, coreVars, coreFifos, upVars, outStreamV, outStreamVSize>>
  BY DEF multStream2mmSize, Skip, ReadSize, GmemWrite, BurstWritten, ReadTotal, dataFifo, sizeFifo
<1>3. CallType' /\ UpType'
  BY <1>1, <1>2 DEF CallType, UpType, callVars, upVars, Layouts
<1>4. ASSUME CoreType', FifoType', MmType', OutType' PROVE TypeOK'
  BY <1>3, <1>4 DEF TypeOK
<1>5. ASSUME UNCHANGED totalOutSizeStream PROVE CoreType'
  BY <1>1, <1>2, <1>5 DEF CoreType, coreVars, coreFifos
<1>6. ASSUME NEW pending, Advance(pending) PROVE i' \in Lanes /\ pc' \in {"poll", "totals"}
  BY <1>6, AdvanceType
<1>7. CASE Skip
  <2>1. MmType'
    BY <1>1, <1>6, <1>7 DEF Skip, MmType
  <2> QED BY <1>1, <1>4, <1>5, <1>7, <2>1 DEF Skip, FifoType, OutType, dataFifo, sizeFifo
<1>8. CASE ReadSize
  <2> DEFINE n == sizesRead[i] + 1  bytes == outStreamVSize[i][n].bytes
  <2>1. i \in Lanes /\ n \in 1..Len(outStreamVSize[i]) /\ outStreamVSize[i] \in Seq(Sizes)
    <3>1. i \in Lanes /\ outStreamVSize[i] \in Seq(Sizes) /\ sizesRead[i] \in Nat
          /\ sizesRead[i] <= Len(outStreamVSize[i]) /\ sizesRead[i] # Len(outStreamVSize[i])
      BY <1>1, <1>8 DEF MmType, FifoType, ReadSize, NoSize
    <3>2. Len(outStreamVSize[i]) \in Nat
      BY <3>1
    <3> QED BY <3>1, <3>2
  <2>2. bytes \in Nat
    <3>1. outStreamVSize[i][n] \in Sizes
      <4> HIDE DEF n, Sizes
      <4> QED BY <2>1, ElementOfSeq
    <3> QED BY <3>1 DEF Sizes
  <2>3. Words(bytes) \in Nat
    <3> HIDE DEF bytes
    <3> QED BY <2>2, LanesAssumption DEF Words
  <2>4. FifoType'
    <3>1. sizesRead' = [sizesRead EXCEPT ![i] = n] /\ UNCHANGED <<outStreamVSize, dataFifo>>
      BY <1>8 DEF ReadSize
    <3>2. sizesRead' \in [Lanes -> Nat] /\ \A v \in Lanes : sizesRead'[v] <= Len(outStreamVSize'[v])
      <4>1. n \in Nat /\ n <= Len(outStreamVSize[i])
        BY <2>1
      <4> HIDE DEF n
      <4> QED BY <1>1, <3>1, <4>1 DEF FifoType
    <3> QED BY <1>1, <3>1, <3>2 DEF FifoType, dataFifo
  <2>5. MmType'
    <3>1. /\ is_pending' = [is_pending EXCEPT ![i] = StillPending(i, bytes)]
          /\ readSize' = Words(bytes) /\ j' = 0 /\ write_size' = write_size
          /\ \/ pc' = "write" /\ i' = i
             \/ Advance(is_pending')
      BY <1>8 DEF ReadSize
    <3>2. i' \in Lanes /\ pc' \in {"poll", "write", "totals"}
      BY <1>6, <2>1, <3>1
    <3>3. is_pending' \in [Lanes -> BOOLEAN]
      <4>1. StillPending(i, bytes) \in BOOLEAN
        BY DEF StillPending
      <4> HIDE DEF bytes
      <4> QED BY <1>1, <3>1, <4>1, Zenon DEF MmType
    <3> HIDE DEF bytes
    <3> QED BY <1>1, <2>3, <3>1, <3>2, <3>3 DEF MmType
  <2>6. UNCHANGED <<totalOutSizeStream, out, outSize>>
    BY <1>8 DEF ReadSize
  <2> QED BY <1>1, <1>4, <1>5, <2>4, <2>5, <2>6 DEF OutType
<1>9. CASE GmemWrite
  <2>1. MmType'
    BY <1>1, <1>9 DEF GmemWrite, MmType
  <2>2. FifoType'
    <3>1. wordsRead' = [wordsRead EXCEPT ![i] = @ + 1] /\ UNCHANGED <<outStreamV, sizeFifo>>
      BY <1>9 DEF GmemWrite
    <3>2. wordsRead' \in [Lanes -> Nat]
      BY <1>1, <3>1 DEF FifoType, MmType
    <3> QED BY <1>1, <3>1, <3>2 DEF FifoType, sizeFifo
  <2>3. OutType'
    <3> DEFINE w == outStreamV[i][wordsRead[i] + 1]
    <3>1. w \in WordType
      <4>1. i \in Lanes /\ outStreamV[i] \in Seq(WordType) /\ wordsRead[i] \in Nat
            /\ wordsRead[i] < Len(outStreamV[i])
        BY <1>1, <1>9 DEF MmType, FifoType, GmemWrite
      <4>2. wordsRead[i] + 1 \in 1..Len(outStreamV[i])
        BY <4>1
      <4> QED BY <4>1, <4>2, ElementOfSeq
    <3>2. out' = [out EXCEPT ![Address(i)] = w] /\ outSize' = outSize
      BY <1>9 DEF GmemWrite
    <3> HIDE DEF w, WordType
    <3> QED BY <1>1, <3>1, <3>2 DEF OutType
  <2>4. UNCHANGED totalOutSizeStream
    BY <1>9 DEF GmemWrite
  <2> QED BY <1>4, <1>5, <2>1, <2>2, <2>3, <2>4
<1>10. CASE BurstWritten
  <2>1. MmType'
    BY <1>1, <1>6, <1>10 DEF BurstWritten, MmType
  <2> QED BY <1>1, <1>4, <1>5, <1>10, <2>1 DEF BurstWritten, FifoType, OutType, dataFifo, sizeFifo
<1>11. CASE ReadTotal
  <2>1. i \in 0..NUM_BLOCK - 1 /\ NUM_BLOCK \in Nat
    BY <1>1, LanesAssumption DEF MmType, Lanes
  <2>2. i' \in Lanes
    BY <1>1, <1>11, <2>1 DEF MmType, ReadTotal, Lanes
  <2>3. MmType'
    BY <1>1, <1>11, <2>2 DEF MmType, ReadTotal
  <2>4. totalOutSizeStream' \in [Lanes -> Seq(Nat)] /\ Head(totalOutSizeStream[i]) \in Nat
    BY <1>1, <1>11, TakeLane DEF ReadTotal, Take, CoreType, MmType
  <2>5. CoreType' /\ OutType'
    BY <1>1, <1>2, <1>11, <2>4 DEF CoreType, OutType, ReadTotal, coreVars, coreFifos
  <2>6. FifoType'
    BY <1>1, <1>11 DEF FifoType, ReadTotal, dataFifo, sizeFifo
  <2> QED BY <1>4, <2>3, <2>5, <2>6
<1> QED BY <1>7, <1>8, <1>9, <1>10, <1>11 DEF multStream2mmSize

\* The next call starts well-typed.
LEMMA TypeNextCall ==
    ASSUME TypeOK, NextCall PROVE TypeOK'
<1>1. CallType' /\ MmType'
  BY FirstLane DEF NextCall, CallType, MmType, PerLane, TypeOK, Layouts
<1>2. CoreType'
  BY DEF NextCall, CoreType, PerLane, TypeOK, coreFifos
<1>3. UpType'
  BY BytesAreInt, LanesAssumption DEF NextCall, UpType, PerLane
<1>4. FifoType'
  <2>1. /\ outStreamV' = [v \in Lanes |-> SubSeq(outStreamV[v], wordsRead[v] + 1, Len(outStreamV[v]))]
        /\ outStreamVSize' =
               [v \in Lanes |-> SubSeq(outStreamVSize[v], sizesRead[v] + 1, Len(outStreamVSize[v]))]
        /\ \A v \in Lanes : wordsRead'[v] = 0 /\ sizesRead'[v] = 0
        /\ wordsRead' \in [Lanes -> Nat] /\ sizesRead' \in [Lanes -> Nat]
    BY DEF NextCall, Left, PerLane
  <2>2. ASSUME NEW v \in Lanes
        PROVE  /\ SubSeq(outStreamV[v], wordsRead[v] + 1, Len(outStreamV[v])) \in Seq(WordType)
               /\ SubSeq(outStreamVSize[v], sizesRead[v] + 1, Len(outStreamVSize[v])) \in Seq(Sizes)
    <3>1. /\ outStreamV[v] \in Seq(WordType) /\ wordsRead[v] \in Nat
          /\ outStreamVSize[v] \in Seq(Sizes) /\ sizesRead[v] \in Nat
      BY DEF TypeOK, FifoType
    <3> HIDE DEF WordType, Sizes
    <3> QED BY <3>1, RestOfSeq
  <2>3. outStreamV' \in [Lanes -> Seq(WordType)] /\ outStreamVSize' \in [Lanes -> Seq(Sizes)]
    BY <2>1, <2>2
  <2>4. ASSUME NEW v \in Lanes PROVE sizesRead'[v] <= Len(outStreamVSize'[v])
    <3>1. Len(outStreamVSize'[v]) \in Nat
      BY <2>3
    <3>2. sizesRead'[v] = 0
      BY <2>1
    <3> QED BY <3>1, <3>2
  <2> QED BY <2>1, <2>3, <2>4 DEF FifoType
<1>5. OutType'
  BY BytesAreInt DEF NextCall, OutType, PerLane
<1> QED BY <1>1, <1>2, <1>3, <1>4, <1>5 DEF TypeOK

LEMMA TypeNext == TypeOK /\ [Next]_vars => TypeOK'
<1> SUFFICES ASSUME TypeOK, [Next]_vars PROVE TypeOK'
  OBVIOUS
<1>1. CASE UNCHANGED vars
  <2>1. CallType' /\ CoreType' /\ UpType'
    BY <1>1 DEF TypeOK, vars, callVars, coreVars, coreFifos, upVars, CallType, CoreType, UpType, Layouts
  <2>2. FifoType' /\ MmType' /\ OutType'
    BY <1>1 DEF TypeOK, vars, dataFifo, sizeFifo, mmVars, FifoType, MmType, OutType
  <2> QED BY <2>1, <2>2 DEF TypeOK
<1> QED BY <1>1, TypeWriter, TypeUpsizer, TypeCore, TypeNextCall DEF Next

\* Every register and FIFO of multStream2MM holds a value of its kind, memory
\* holds words, and no size is read that was not written.
THEOREM TypeCorrect == Spec => []TypeOK
BY TypeInit, TypeNext, PTL DEF Spec

-----------------------------------------------------------------------------
(* Words written, announced and read *)

\* The k-th size of a lane, and the words written up to it.
SizeAt(v, k) == outStreamVSize[v][k].bytes
UpTo(v, k)  == IF k = 0 THEN 0 ELSE outStreamVSize[v][k].upto
Sized(v) == Len(outStreamVSize[v])

\* Each size announces the words written since the one before, in bytes of
\* whole words; only the last one of a call is zero.
SizesInv(v) ==
    \A k \in 1..Sized(v) :
        /\ UpTo(v, k - 1) <= UpTo(v, k)
        /\ UpTo(v, k) <= UpTo(v, Sized(v))
        /\ SizeAt(v, k) = WordSize * (UpTo(v, k) - UpTo(v, k - 1))
        /\ SizeAt(v, k) = 0 => k = Sized(v) /\ upc[v] = "done"

\* The words of the burst being filled are not announced, and are fewer than
\* a burst; a lane that has packed no byte has written no word.
Unannounced(v) == IF upc[v] \in {"zero", "done"} THEN 0 ELSE sizeWrite[v]
CountInv(v) ==
    /\ Len(outStreamV[v]) = UpTo(v, Sized(v)) + Unannounced(v)
    /\ upc[v] \in {"start", "loop", "flush"} => sizeWrite[v] < BURST_SIZE
    /\ upc[v] = "size" => sizeWrite[v] \in 1..BURST_SIZE
    /\ upc[v] \in {"start", "loop"} /\ byteIdx[v] = 0 => Len(outStreamV[v]) = 0

\* The writer has read the words up to the last size it read, or is at word j
\* of the burst that size announces; a lane it has given up has nothing more.
InHand(v) == pc = "write" /\ i = v
WriteInv(v) ==
    /\ InHand(v) => /\ sizesRead[v] > 0 /\ j <= readSize /\ readSize > 0 /\ is_pending[v]
                    /\ readSize = UpTo(v, sizesRead[v]) - UpTo(v, sizesRead[v] - 1)
                    /\ write_size[v] = UpTo(v, sizesRead[v] - 1)
                    /\ wordsRead[v] = write_size[v] + j
    /\ ~InHand(v) => wordsRead[v] = UpTo(v, sizesRead[v]) /\ write_size[v] = wordsRead[v]
    /\ ~is_pending[v] => upc[v] = "done" /\ sizesRead[v] = Sized(v)
    /\ pc \in {"totals", "done"} => ~is_pending[v]

LaneCounts(v) == SizesInv(v) /\ CountInv(v) /\ WriteInv(v)
CountsInv == TypeOK /\ \A v \in Lanes : LaneCounts(v)

\* The types of what belongs to a lane.
LEMMA LaneTypes ==
    ASSUME TypeOK, NEW v \in Lanes
    PROVE  /\ outStreamV[v] \in Seq(WordType) /\ Len(outStreamV[v]) \in Nat
           /\ outStreamVSize[v] \in Seq(Sizes) /\ Sized(v) \in Nat
           /\ wordsRead[v] \in Nat /\ sizesRead[v] \in Nat /\ sizesRead[v] <= Sized(v)
           /\ sizeWrite[v] \in Nat /\ byteIdx[v] \in 0..WordSize /\ write_size[v] \in Nat
           /\ readSize \in Nat /\ j \in Nat /\ i \in Lanes /\ Unannounced(v) \in Nat
<1>1. /\ outStreamV[v] \in Seq(WordType) /\ outStreamVSize[v] \in Seq(Sizes)
      /\ sizesRead[v] <= Len(outStreamVSize[v])
      /\ wordsRead[v] \in Nat /\ sizesRead[v] \in Nat
  BY DEF TypeOK, FifoType
<1>2. /\ sizeWrite[v] \in Nat /\ byteIdx[v] \in 0..WordSize /\ write_size[v] \in Nat
      /\ readSize \in Nat /\ j \in Nat /\ i \in Lanes
  BY DEF TypeOK, UpType, MmType
<1> HIDE DEF WordType, Sizes
<1>3. Len(outStreamV[v]) \in Nat /\ Len(outStreamVSize[v]) \in Nat
  BY <1>1
<1> QED BY <1>1, <1>2, <1>3 DEF Sized, Unannounced

\* The word counts of the sizes are numbers.
LEMMA UpToIsNat ==
    ASSUME TypeOK, NEW v \in Lanes, NEW k \in 0..Sized(v)
    PROVE  UpTo(v, k) \in Nat /\ (k > 0 => SizeAt(v, k) \in Nat)
<1>1. outStreamVSize[v] \in Seq(Sizes)
  BY LaneTypes
<1>2. CASE k > 0
  <2>1. outStreamVSize[v][k] \in Sizes
    <3> HIDE DEF Sizes
    <3> QED BY <1>1, <1>2, ElementOfSeq DEF Sized
  <2> QED BY <2>1, <1>2 DEF UpTo, SizeAt, Sizes
<1> QED BY <1>2 DEF UpTo

\* A burst between two sizes is a number of words, of WordSize bytes each.
LEMMA BurstIsNat ==
    ASSUME TypeOK, NEW v \in Lanes, SizesInv(v), NEW k \in 1..Sized(v)
    PROVE  /\ UpTo(v, k - 1) \in Nat /\ UpTo(v, k) \in Nat
           /\ UpTo(v, k) - UpTo(v, k - 1) \in Nat
           /\ UpTo(v, k) <= UpTo(v, Sized(v)) /\ UpTo(v, Sized(v)) \in Nat
           /\ SizeAt(v, k) = WordSize * (UpTo(v, k) - UpTo(v, k - 1))
<1>1. Sized(v) \in Nat
  BY LaneTypes
<1>2. k \in 0..Sized(v) /\ k - 1 \in 0..Sized(v) /\ Sized(v) \in 0..Sized(v)
  BY <1>1
<1>3. UpTo(v, k - 1) \in Nat /\ UpTo(v, k) \in Nat /\ UpTo(v, Sized(v)) \in Nat
  BY <1>2, UpToIsNat
<1>4. UpTo(v, k - 1) <= UpTo(v, k)
  BY DEF SizesInv
<1> QED BY <1>3, <1>4 DEF SizesInv

\* The words of some words' bytes are those words.
LEMMA WordsExact ==
    ASSUME NEW n \in Nat
    PROVE  /\ Words(WordSize * n) = n
           /\ WordSize * n \in Nat /\ (WordSize * n = 0 <=> n = 0)
<1> DEFINE W == WordSize  a == W * n + W - 1  q == a \div W  r == a % W
<1>1. W \in Nat \ {0} /\ W * n \in Nat
  BY LanesAssumption, ProductIsNat
<1>2. a \in Nat
  BY <1>1
<1>3. q \in Nat /\ r \in 0..W - 1 /\ a = W * q + r
  BY <1>1, <1>2
<1>4. W * (q - n) = W - 1 - r /\ q - n \in Int
  BY <1>1, <1>3, SMT
<1>5. Words(W * n) = q
  BY DEF Words
<1> HIDE DEF q, r, W
<1>6. ASSUME q - n >= 1 PROVE FALSE
  <2>1. W * (q - n) >= W
    BY <1>1, <1>4, <1>6, SMT
  <2> QED BY <1>1, <1>3, <1>4, <2>1
<1>7. ASSUME q - n <= -1 PROVE FALSE
  <2>1. W * (q - n) <= -W
    BY <1>1, <1>4, <1>7, SMT
  <2> QED BY <1>1, <1>3, <1>4, <2>1
<1>8. q = n
  BY <1>3, <1>4, <1>6, <1>7
<1>9. CASE n >= 1
  <2>1. W * n >= W
    BY <1>1, <1>9, SMT
  <2> QED BY <2>1, <1>1, <1>5, <1>8 DEF W
<1>10. CASE n = 0
  BY <1>1, <1>5, <1>8, <1>10 DEF W
<1> QED BY <1>9, <1>10

\* What the invariant of a lane looks at.
LEMMA SizesUntouched ==
    ASSUME NEW v \in Lanes, SizesInv(v), outStreamVSize'[v] = outStreamVSize[v],
           upc[v] = "done" => upc'[v] = "done"
    PROVE  SizesInv(v)'
BY DEF SizesInv, UpTo, SizeAt, Sized

LEMMA CountUntouched ==
    ASSUME NEW v \in Lanes, CountInv(v), outStreamVSize'[v] = outStreamVSize[v],
           outStreamV'[v] = outStreamV[v], upc'[v] = upc[v],
           sizeWrite'[v] = sizeWrite[v], byteIdx'[v] = byteIdx[v]
    PROVE  CountInv(v)'
BY DEF CountInv, UpTo, Sized, Unannounced

LEMMA WriteUntouched ==
    ASSUME TypeOK, NEW v \in Lanes, WriteInv(v), UNCHANGED mmVars,
           wordsRead'[v] = wordsRead[v], sizesRead'[v] = sizesRead[v],
           outStreamVSize'[v] = outStreamVSize[v], upc[v] = "done" => upc'[v] = "done"
    PROVE  WriteInv(v)'
<1>1. \A k : UpTo(v, k)' = UpTo(v, k)
  BY DEF UpTo
<1>2. UpTo(v, sizesRead[v])' = UpTo(v, sizesRead[v]) /\ UpTo(v, sizesRead[v] - 1)' = UpTo(v, sizesRead[v] - 1)
  BY <1>1
<1>3. InHand(v)' = InHand(v) /\ Sized(v)' = Sized(v)
  BY DEF InHand, Sized, mmVars
<1> QED BY <1>2, <1>3 DEF WriteInv, mmVars

-----------------------------------------------------------------------------
(* The cores and the upsizers *)

\* A core changes nothing the counts are about.
LEMMA CountsCore ==
    ASSUME CountsInv, NEW u \in Lanes, Core(u) PROVE \A v \in Lanes : LaneCounts(v)'
<1>1. UNCHANGED <<upVars, dataFifo, sizeFifo, mmVars>>
  BY DEF Core, CoreByte, CoreTotal, CoreLast
<1> QED BY <1>1, SizesUntouched, CountUntouched, WriteUntouched
        DEF CountsInv, LaneCounts, upVars, dataFifo, sizeFifo

\* What a step of an upsizer leaves to the other lanes.
LEMMA UpsizerElsewhere ==
    ASSUME TypeOK, NEW u \in Lanes, stream2mmUpsizer(u), NEW v \in Lanes, v # u
    PROVE  /\ outStreamVSize'[v] = outStreamVSize[v] /\ outStreamV'[v] = outStreamV[v]
           /\ upc'[v] = upc[v] /\ sizeWrite'[v] = sizeWrite[v] /\ byteIdx'[v] = byteIdx[v]
           /\ inStream'[v] = inStream[v] /\ inStreamEos'[v] = inStreamEos[v]
           /\ inValue'[v] = inValue[v] /\ outBuffer'[v] = outBuffer[v]
<1>1. UpType /\ FifoType /\ CoreType
  BY DEF TypeOK
<1>2. ASSUME PutWord(u) PROVE outStreamV'[v] = outStreamV[v]
  BY <1>1, <1>2 DEF PutWord, FifoType
<1>3. ASSUME NEW bytes, PutSize(u, bytes) PROVE outStreamVSize'[v] = outStreamVSize[v]
  BY <1>1, <1>3 DEF PutSize, FifoType
<1>4. CASE FirstByte(u)
  BY <1>1, <1>4 DEF FirstByte, UpType, CoreType, Take, dataFifo, sizeFifo
<1>5. CASE Upsize(u)
  <2>1. /\ inStream'[v] = inStream[v] /\ inStreamEos'[v] = inStreamEos[v]
        /\ inValue'[v] = inValue[v] /\ upc'[v] = upc[v]
    BY <1>1, <1>5 DEF Upsize, UpType, CoreType, Take
  <2> DEFINE at == IF WordFull(u) THEN 0 ELSE byteIdx[u]
  <2>2. outBuffer' = [outBuffer EXCEPT ![u][at] = inValue[u]] /\ byteIdx' = [byteIdx EXCEPT ![u] = at + 1]
    BY <1>5 DEF Upsize
  <2>3. outBuffer'[v] = outBuffer[v] /\ byteIdx'[v] = byteIdx[v]
    <3> HIDE DEF at
    <3> QED BY <1>1, <2>2 DEF UpType
  <2>4. PassOn(u)
    BY <1>5 DEF Upsize
  <2>5. outStreamV'[v] = outStreamV[v] /\ outStreamVSize'[v] = outStreamVSize[v]
    BY <1>2, <1>3, <2>4 DEF PassOn, dataFifo, sizeFifo
  <2>6. sizeWrite'[v] = sizeWrite[v]
    BY <1>1, <2>4 DEF PassOn, UpType
  <2> QED BY <2>1, <2>3, <2>5, <2>6
<1>6. CASE EndOfStream(u)
  BY <1>1, <1>6 DEF EndOfStream, UpType, CoreType, Take, dataFifo, sizeFifo
<1>7. CASE Flush(u)
  BY <1>1, <1>2, <1>7 DEF Flush, UpType, coreFifos, sizeFifo
<1>8. CASE LastSize(u)
  BY <1>1, <1>3, <1>8 DEF LastSize, UpType, coreFifos, dataFifo
<1>9. CASE ZeroSize(u)
  BY <1>1, <1>3, <1>9 DEF ZeroSize, UpType, coreFifos, dataFifo
<1> QED BY <1>4, <1>5, <1>6, <1>7, <1>8, <1>9 DEF stream2mmUpsizer

\* A word more in the data FIFO.
LEMMA AppendedWord ==
    ASSUME TypeOK, NEW u \in Lanes, PutWord(u)
    PROVE  /\ outStreamV'[u] = Append(outStreamV[u], outBuffer[u])
           /\ Len(outStreamV'[u]) = Len(outStreamV[u]) + 1
           /\ outStreamV'[u][Len(outStreamV[u]) + 1] = outBuffer[u]
           /\ \A k \in 1..Len(outStreamV[u]) : outStreamV'[u][k] = outStreamV[u][k]
<1>1. outStreamV[u] \in Seq(WordType) /\ outBuffer[u] \in WordType
      /\ outStreamV'[u] = Append(outStreamV[u], outBuffer[u])
  BY DEF TypeOK, FifoType, UpType, PutWord
<1> HIDE DEF WordType
<1> QED BY <1>1, AppendProperties

\* A size more in the size FIFO.
LEMMA AppendedSize ==
    ASSUME TypeOK, NEW u \in Lanes, NEW bytes \in Nat, PutSize(u, bytes), Len(outStreamV'[u]) \in Nat,
           NEW n, n = Sized(u)
    PROVE  /\ Sized(u)' = n + 1
           /\ \A k \in 0..n : UpTo(u, k)' = UpTo(u, k)
           /\ \A k \in 1..n : SizeAt(u, k)' = SizeAt(u, k)
           /\ UpTo(u, n + 1)' = Len(outStreamV'[u])
           /\ SizeAt(u, n + 1)' = bytes
<1> DEFINE x == Size(bytes, Len(outStreamV'[u]))
<1>1. /\ outStreamVSize[u] \in Seq(Sizes) /\ x \in Sizes
      /\ outStreamVSize'[u] = Append(outStreamVSize[u], x)
      /\ x.bytes = bytes /\ x.upto = Len(outStreamV'[u])
  BY DEF TypeOK, FifoType, PutSize, Size, Sizes
<1> HIDE DEF x, Sizes
<1>2. /\ Len(outStreamVSize'[u]) = Len(outStreamVSize[u]) + 1
      /\ outStreamVSize'[u][Len(outStreamVSize[u]) + 1] = x
      /\ \A k \in 1..Len(outStreamVSize[u]) : outStreamVSize'[u][k] = outStreamVSize[u][k]
  BY <1>1, AppendProperties
<1>3. n \in Nat /\ n = Len(outStreamVSize[u]) /\ Sized(u)' = Len(outStreamVSize'[u])
  BY LaneTypes DEF Sized
<1>4. UpTo(u, n + 1)' = x.upto /\ SizeAt(u, n + 1)' = x.bytes
  <2>1. n + 1 # 0
    BY <1>3
  <2> QED BY <1>2, <1>3, <2>1 DEF UpTo, SizeAt
<1>5. ASSUME NEW k \in 1..n PROVE UpTo(u, k)' = UpTo(u, k) /\ SizeAt(u, k)' = SizeAt(u, k)
  BY <1>2, <1>3 DEF UpTo, SizeAt
<1>6. UpTo(u, 0)' = UpTo(u, 0)
  BY DEF UpTo
<1>7. \A k \in 0..n : k = 0 \/ k \in 1..n
  BY <1>3
<1> QED BY <1>1, <1>2, <1>3, <1>4, <1>5, <1>6, <1>7

\* With it the sizes still announce all words but those of the next burst.
LEMMA SizesGrown ==
    ASSUME TypeOK, NEW u \in Lanes, SizesInv(u), NEW bytes \in Nat, PutSize(u, bytes),
           upc[u] # "done", bytes = 0 => upc'[u] = "done",
           NEW len \in Nat, len = Len(outStreamV'[u]),
           UpTo(u, Sized(u)) <= len, bytes = WordSize * (len - UpTo(u, Sized(u)))
    PROVE  SizesInv(u)' /\ UpTo(u, Sized(u))' = len
<1> DEFINE n == Sized(u)
<1>1. n \in Nat /\ UpTo(u, n) \in Nat
  BY LaneTypes, UpToIsNat
<1>2. PICK m \in Nat : m = n
  BY <1>1
<1>3. /\ Sized(u)' = m + 1
      /\ \A k \in 0..m : UpTo(u, k)' = UpTo(u, k)
      /\ \A k \in 1..m : SizeAt(u, k)' = SizeAt(u, k)
      /\ UpTo(u, m + 1)' = len
      /\ SizeAt(u, m + 1)' = bytes
  BY <1>2, AppendedSize
<1>4. \A k \in 1..m : /\ UpTo(u, k - 1) <= UpTo(u, k) /\ UpTo(u, k) <= UpTo(u, m)
                      /\ SizeAt(u, k) = WordSize * (UpTo(u, k) - UpTo(u, k - 1))
                      /\ SizeAt(u, k) # 0 /\ UpTo(u, k) \in Nat
  BY <1>1, <1>2, UpToIsNat DEF SizesInv
<1>5. UpTo(u, m) \in Nat /\ UpTo(u, m) <= len /\ bytes = WordSize * (len - UpTo(u, m))
  BY <1>1, <1>2
<1>6. UpTo(u, Sized(u))' = len
  BY <1>3 DEF UpTo
<1>7. ASSUME NEW k \in 1..m + 1
      PROVE  /\ UpTo(u, k - 1)' <= UpTo(u, k)'
             /\ UpTo(u, k)' <= len
             /\ SizeAt(u, k)' = WordSize * (UpTo(u, k)' - UpTo(u, k - 1)')
             /\ SizeAt(u, k)' = 0 => k = m + 1 /\ upc'[u] = "done"
  <2>1. CASE k \in 1..m
    <3>1. k \in 0..m /\ k - 1 \in 0..m
      BY <2>1
    <3>2. UpTo(u, k)' = UpTo(u, k) /\ UpTo(u, k - 1)' = UpTo(u, k - 1) /\ SizeAt(u, k)' = SizeAt(u, k)
      BY <1>3, <2>1, <3>1
    <3> QED BY <1>4, <1>5, <2>1, <3>2
  <2>2. CASE k = m + 1
    <3>1. k - 1 = m /\ m \in 0..m
      BY <2>2
    <3>2. UpTo(u, k)' = len /\ UpTo(u, k - 1)' = UpTo(u, m) /\ SizeAt(u, k)' = bytes
      BY <1>3, <2>2, <3>1
    <3> QED BY <1>5, <2>2, <3>2
  <2> QED BY <2>1, <2>2
<1> QED BY <1>3, <1>6, <1>7 DEF SizesInv

\* A size more does not change what the writer has read.
LEMMA WriteGrown ==
    ASSUME TypeOK, NEW u \in Lanes, WriteInv(u), NEW bytes \in Nat, PutSize(u, bytes),
           Len(outStreamV'[u]) \in Nat, upc[u] # "done",
           UNCHANGED mmVars, wordsRead'[u] = wordsRead[u]
    PROVE  WriteInv(u)'
<1> DEFINE n == sizesRead[u]
<1>1. n \in Nat /\ n <= Sized(u) /\ Sized(u) \in Nat
  BY LaneTypes
<1>2. PICK m \in Nat : m = Sized(u)
  BY <1>1
<1>3. \A k \in 0..m : UpTo(u, k)' = UpTo(u, k)
  BY <1>2, AppendedSize
<1>4. sizesRead'[u] = n /\ InHand(u)' = InHand(u) /\ is_pending[u]
  BY DEF PutSize, InHand, mmVars, WriteInv
<1>5. PICK r \in Nat : r = n
  BY <1>1
<1>6. UpTo(u, r)' = UpTo(u, r) /\ (r > 0 => UpTo(u, r - 1)' = UpTo(u, r - 1))
  <2>1. r \in 0..m /\ (r > 0 => r - 1 \in 0..m)
    BY <1>1, <1>2, <1>5
  <2> QED BY <1>3, <2>1
<1>7. UpTo(u, sizesRead[u])' = UpTo(u, n) /\ (n > 0 => UpTo(u, sizesRead[u] - 1)' = UpTo(u, n - 1))
  BY <1>4, <1>5, <1>6 DEF UpTo
<1> QED BY <1>4, <1>7 DEF WriteInv, mmVars

\* An upsizer that passes a word on, and with the last of a burst its size.
LEMMA CountsUpsize ==
    ASSUME CountsInv, NEW u \in Lanes, Upsize(u) PROVE LaneCounts(u)'
<1> DEFINE n == Sized(u)  len == Len(outStreamV[u])  sw == sizeWrite[u]
<1>1. /\ TypeOK /\ SizesInv(u) /\ CountInv(u) /\ WriteInv(u)
  BY DEF CountsInv, LaneCounts
<1>2. /\ n \in Nat /\ len \in Nat /\ sw \in Nat /\ UpTo(u, n) \in Nat
      /\ byteIdx[u] \in 0..WordSize
  BY <1>1, LaneTypes, UpToIsNat
<1>3. /\ upc[u] = "loop" /\ upc'[u] = "loop" /\ UNCHANGED mmVars /\ PassOn(u)
      /\ wordsRead'[u] = wordsRead[u] /\ sizesRead'[u] = sizesRead[u]
  BY DEF Upsize, PassOn, PutWord, PutSize, dataFifo, sizeFifo
<1>4. len = UpTo(u, n) + sw /\ sw < BURST_SIZE
  BY <1>1, <1>3 DEF CountInv, Unannounced
<1>5. byteIdx'[u] > 0
  <2> DEFINE at == IF WordFull(u) THEN 0 ELSE byteIdx[u]
  <2>1. byteIdx' = [byteIdx EXCEPT ![u] = at + 1] /\ at \in Nat
    <3>1. byteIdx[u] \in Nat
      BY <1>2, LanesAssumption
    <3>2. at \in Nat
      BY <3>1
    <3> QED BY <3>2 DEF Upsize
  <2>2. byteIdx \in [Lanes -> 0..WordSize]
    BY <1>1 DEF TypeOK, UpType
  <2> HIDE DEF at
  <2> QED BY <2>1, <2>2
<1>6. sizeWrite \in [Lanes -> Nat] /\ BURST_SIZE \in Nat /\ WordSize \in Nat
  BY <1>1, LanesAssumption DEF TypeOK, UpType
<1>7. CASE WordFull(u)
  <2>1. PutWord(u) /\ Len(outStreamV'[u]) = len + 1
    BY <1>1, <1>3, <1>7, AppendedWord DEF PassOn
  <2>2. CASE BurstFull(u)
    <3>1. PutSize(u, BURST_SIZE * WordSize) /\ sizeWrite'[u] = 0
      BY <1>3, <1>6, <1>7, <2>2 DEF PassOn
    <3>2. BURST_SIZE * WordSize \in Nat /\ BURST_SIZE * WordSize > 0
          /\ BURST_SIZE * WordSize = WordSize * (len + 1 - UpTo(u, n))
      <4>1. BURST_SIZE = len + 1 - UpTo(u, n)
        <5> HIDE DEF n, len
        <5> QED BY <1>2, <1>4, <2>2 DEF BurstFull
      <4>2. BURST_SIZE * WordSize = WordSize * BURST_SIZE /\ BURST_SIZE * WordSize \in Nat
            /\ BURST_SIZE * WordSize > 0
        BY LanesAssumption, SMT
      <4> QED BY <4>1, <4>2
    <3>3. UpTo(u, n) <= len + 1 /\ len + 1 \in Nat
      BY <1>2, <1>4
    <3>4. SizesInv(u)' /\ UpTo(u, Sized(u))' = len + 1
      <4>1. PICK b \in Nat : b = BURST_SIZE * WordSize
        BY <3>2
      <4>2. PICK l \in Nat : l = len + 1
        BY <3>3
      <4>3. /\ PutSize(u, b) /\ b # 0 /\ b = WordSize * (l - UpTo(u, n)) /\ UpTo(u, n) <= l
            /\ l = Len(outStreamV'[u])
        <5>1. PutSize(u, b)
          BY <3>1, <4>1, Zenon
        <5>2. b = WordSize * (l - UpTo(u, n))
          <6>1. BURST_SIZE = l - UpTo(u, n)
            <7> HIDE DEF n, len
            <7> QED BY <1>2, <1>4, <2>2, <4>2 DEF BurstFull, len
          <6>2. BURST_SIZE * WordSize = WordSize * BURST_SIZE
            BY LanesAssumption
          <6> QED BY <4>1, <6>1, <6>2, Zenon
        <5>3. b > 0 /\ l = Len(outStreamV'[u]) /\ UpTo(u, n) <= l
          BY <2>1, <3>2, <3>3, <4>1, <4>2
        <5> QED BY <5>1, <5>2, <5>3
      <4> HIDE DEF n
      <4>4. SizesInv(u)' /\ UpTo(u, Sized(u))' = l
        BY <1>1, <1>3, <4>3, SizesGrown DEF n
      <4> QED BY <4>2, <4>4
    <3>5. WriteInv(u)'
      <4>1. Len(outStreamV'[u]) \in Nat
        BY <2>1, <3>3
      <4> QED BY <1>1, <1>3, <3>1, <3>2, <4>1, WriteGrown
    <3>6. CountInv(u)'
      <4>1. Unannounced(u)' = 0
        BY <1>3, <3>1 DEF Unannounced
      <4>2. sizeWrite'[u] < BURST_SIZE
        BY <3>1, LanesAssumption
      <4>3. Len(outStreamV'[u]) = UpTo(u, Sized(u))' + Unannounced(u)'
        BY <2>1, <3>3, <3>4, <4>1
      <4> QED BY <1>3, <1>5, <4>2, <4>3 DEF CountInv
    <3> QED BY <3>4, <3>5, <3>6 DEF LaneCounts
  <2>3. CASE ~BurstFull(u)
    <3>1. UNCHANGED sizeFifo /\ sizeWrite'[u] = sw + 1
      BY <1>3, <1>6, <1>7, <2>3 DEF PassOn
    <3>2. SizesInv(u)' /\ WriteInv(u)' /\ UpTo(u, Sized(u))' = UpTo(u, n)
      BY <1>1, <1>3, <3>1, SizesUntouched, WriteUntouched DEF sizeFifo, UpTo, Sized
    <3>3. CountInv(u)'
      <4>1. Unannounced(u)' = sw + 1
        BY <1>3, <3>1 DEF Unannounced
      <4>2. sizeWrite'[u] < BURST_SIZE
        <5> HIDE DEF sw
        <5> QED BY <1>2, <1>4, <1>6, <2>3, <3>1 DEF BurstFull, sw
      <4>3. Len(outStreamV'[u]) = UpTo(u, Sized(u))' + Unannounced(u)'
        <5> HIDE DEF n, sw, len
        <5> QED BY <1>2, <1>4, <2>1, <3>2, <4>1
      <4> QED BY <1>3, <1>5, <4>2, <4>3 DEF CountInv
    <3> QED BY <3>2, <3>3 DEF LaneCounts
  <2> QED BY <2>2, <2>3
<1>8. CASE ~WordFull(u)
  <2>1. UNCHANGED <<dataFifo, sizeFifo, sizeWrite>>
    BY <1>3, <1>8 DEF PassOn
  <2>2. SizesInv(u)' /\ WriteInv(u)'
    BY <1>1, <1>3, <2>1, SizesUntouched, WriteUntouched DEF sizeFifo, dataFifo
  <2>3. CountInv(u)'
    BY <1>1, <1>3, <1>5, <2>1 DEF CountInv, sizeFifo, dataFifo, UpTo, Sized, Unannounced
  <2> QED BY <2>2, <2>3 DEF LaneCounts
<1> QED BY <1>7, <1>8

\* The rest of an upsizer's steps.
LEMMA CountsUpsizer ==
    ASSUME CountsInv, NEW u \in Lanes, stream2mmUpsizer(u) PROVE \A v \in Lanes : LaneCounts(v)'
<1> DEFINE n == Sized(u)  len == Len(outStreamV[u])  sw == sizeWrite[u]
<1>1. /\ TypeOK /\ SizesInv(u) /\ CountInv(u) /\ WriteInv(u)
  BY DEF CountsInv, LaneCounts
<1>2. /\ n \in Nat /\ len \in Nat /\ sw \in Nat /\ UpTo(u, n) \in Nat
      /\ byteIdx[u] \in 0..WordSize
  BY <1>1, LaneTypes, UpToIsNat
<1>3. UNCHANGED mmVars /\ wordsRead' = wordsRead /\ sizesRead' = sizesRead /\ upc[u] # "done"
  BY DEF stream2mmUpsizer, FirstByte, Upsize, EndOfStream, Flush, LastSize, ZeroSize,
         PassOn, PutWord, PutSize, dataFifo, sizeFifo
<1>4. UpType
  BY <1>1 DEF TypeOK
<1>5. len = UpTo(u, n) + Unannounced(u)
  BY <1>1 DEF CountInv
<1>6. ASSUME UNCHANGED <<outStreamVSize, outStreamV>>
      PROVE  SizesInv(u)' /\ WriteInv(u)' /\ Len(outStreamV[u])' = len /\ UpTo(u, Sized(u))' = UpTo(u, n)
  BY <1>1, <1>3, <1>6, SizesUntouched, WriteUntouched DEF UpTo, Sized
<1>7. ASSUME NEW v \in Lanes, v # u PROVE LaneCounts(v)'
  <2>1. SizesInv(v) /\ CountInv(v) /\ WriteInv(v)
    BY DEF CountsInv, LaneCounts
  <2> QED BY <1>1, <1>3, <1>7, <2>1, UpsizerElsewhere, SizesUntouched, CountUntouched, WriteUntouched
          DEF LaneCounts
<1>8. SUFFICES LaneCounts(u)'
  BY <1>7
<1>9. CASE FirstByte(u)
  <2>1. UNCHANGED <<outStreamVSize, outStreamV, sizeWrite, byteIdx>> /\ upc[u] = "start" /\ upc'[u] = "loop"
    BY <1>4, <1>9 DEF FirstByte, dataFifo, sizeFifo, UpType
  <2>2. CountInv(u)'
    BY <1>1, <2>1 DEF CountInv, Unannounced, UpTo, Sized
  <2> QED BY <1>6, <2>1, <2>2 DEF LaneCounts
<1>10. CASE EndOfStream(u)
  <2>1. UNCHANGED <<outStreamVSize, outStreamV, sizeWrite, byteIdx>> /\ upc[u] = "loop"
        /\ upc'[u] = IF byteIdx[u] > 0 THEN "flush" ELSE "zero"
    BY <1>4, <1>10 DEF EndOfStream, dataFifo, sizeFifo, UpType
  <2>2. CountInv(u)'
    <3>1. CASE byteIdx[u] > 0
      BY <1>1, <2>1, <3>1 DEF CountInv, Unannounced, UpTo, Sized
    <3>2. CASE ~(byteIdx[u] > 0)
      <4>1. len = 0
        BY <1>1, <1>2, <2>1, <3>2 DEF CountInv
      <4>2. UpTo(u, n) = 0
        <5>1. Unannounced(u) \in Nat
          BY <1>1, LaneTypes
        <5> HIDE DEF n, len
        <5> QED BY <1>2, <1>5, <4>1, <5>1
      <4>3. Unannounced(u)' = 0 /\ upc'[u] = "zero"
        BY <2>1, <3>2 DEF Unannounced
      <4>4. Len(outStreamV[u])' = 0 /\ UpTo(u, Sized(u))' = 0
        BY <1>6, <2>1, <4>1, <4>2
      <4> QED BY <4>3, <4>4 DEF CountInv
    <3> QED BY <3>1, <3>2
  <2> QED BY <1>6, <2>1, <2>2 DEF LaneCounts
<1>11. CASE Flush(u)
  <2>1. /\ upc[u] = "flush" /\ upc'[u] = "size" /\ sizeWrite'[u] = sw + 1 /\ PutWord(u)
        /\ UNCHANGED sizeFifo
    BY <1>4, <1>11 DEF Flush, UpType
  <2>2. Len(outStreamV'[u]) = len + 1
    BY <1>1, <2>1, AppendedWord
  <2>3. SizesInv(u)' /\ WriteInv(u)' /\ UpTo(u, Sized(u))' = UpTo(u, n)
    BY <1>1, <1>3, <2>1, SizesUntouched, WriteUntouched DEF sizeFifo, UpTo, Sized
  <2>4. CountInv(u)'
    <3>1. Unannounced(u)' = sw + 1 /\ Unannounced(u) = sw
      BY <2>1 DEF Unannounced
    <3>2. sizeWrite'[u] \in 1..BURST_SIZE
      <4>1. sw < BURST_SIZE /\ BURST_SIZE \in Nat
        BY <1>1, <2>1, LanesAssumption DEF CountInv
      <4> QED BY <1>2, <2>1, <4>1
    <3>3. Len(outStreamV'[u]) = UpTo(u, Sized(u))' + Unannounced(u)'
      <4> HIDE DEF n, sw, len
      <4> QED BY <1>2, <1>5, <2>2, <2>3, <3>1
    <3> QED BY <2>1, <3>2, <3>3 DEF CountInv
  <2> QED BY <2>3, <2>4 DEF LaneCounts
<1>12. CASE LastSize(u)
  <2>1. /\ upc[u] = "size" /\ upc'[u] = "zero" /\ PutSize(u, RestSize(u))
        /\ UNCHANGED <<dataFifo, sizeWrite>>
    BY <1>4, <1>12 DEF LastSize, UpType
  <2>2. Len(outStreamV'[u]) = len /\ len = UpTo(u, n) + sw /\ sw > 0
    BY <1>1, <1>5, <2>1 DEF dataFifo, CountInv, Unannounced
  <2>3. RestSize(u) = WordSize * (len - UpTo(u, n)) /\ RestSize(u) \in Nat /\ RestSize(u) # 0
    <3>1. sw = len - UpTo(u, n)
      <4> HIDE DEF n, len, sw
      <4> QED BY <1>2, <2>2
    <3>2. RestSize(u) = WordSize * sw
      <4>1. WordSize \in Nat
        BY LanesAssumption
      <4> QED BY <1>2, <4>1, SMT DEF RestSize
    <3> QED BY <1>2, <2>2, <3>1, <3>2, WordsExact
  <2>4. SizesInv(u)' /\ UpTo(u, Sized(u))' = len
    <3>1. UpTo(u, n) <= len
      <4> HIDE DEF n, len, sw
      <4> QED BY <1>2, <2>2
    <3> QED BY <1>1, <1>2, <1>3, <2>1, <2>2, <2>3, <3>1, SizesGrown
  <2>5. WriteInv(u)'
    <3>1. Len(outStreamV'[u]) \in Nat
      BY <1>2, <2>2
    <3> QED BY <1>1, <1>3, <2>1, <2>3, <3>1, WriteGrown
  <2>6. CountInv(u)'
    <3>1. Unannounced(u)' = 0
      BY <2>1 DEF Unannounced
    <3>2. Len(outStreamV'[u]) = UpTo(u, Sized(u))' + Unannounced(u)'
      BY <1>2, <2>2, <2>4, <3>1
    <3> QED BY <2>1, <3>2 DEF CountInv
  <2> QED BY <2>4, <2>5, <2>6 DEF LaneCounts
<1>13. CASE ZeroSize(u)
  <2>1. /\ upc[u] = "zero" /\ upc'[u] = "done" /\ PutSize(u, 0) /\ UNCHANGED dataFifo
    BY <1>4, <1>13 DEF ZeroSize, UpType
  <2>2. Len(outStreamV'[u]) = len /\ UpTo(u, n) = len
    <3>1. Unannounced(u) = 0
      BY <2>1 DEF Unannounced
    <3> HIDE DEF n, len
    <3> QED BY <1>2, <1>5, <2>1, <3>1 DEF dataFifo, len
  <2>3. 0 = WordSize * (len - UpTo(u, n)) /\ UpTo(u, n) <= len
    <3>1. len - UpTo(u, n) = 0
      BY <1>2, <2>2
    <3> QED BY <1>2, <2>2, <3>1, WordsExact
  <2>4. SizesInv(u)' /\ UpTo(u, Sized(u))' = len
    BY <1>1, <1>2, <1>3, <2>1, <2>2, <2>3, SizesGrown
  <2>5. WriteInv(u)'
    <3>1. Len(outStreamV'[u]) \in Nat
      BY <1>2, <2>2
    <3> QED BY <1>1, <1>3, <2>1, <3>1, WriteGrown
  <2>6. CountInv(u)'
    <3>1. Unannounced(u)' = 0
      BY <2>1 DEF Unannounced
    <3>2. Len(outStreamV'[u]) = UpTo(u, Sized(u))' + Unannounced(u)'
      BY <1>2, <2>2, <2>4, <3>1
    <3> QED BY <2>1, <3>2 DEF CountInv
  <2> QED BY <2>4, <2>5, <2>6 DEF LaneCounts
<1> QED BY <1>9, <1>10, <1>11, <1>12, <1>13, CountsUpsize DEF stream2mmUpsizer

-----------------------------------------------------------------------------
(* The writer *)

\* A step of the writer leaves these to every lane.
LEMMA WriterElsewhere ==
    ASSUME CountsInv, multStream2mmSize, NEW v \in Lanes
    PROVE  /\ SizesInv(v)' /\ CountInv(v)'
           /\ \A k : UpTo(v, k)' = UpTo(v, k)
           /\ Sized(v)' = Sized(v) /\ upc' = upc
<1>1. UNCHANGED <<upVars, outStreamV, outStreamVSize>>
  BY DEF multStream2mmSize, Skip, ReadSize, GmemWrite, BurstWritten, ReadTotal, dataFifo, sizeFifo
<1>2. SizesInv(v) /\ CountInv(v)
  BY DEF CountsInv, LaneCounts
<1> QED BY <1>1, <1>2, SizesUntouched, CountUntouched DEF upVars, UpTo, Sized

\* A lane that is not in hand before nor after, and nothing of it is read.
LEMMA NotInHand ==
    ASSUME TypeOK, NEW v \in Lanes, WriteInv(v), ~InHand(v), ~InHand(v)',
           \A k : UpTo(v, k)' = UpTo(v, k), Sized(v)' = Sized(v), upc' = upc,
           wordsRead'[v] = wordsRead[v], sizesRead'[v] = sizesRead[v],
           write_size'[v] = write_size[v], is_pending'[v] = is_pending[v],
           pc' \in {"totals", "done"} => ~is_pending[v]
    PROVE  WriteInv(v)'
<1>1. UpTo(v, sizesRead[v])' = UpTo(v, sizesRead[v])
  BY DEF UpTo
<1> QED BY <1>1 DEF WriteInv

LEMMA CountsSkip ==
    ASSUME CountsInv, Skip PROVE \A v \in Lanes : WriteInv(v)'
<1> SUFFICES ASSUME NEW v \in Lanes PROVE WriteInv(v)'
  OBVIOUS
<1>1. TypeOK /\ WriteInv(v) /\ multStream2mmSize
  BY DEF CountsInv, LaneCounts, multStream2mmSize
<1>2. pc = "poll" /\ UNCHANGED <<is_pending, write_size, wordsRead, sizesRead>> /\ Advance(is_pending)
  BY DEF Skip, dataFifo, sizeFifo
<1>3. pc' \in {"poll", "totals"} /\ (pc' = "totals" => ~is_pending[v])
  BY <1>1, <1>2, AdvanceType
<1> QED BY <1>1, <1>2, <1>3, WriterElsewhere, NotInHand DEF InHand

\* A size is read: of a burst, which the writer takes in hand, or the last one.
LEMMA CountsReadSize ==
    ASSUME CountsInv, ReadSize PROVE \A v \in Lanes : WriteInv(v)'
<1> DEFINE n == sizesRead[i] + 1  bytes == outStreamVSize[i][n].bytes
<1>1. TypeOK /\ multStream2mmSize /\ i \in Lanes
  BY DEF CountsInv, multStream2mmSize, TypeOK, MmType
<1>2. /\ pc = "poll" /\ ~NoSize(i) /\ sizesRead' = [sizesRead EXCEPT ![i] = n]
      /\ is_pending' = [is_pending EXCEPT ![i] = StillPending(i, bytes)]
      /\ readSize' = Words(bytes) /\ j' = 0 /\ UNCHANGED <<write_size, wordsRead>>
      /\ bytes > 0 => pc' = "write" /\ i' = i
      /\ ~(bytes > 0) => Advance(is_pending')
  BY DEF ReadSize, dataFifo
<1>3. /\ sizesRead \in [Lanes -> Nat] /\ is_pending \in [Lanes -> BOOLEAN] /\ write_size \in [Lanes -> Nat]
      /\ wordsRead \in [Lanes -> Nat]
  BY <1>1 DEF TypeOK, FifoType, MmType
<1>4. \A v \in Lanes : WriteInv(v) /\ SizesInv(v)
  BY DEF CountsInv, LaneCounts
<1>5. ASSUME NEW v \in Lanes, v # i PROVE WriteInv(v)'
  <2>1. ~InHand(v)
    BY <1>2 DEF InHand
  <2>2. ~InHand(v)' /\ (pc' \in {"totals", "done"} => ~is_pending[v])
    <3>1. CASE bytes > 0
      BY <1>2, <1>5, <3>1 DEF InHand
    <3>2. CASE ~(bytes > 0)
      <4>1. pc' \in {"poll", "totals"} /\ (pc' = "totals" => ~is_pending'[v])
        BY <1>1, <1>2, <3>2, AdvanceType
      <4>2. is_pending'[v] = is_pending[v]
        BY <1>2, <1>3, <1>5
      <4> QED BY <4>1, <4>2 DEF InHand
    <3> QED BY <3>1, <3>2
  <2>3. sizesRead'[v] = sizesRead[v] /\ is_pending'[v] = is_pending[v]
    BY <1>2, <1>3, <1>5
  <2> QED BY <1>1, <1>2, <1>4, <2>1, <2>2, <2>3, WriterElsewhere, NotInHand
<1>6. ASSUME NEW v \in Lanes, v = i PROVE WriteInv(v)'
  <2>1. /\ n \in 1..Sized(v) /\ n \in Nat /\ n - 1 = sizesRead[v] /\ n > 0
    <3>1. sizesRead[v] \in Nat /\ sizesRead[v] <= Sized(v) /\ Sized(v) \in Nat
          /\ sizesRead[v] # Sized(v)
      BY <1>1, <1>2, <1>6, LaneTypes DEF NoSize, Sized
    <3> QED BY <1>6, <3>1
  <2>2. sizesRead'[v] = n /\ bytes = SizeAt(v, n)
    BY <1>2, <1>3, <1>6 DEF SizeAt
  <2> DEFINE words == UpTo(v, n) - UpTo(v, n - 1)
  <2>3. /\ UpTo(v, n - 1) \in Nat /\ UpTo(v, n) \in Nat /\ words \in Nat /\ SizeAt(v, n) = WordSize * words
    BY <1>1, <1>4, <2>1, BurstIsNat
  <2>4. Words(bytes) = words /\ bytes \in Nat /\ (bytes = 0 <=> words = 0)
    BY <2>2, <2>3, WordsExact
  <2>5. wordsRead[v] = UpTo(v, n - 1) /\ write_size[v] = wordsRead[v] /\ is_pending[v]
    <3>1. ~InHand(v) /\ sizesRead[v] # Sized(v)
      BY <1>2, <1>6 DEF InHand, NoSize, Sized
    <3> QED BY <1>4, <2>1, <3>1 DEF WriteInv
  <2>6. UpTo(v, sizesRead[v])' = UpTo(v, n) /\ UpTo(v, sizesRead[v] - 1)' = UpTo(v, n - 1)
        /\ Sized(v)' = Sized(v) /\ upc' = upc
    <3>1. \A k : UpTo(v, k)' = UpTo(v, k)
      BY <1>1, WriterElsewhere
    <3>2. PICK m \in Nat : m = n
      BY <2>1
    <3>3. UpTo(v, m)' = UpTo(v, m) /\ UpTo(v, m - 1)' = UpTo(v, m - 1) /\ sizesRead'[v] = m
      BY <2>2, <3>1, <3>2
    <3>4. UpTo(v, sizesRead[v])' = UpTo(v, m) /\ UpTo(v, sizesRead[v] - 1)' = UpTo(v, m - 1)
      BY <3>3 DEF UpTo
    <3> HIDE DEF n
    <3> QED BY <1>1, <3>2, <3>4, WriterElsewhere
  <2>7. is_pending'[v] = (bytes > 0)
    <3>1. is_pending'[v] = StillPending(v, bytes)
      <4> HIDE DEF bytes
      <4> QED BY <1>2, <1>3, <1>6, Zenon
    <3> QED BY <3>1 DEF StillPending
  <2> HIDE DEF words, bytes, n
  <2>8. CASE bytes > 0
    <3>0. is_pending'[v]
      BY <2>7, <2>8, Zenon
    <3>1. /\ InHand(v)' /\ readSize' = words /\ words > 0 /\ j' = 0
          /\ sizesRead'[v] > 0 /\ pc' = "write"
      BY <1>2, <1>6, <2>1, <2>2, <2>3, <2>4, <2>8 DEF InHand
    <3>2. /\ write_size'[v] = UpTo(v, n - 1) /\ wordsRead'[v] = write_size'[v] + j'
      BY <1>2, <2>3, <2>5, <3>1
    <3>3. words = UpTo(v, n) - UpTo(v, n - 1)
      BY DEF words
    <3>4. j' <= readSize'
      BY <2>3, <3>1
    <3> QED BY <2>6, <3>0, <3>1, <3>2, <3>3, <3>4 DEF WriteInv
  <2>9. CASE ~(bytes > 0)
    <3>1. ~InHand(v)' /\ pc' \in {"poll", "totals"}
      BY <1>1, <1>2, <2>9, AdvanceType DEF InHand
    <3>2. bytes = 0 /\ UpTo(v, n) = UpTo(v, n - 1)
      <4>1. bytes = 0 /\ words = 0
        BY <2>4, <2>9
      <4> QED BY <2>3, <4>1 DEF words
    <3>3. n = Sized(v) /\ upc[v] = "done"
      BY <1>4, <2>1, <2>2, <3>2 DEF SizesInv
    <3>4. ~is_pending'[v]
      BY <2>7, <2>9
    <3>5. wordsRead'[v] = UpTo(v, n) /\ write_size'[v] = wordsRead'[v]
      BY <1>2, <2>5, <3>2
    <3> QED BY <2>2, <2>6, <3>1, <3>3, <3>4, <3>5 DEF WriteInv
  <2> QED BY <2>8, <2>9
<1> QED BY <1>5, <1>6

LEMMA CountsGmemWrite ==
    ASSUME CountsInv, GmemWrite PROVE \A v \in Lanes : WriteInv(v)'
<1> SUFFICES ASSUME NEW v \in Lanes PROVE WriteInv(v)'
  OBVIOUS
<1>1. TypeOK /\ WriteInv(v) /\ multStream2mmSize /\ i \in Lanes
  BY DEF CountsInv, LaneCounts, multStream2mmSize, TypeOK, MmType
<1>2. /\ pc = "write" /\ j < readSize /\ wordsRead' = [wordsRead EXCEPT ![i] = @ + 1] /\ j' = j + 1
      /\ UNCHANGED <<pc, i, is_pending, readSize, write_size, sizesRead>>
      /\ wordsRead \in [Lanes -> Nat]
  BY <1>1 DEF GmemWrite, sizeFifo, TypeOK, FifoType
<1>3. CASE v # i
  <2>1. wordsRead'[v] = wordsRead[v] /\ ~InHand(v) /\ ~InHand(v)'
    BY <1>2, <1>3 DEF InHand
  <2> QED BY <1>1, <1>2, <2>1, WriterElsewhere, NotInHand
<1>4. CASE v = i
  <2>1. InHand(v) /\ InHand(v)' /\ wordsRead'[v] = wordsRead[v] + 1
    BY <1>2, <1>4 DEF InHand
  <2>2. j \in Nat /\ readSize \in Nat /\ write_size[v] \in Nat
    BY <1>1, LaneTypes
  <2>3. j' <= readSize' /\ wordsRead'[v] = write_size'[v] + j'
    BY <1>1, <1>2, <2>1, <2>2 DEF WriteInv
  <2>4. UpTo(v, sizesRead[v])' = UpTo(v, sizesRead[v]) /\ UpTo(v, sizesRead[v] - 1)' = UpTo(v, sizesRead[v] - 1)
    BY <1>1, <1>2, WriterElsewhere DEF UpTo
  <2> QED BY <1>1, <1>2, <2>1, <2>3, <2>4 DEF WriteInv
<1> QED BY <1>3, <1>4

LEMMA CountsBurstWritten ==
    ASSUME CountsInv, BurstWritten PROVE \A v \in Lanes : WriteInv(v)'
<1> SUFFICES ASSUME NEW v \in Lanes PROVE WriteInv(v)'
  OBVIOUS
<1>1. TypeOK /\ WriteInv(v) /\ multStream2mmSize /\ i \in Lanes /\ SizesInv(v)
  BY DEF CountsInv, LaneCounts, multStream2mmSize, TypeOK, MmType
<1>2. /\ pc = "write" /\ j >= readSize /\ write_size' = [write_size EXCEPT ![i] = @ + readSize]
      /\ UNCHANGED <<is_pending, sizesRead, wordsRead>>
      /\ write_size \in [Lanes -> Nat] /\ Advance(is_pending)
  BY <1>1 DEF BurstWritten, sizeFifo, dataFifo, TypeOK, MmType
<1>3. pc' \in {"poll", "totals"} /\ (pc' = "totals" => ~is_pending[v])
  BY <1>1, <1>2, AdvanceType
<1>4. CASE v # i
  <2>1. write_size'[v] = write_size[v] /\ ~InHand(v) /\ ~InHand(v)'
    BY <1>2, <1>3, <1>4 DEF InHand
  <2> QED BY <1>1, <1>2, <1>3, <2>1, WriterElsewhere, NotInHand
<1>5. CASE v = i
  <2>1. InHand(v) /\ ~InHand(v)' /\ write_size'[v] = write_size[v] + readSize
    BY <1>2, <1>3, <1>5 DEF InHand
  <2>2. j \in Nat /\ readSize \in Nat /\ write_size[v] \in Nat /\ sizesRead[v] \in 1..Sized(v)
    BY <1>1, <2>1, LaneTypes DEF WriteInv
  <2>3. UpTo(v, sizesRead[v]) \in Nat /\ UpTo(v, sizesRead[v] - 1) \in Nat
    BY <1>1, <2>2, BurstIsNat
  <2>4. /\ j = readSize /\ wordsRead[v] = UpTo(v, sizesRead[v])
        /\ write_size'[v] = wordsRead[v]
    BY <1>1, <1>2, <2>1, <2>2, <2>3 DEF WriteInv
  <2>5. UpTo(v, sizesRead[v])' = UpTo(v, sizesRead[v])
    BY <1>1, <1>2, WriterElsewhere DEF UpTo
  <2>6. (~is_pending[v] => upc[v] = "done" /\ sizesRead[v] = Sized(v)) /\ Sized(v)' = Sized(v) /\ upc' = upc
    BY <1>1, WriterElsewhere DEF WriteInv
  <2> QED BY <1>2, <1>3, <2>1, <2>4, <2>5, <2>6 DEF WriteInv
<1> QED BY <1>4, <1>5

LEMMA CountsReadTotal ==
    ASSUME CountsInv, ReadTotal PROVE \A v \in Lanes : WriteInv(v)'
<1> SUFFICES ASSUME NEW v \in Lanes PROVE WriteInv(v)'
  OBVIOUS
<1>1. TypeOK /\ WriteInv(v) /\ multStream2mmSize
  BY DEF CountsInv, LaneCounts, multStream2mmSize
<1>2. /\ pc = "totals" /\ pc' \in {"totals", "done"}
      /\ UNCHANGED <<is_pending, sizesRead, wordsRead, write_size>>
  BY <1>1 DEF ReadTotal, sizeFifo, dataFifo
<1>3. ~is_pending[v]
  BY <1>1, <1>2 DEF WriteInv
<1> QED BY <1>1, <1>2, <1>3, WriterElsewhere, NotInHand DEF InHand

\* When a call has returned, all that was written and announced has been read.
LEMMA FifosRead ==
    ASSUME CountsInv, NEW v \in Lanes, pc \in {"totals", "done"}
    PROVE  /\ upc[v] = "done" /\ sizesRead[v] = Len(outStreamVSize[v])
           /\ wordsRead[v] = Len(outStreamV[v])
<1>1. TypeOK /\ CountInv(v) /\ WriteInv(v)
  BY DEF CountsInv, LaneCounts
<1>2. upc[v] = "done" /\ sizesRead[v] = Sized(v) /\ wordsRead[v] = UpTo(v, Sized(v))
  BY <1>1 DEF WriteInv, InHand
<1>3. UpTo(v, Sized(v)) \in Nat /\ Len(outStreamV[v]) = UpTo(v, Sized(v)) + 0
  BY <1>1, <1>2, LaneTypes, UpToIsNat DEF CountInv, Unannounced
<1> QED BY <1>2, <1>3 DEF Sized

\* Nothing has been written yet: the start of a call.
LaneEmpty(v) == /\ outStreamV[v] = <<>> /\ outStreamVSize[v] = <<>> /\ wordsRead[v] = 0 /\ sizesRead[v] = 0
                /\ write_size[v] = 0 /\ upc[v] = "start" /\ sizeWrite[v] = 0 /\ byteIdx[v] = 0
                /\ is_pending[v] = TRUE /\ pc = "poll"

LEMMA CountsStart == \A v \in Lanes : LaneEmpty(v) => LaneCounts(v)
<1> SUFFICES ASSUME NEW v \in Lanes, LaneEmpty(v) PROVE LaneCounts(v)
  OBVIOUS
<1> USE DEF LaneEmpty
<1>1. Sized(v) = 0 /\ Len(outStreamV[v]) = 0 /\ UpTo(v, 0) = 0 /\ BURST_SIZE > 0
  BY LanesAssumption DEF Sized, UpTo
<1>2. SizesInv(v)
  BY <1>1 DEF SizesInv
<1>3. CountInv(v)
  BY <1>1 DEF CountInv, Unannounced
<1>4. WriteInv(v)
  BY <1>1 DEF WriteInv, InHand
<1> QED BY <1>2, <1>3, <1>4 DEF LaneCounts

LEMMA CountsNextCall ==
    ASSUME CountsInv, NextCall PROVE \A v \in Lanes : LaneCounts(v)'
<1>1. ASSUME NEW v \in Lanes PROVE LaneEmpty(v)'
  <2>1. /\ outStreamV'[v] = SubSeq(outStreamV[v], wordsRead[v] + 1, Len(outStreamV[v]))
        /\ outStreamVSize'[v] = SubSeq(outStreamVSize[v], sizesRead[v] + 1, Len(outStreamVSize[v]))
    BY DEF NextCall, Left
  <2>2. /\ wordsRead[v] = Len(outStreamV[v]) /\ sizesRead[v] = Len(outStreamVSize[v])
        /\ Len(outStreamV[v]) \in Nat /\ Len(outStreamVSize[v]) \in Nat
    BY FifosRead, LaneTypes DEF NextCall, Returned, CountsInv, Sized
  <2>3. outStreamV'[v] = <<>> /\ outStreamVSize'[v] = <<>>
    BY <2>1, <2>2, SubSeqEmpty
  <2>4. /\ wordsRead'[v] = 0 /\ sizesRead'[v] = 0 /\ write_size'[v] = 0 /\ upc'[v] = "start"
        /\ sizeWrite'[v] = 0 /\ byteIdx'[v] = 0 /\ is_pending'[v] = TRUE /\ pc' = "poll"
    BY DEF NextCall, PerLane
  <2> QED BY <2>3, <2>4 DEF LaneEmpty
<1>2. (\A v \in Lanes : LaneEmpty(v) => LaneCounts(v))'
  BY CountsStart, PTL
<1> QED BY <1>1, <1>2

LEMMA CountsInit == Init => CountsInv
<1> SUFFICES ASSUME Init PROVE CountsInv
  OBVIOUS
<1>1. \A v \in Lanes : LaneEmpty(v)
  BY DEF Init, PerLane, LaneEmpty
<1> QED BY <1>1, TypeInit, CountsStart DEF CountsInv

LEMMA CountsNext == CountsInv /\ [Next]_vars => CountsInv'
<1> SUFFICES ASSUME CountsInv, [Next]_vars PROVE \A v \in Lanes : LaneCounts(v)'
  BY TypeNext DEF CountsInv
<1>1. CASE multStream2mmSize
  <2>1. \A v \in Lanes : WriteInv(v)'
    BY <1>1, CountsSkip, CountsReadSize, CountsGmemWrite, CountsBurstWritten, CountsReadTotal
    DEF multStream2mmSize
  <2> QED BY <1>1, <2>1, WriterElsewhere DEF LaneCounts
<1>2. ASSUME NEW v \in Lanes, stream2mmUpsizer(v) \/ Core(v) PROVE \A w \in Lanes : LaneCounts(w)'
  BY <1>2, CountsUpsizer, CountsCore
<1>3. CASE NextCall
  BY <1>3, CountsNextCall
<1>4. CASE UNCHANGED vars
  BY <1>4, SizesUntouched, CountUntouched, WriteUntouched
  DEF CountsInv, LaneCounts, vars, upVars, dataFifo, sizeFifo
<1> QED BY <1>1, <1>2, <1>3, <1>4 DEF Next

\* Words written, announced and read always go together as the invariant says.
THEOREM CountsInvariance == Spec => []CountsInv
BY CountsInit, CountsNext, PTL DEF Spec

\* No word is read that was not written; inside a burst there is one more.
LEMMA WordsReadBound ==
    ASSUME CountsInv, NEW v \in Lanes
    PROVE  /\ wordsRead[v] <= Len(outStreamV[v])
           /\ InHand(v) /\ j < readSize => wordsRead[v] < Len(outStreamV[v])
<1> DEFINE n == sizesRead[v]
<1>1. TypeOK /\ CountInv(v) /\ WriteInv(v) /\ SizesInv(v)
  BY DEF CountsInv, LaneCounts
<1>2. n \in Nat /\ n <= Sized(v) /\ Sized(v) \in Nat /\ j \in Nat /\ readSize \in Nat /\ Unannounced(v) \in Nat
  BY <1>1, LaneTypes
<1>3. Len(outStreamV[v]) = UpTo(v, Sized(v)) + Unannounced(v)
  BY <1>1 DEF CountInv
<1>4. UpTo(v, n) <= UpTo(v, Sized(v)) /\ UpTo(v, n) \in Nat /\ UpTo(v, Sized(v)) \in Nat
  <2>1. n \in 0..Sized(v) /\ Sized(v) \in 0..Sized(v)
    BY <1>2
  <2>2. UpTo(v, n) \in Nat /\ UpTo(v, Sized(v)) \in Nat
    BY <1>1, <2>1, UpToIsNat
  <2>3. CASE n = 0
    BY <2>2, <2>3 DEF UpTo
  <2>4. CASE n > 0
    <3>1. n \in 1..Sized(v)
      BY <1>2, <2>4
    <3> QED BY <1>1, <2>2, <3>1, BurstIsNat
  <2> QED BY <1>2, <2>3, <2>4
<1>5. CASE InHand(v)
  <2>1. n \in 1..Sized(v)
    BY <1>1, <1>2, <1>5 DEF WriteInv
  <2>2. UpTo(v, n - 1) \in Nat
    BY <1>1, <2>1, BurstIsNat
  <2>3. wordsRead[v] = UpTo(v, n - 1) + j /\ readSize = UpTo(v, n) - UpTo(v, n - 1) /\ j <= readSize
    BY <1>1, <1>5 DEF WriteInv
  <2> HIDE DEF n
  <2> QED BY <1>2, <1>3, <1>4, <2>2, <2>3
<1>6. CASE ~InHand(v)
  <2>1. wordsRead[v] = UpTo(v, n)
    BY <1>1, <1>6 DEF WriteInv
  <2> HIDE DEF n
  <2> QED BY <1>2, <1>3, <1>4, <1>6, <2>1
<1> QED BY <1>5, <1>6

\* The writer never waits inside a burst, for any number of lanes, burst size,
\* word width and FIFO depths: the words of a size are there before it.
THEOREM WordsAreThere == Spec => []WordsComeFirst
<1>1. ASSUME CountsInv, pc = "write", j < readSize PROVE wordsRead[i] < Len(outStreamV[i])
  <2>1. i \in Lanes /\ InHand(i)
    BY <1>1 DEF CountsInv, TypeOK, MmType, InHand
  <2> QED BY <1>1, <2>1, WordsReadBound
<1>2. CountsInv => WordsComeFirst
  BY <1>1 DEF WordsComeFirst
<1> QED BY <1>2, CountsInvariance, PTL

\* A data FIFO that holds a whole burst is enough for no upsizer to wait for
\* a writer that does not know of its words: the code's depth is twice that.
THEOREM NeverStuck == DataDepth >= BURST_SIZE => (Spec => []UpsizerNeverStuck)
<1>1. ASSUME DataDepth >= BURST_SIZE, CountsInv PROVE UpsizerNeverStuck
  <2>1. SUFFICES ASSUME NEW v \in Lanes, ~DataRoom(v), upc[v] \in {"flush", "loop"}, NoSize(v),
                        ~InHand(v)
                 PROVE  FALSE
    BY DEF UpsizerNeverStuck, InHand
  <2>2. TypeOK /\ CountInv(v) /\ WriteInv(v)
    BY <1>1 DEF CountsInv, LaneCounts
  <2>3. Sized(v) \in Nat /\ UpTo(v, Sized(v)) \in Nat /\ sizeWrite[v] \in Nat /\ sizesRead[v] = Sized(v)
    BY <2>1, <2>2, LaneTypes, UpToIsNat DEF NoSize, Sized
  <2>4. wordsRead[v] = UpTo(v, Sized(v))
    BY <2>1, <2>2, <2>3 DEF WriteInv
  <2>5. Len(outStreamV[v]) = UpTo(v, Sized(v)) + sizeWrite[v] /\ sizeWrite[v] < BURST_SIZE
    BY <2>1, <2>2 DEF CountInv, Unannounced
  <2>6. BURST_SIZE \in Nat /\ DataDepth \in Nat
    BY LanesAssumption
  <2>7. Len(outStreamV[v]) - wordsRead[v] = sizeWrite[v]
    BY <2>3, <2>4, <2>5
  <2> QED BY <1>1, <2>1, <2>3, <2>5, <2>6, <2>7 DEF DataRoom
<1>2. CASE DataDepth >= BURST_SIZE
  <2>1. CountsInv => UpsizerNeverStuck
    BY <1>1, <1>2
  <2>2. Spec => []UpsizerNeverStuck
    BY <2>1, CountsInvariance, PTL
  <2> QED BY <2>2
<1> QED BY <1>2

-----------------------------------------------------------------------------
(* The bytes and flags of a core, and the totals *)

\* The bytes and flags a core has given, and those its upsizer has taken.
Given(v) == sent[v] + IF cpc[v] = "done" THEN 1 ELSE 0
BytesTaken(v) == Given(v) - Len(inStream[v])
FlagsTaken(v) == Given(v) - Len(inStreamEos[v])

\* The p-th byte of a core and its flag: the block, then one that does not count.
ByteAt(v, p) == IF p <= compressedSize[v] THEN Byte(v, p - 1) ELSE NoByte
FlagAt(v, e, p) == e = (p > compressedSize[v])

SentInv(v) ==
    /\ sent[v] <= compressedSize[v]
    /\ cpc[v] # "bytes" => sent[v] = compressedSize[v]

\* The FIFOs hold what was given and not yet taken, in order.
BytesInv(v) == \A k \in 1..Len(inStream[v]) : inStream[v][k] = ByteAt(v, BytesTaken(v) + k)
FlagsInv(v) == \A k \in 1..Len(inStreamEos[v]) : FlagAt(v, inStreamEos[v][k], FlagsTaken(v) + k)

\* An upsizer is one byte ahead of the flags, and ends when it has taken all.
Ended(v) == upc[v] \in {"flush", "size", "zero", "done"}
TakenInv(v) ==
    /\ upc[v] = "start" => BytesTaken(v) = 0 /\ FlagsTaken(v) = 0
    /\ upc[v] = "loop" => /\ BytesTaken(v) = FlagsTaken(v) + 1
                          /\ FlagsTaken(v) >= 0 /\ FlagsTaken(v) <= compressedSize[v]
                          /\ inValue[v] = ByteAt(v, BytesTaken(v))
    /\ Ended(v) => cpc[v] = "done" /\ inStream[v] = <<>> /\ inStreamEos[v] = <<>>

\* The total of a core waits in its FIFO until the writer has read it.
TotalRead(v) == pc = "done" \/ (pc = "totals" /\ v < i)
TotalInv(v) ==
    /\ totalOutSizeStream[v] = IF cpc[v] # "bytes" /\ ~TotalRead(v) THEN <<compressedSize[v]>> ELSE <<>>
    /\ TotalRead(v) => outSize[v] = compressedSize[v]

LaneStreams(v) == SentInv(v) /\ BytesInv(v) /\ FlagsInv(v) /\ TakenInv(v)
StreamsInv == CountsInv /\ \A v \in Lanes : LaneStreams(v) /\ TotalInv(v)

LEMMA StreamTypes ==
    ASSUME TypeOK, NEW v \in Lanes
    PROVE  /\ compressedSize[v] \in Nat /\ sent[v] \in Nat /\ Given(v) \in Nat
           /\ cpc[v] \in {"bytes", "last", "done"}
           /\ inStream[v] \in Seq(Int) /\ Len(inStream[v]) \in Nat
           /\ inStreamEos[v] \in Seq(Flags) /\ Len(inStreamEos[v]) \in Nat
           /\ BytesTaken(v) \in Int /\ FlagsTaken(v) \in Int
<1>1. compressedSize[v] \in OutSizes /\ sent[v] \in Nat /\ cpc[v] \in {"bytes", "last", "done"}
      /\ inStream[v] \in Seq(Int) /\ inStreamEos[v] \in Seq(Flags)
  BY DEF TypeOK, CallType, CoreType
<1>2. compressedSize[v] \in Nat
  BY <1>1, SizeIsNat
<1>3. Len(inStream[v]) \in Nat /\ Len(inStreamEos[v]) \in Nat
  BY <1>1
<1>4. Given(v) \in Nat
  BY <1>1 DEF Given
<1> QED BY <1>1, <1>2, <1>3, <1>4 DEF BytesTaken, FlagsTaken

\* What is left after the first element.
LEMMA AfterHead ==
    ASSUME NEW S, NEW s \in Seq(S), s # <<>>
    PROVE  /\ Len(s) \in Nat \ {0} /\ Len(Tail(s)) = Len(s) - 1 /\ Head(s) = s[1]
           /\ \A k \in 1..Len(s) - 1 : Tail(s)[k] = s[k + 1]
<1>1. Len(s) \in Nat \ {0}
  BY EmptySeq
<1>2. Tail(s) \in Seq(S) /\ Len(Tail(s)) = Len(s) - 1 /\ \A k \in 1..Len(Tail(s)) : Tail(s)[k] = s[k + 1]
  BY HeadTailProperties
<1>3. Head(s) = s[1]
  OBVIOUS
<1> QED BY <1>1, <1>2, <1>3

\* A stream nobody writes and nobody takes from.
LEMMA StreamsUntouched ==
    ASSUME NEW v \in Lanes, LaneStreams(v), compressedSize' = compressedSize,
           sent'[v] = sent[v], cpc'[v] = cpc[v], inStream'[v] = inStream[v],
           inStreamEos'[v] = inStreamEos[v], inValue'[v] = inValue[v],
           upc'[v] = upc[v] \/ (Ended(v) /\ Ended(v)')
    PROVE  LaneStreams(v)'
<1>1. /\ Given(v)' = Given(v) /\ BytesTaken(v)' = BytesTaken(v) /\ FlagsTaken(v)' = FlagsTaken(v)
  BY DEF Given, BytesTaken, FlagsTaken
<1>2. \A p : ByteAt(v, p)' = ByteAt(v, p)
  BY DEF ByteAt, Byte
<1>3. SentInv(v)'
  BY DEF LaneStreams, SentInv
<1>4. BytesInv(v)'
  <2>1. \A k : ByteAt(v, BytesTaken(v) + k)' = ByteAt(v, BytesTaken(v) + k)
    BY <1>1, <1>2 DEF ByteAt
  <2> QED BY <2>1 DEF LaneStreams, BytesInv
<1>5. FlagsInv(v)'
  <2>1. \A e, k : FlagAt(v, e, FlagsTaken(v) + k) => FlagAt(v, e, FlagsTaken(v) + k)'
    BY <1>1, Zenon DEF FlagAt
  <2>3. \A k \in 1..Len(inStreamEos[v]) : FlagAt(v, inStreamEos[v][k], FlagsTaken(v) + k)'
    <3>1. \A k \in 1..Len(inStreamEos[v]) : FlagAt(v, inStreamEos[v][k], FlagsTaken(v) + k)
      BY DEF LaneStreams, FlagsInv
    <3> QED BY <1>1, <3>1, Zenon DEF FlagAt
  <2> QED BY <2>3, Zenon DEF FlagsInv
<1>6. TakenInv(v)'
  <2>1. ByteAt(v, BytesTaken(v))' = ByteAt(v, BytesTaken(v))
    BY <1>1 DEF ByteAt, Byte
  <2>2. CASE upc'[v] = upc[v]
    BY <1>1, <2>1, <2>2 DEF LaneStreams, TakenInv, Ended
  <2>3. CASE Ended(v) /\ Ended(v)'
    BY <2>3 DEF LaneStreams, TakenInv, Ended
  <2> QED BY <2>2, <2>3
<1> QED BY <1>3, <1>4, <1>5, <1>6 DEF LaneStreams

\* A byte and its flag given: the next of the core, at the end of the FIFOs.
LEMMA StreamsWrite ==
    ASSUME TypeOK, NEW u \in Lanes, LaneStreams(u), compressedSize' = compressedSize,
           NEW p \in Nat, p = Given(u) + 1, NEW x \in Int, x = ByteAt(u, p),
           NEW e \in Flags, FlagAt(u, e, p), Write(u, x, e), Given(u)' = p,
           upc' = upc, inValue' = inValue, cpc[u] # "done", SentInv(u)'
    PROVE  LaneStreams(u)'
<1> DEFINE s == inStream[u]  f == inStreamEos[u]
<1>1. /\ s \in Seq(Int) /\ f \in Seq(Flags) /\ Len(s) \in Nat /\ Len(f) \in Nat /\ Given(u) \in Nat
      /\ BytesTaken(u) \in Int /\ FlagsTaken(u) \in Int
  BY StreamTypes
<1>2. inStream'[u] = Append(s, x) /\ inStreamEos'[u] = Append(f, e)
  BY DEF Write, TypeOK, CoreType
<1>3. /\ Len(inStream'[u]) = Len(s) + 1 /\ inStream'[u][Len(s) + 1] = x
      /\ \A k \in 1..Len(s) : inStream'[u][k] = s[k]
  BY <1>1, <1>2, AppendProperties
<1>4. Len(inStreamEos'[u]) = Len(f) + 1
  BY <1>1, <1>2, AppendProperties
<1>5. inStreamEos'[u][Len(f) + 1] = e /\ \A k \in 1..Len(f) : inStreamEos'[u][k] = f[k]
  BY <1>1, <1>2, AppendProperties
<1>6. BytesTaken(u)' = BytesTaken(u) /\ FlagsTaken(u)' = FlagsTaken(u)
  <2>1. /\ BytesTaken(u)' = p - Len(inStream'[u]) /\ FlagsTaken(u)' = p - Len(inStreamEos'[u])
        /\ BytesTaken(u) = Given(u) - Len(s) /\ FlagsTaken(u) = Given(u) - Len(f)
    BY DEF BytesTaken, FlagsTaken
  <2> HIDE DEF s, f
  <2> QED BY <1>1, <1>3, <1>4, <2>1
<1>7. \A q : ByteAt(u, q)' = ByteAt(u, q) /\ \A y : FlagAt(u, y, q) => FlagAt(u, y, q)'
  BY Zenon DEF ByteAt, FlagAt, Byte
<1>8. PICK b \in Int, g \in Int : b = BytesTaken(u) /\ g = FlagsTaken(u)
  BY <1>1
<1>9. BytesInv(u)'
  <2>1. ASSUME NEW k \in 1..Len(s) + 1 PROVE inStream'[u][k] = ByteAt(u, b + k)
    <3>1. CASE k \in 1..Len(s)
      BY <1>3, <1>8, <3>1 DEF LaneStreams, BytesInv
    <3>2. CASE k = Len(s) + 1
      <4>1. b + k = p
        BY <1>1, <1>8, <3>2 DEF BytesTaken
      <4> QED BY <1>3, <3>2, <4>1
    <3> QED BY <3>1, <3>2, <1>1
  <2>2. \A k : ByteAt(u, BytesTaken(u) + k)' = ByteAt(u, b + k)
    BY <1>6, <1>7, <1>8 DEF ByteAt
  <2> QED BY <1>3, <2>1, <2>2 DEF BytesInv
<1>10. FlagsInv(u)'
  <2>1. ASSUME NEW k \in 1..Len(f) + 1 PROVE FlagAt(u, inStreamEos'[u][k], g + k)
    <3>1. CASE k \in 1..Len(f)
      <4>1. FlagAt(u, f[k], g + k)
        BY <1>8, <3>1 DEF LaneStreams, FlagsInv
      <4> QED BY <1>5, <3>1, <4>1
    <3>2. CASE k = Len(f) + 1
      <4>1. g + k = p
        BY <1>1, <1>8, <3>2 DEF FlagsTaken
      <4> QED BY <1>5, <3>2, <4>1
    <3>3. k \in 1..Len(f) \/ k = Len(f) + 1
      BY <1>1
    <3> QED BY <3>1, <3>2, <3>3
  <2>3. \A k \in 1..Len(f) + 1 : FlagAt(u, inStreamEos[u][k], FlagsTaken(u) + k)'
    <3>1. FlagsTaken(u)' = g
      BY <1>6, <1>8
    <3> QED BY <2>1, <3>1, Zenon DEF FlagAt
  <2> QED BY <1>4, <2>3 DEF FlagsInv
<1>11. TakenInv(u)'
  <2>1. ByteAt(u, BytesTaken(u))' = ByteAt(u, BytesTaken(u))
    BY <1>6 DEF ByteAt, Byte
  <2>2. ~Ended(u) /\ ~Ended(u)'
    BY DEF LaneStreams, TakenInv, Ended
  <2> QED BY <1>6, <2>1, <2>2 DEF LaneStreams, TakenInv
<1> QED BY <1>9, <1>10, <1>11 DEF LaneStreams

\* The steps of a core.
LEMMA StreamsCore ==
    ASSUME StreamsInv, NEW u \in Lanes, Core(u) PROVE LaneStreams(u)' /\ TotalInv(u)'
<1>1. /\ TypeOK /\ LaneStreams(u) /\ TotalInv(u) /\ SentInv(u)
  BY DEF StreamsInv, CountsInv, LaneStreams
<1>2. /\ compressedSize' = compressedSize /\ upc' = upc /\ inValue' = inValue /\ pc' = pc /\ i' = i
      /\ outSize' = outSize
  BY DEF Core, CoreByte, CoreTotal, CoreLast, callVars, upVars, mmVars
<1>3. compressedSize[u] \in Nat /\ sent[u] \in Nat /\ Given(u) \in Nat
  BY <1>1, StreamTypes
<1>4. CoreType
  BY <1>1 DEF TypeOK
<1>5. TotalRead(u)' = TotalRead(u)
  BY <1>2 DEF TotalRead
<1>6. CASE CoreByte(u)
  <2>1. /\ cpc[u] = "bytes" /\ cpc' = cpc /\ sent[u] < compressedSize[u] /\ sent'[u] = sent[u] + 1
        /\ Write(u, Byte(u, sent[u]), FALSE) /\ totalOutSizeStream' = totalOutSizeStream
    BY <1>4, <1>6 DEF CoreByte, CoreType
  <2>2. Given(u) = sent[u] /\ Given(u)' = sent[u] + 1
    BY <1>3, <2>1 DEF Given
  <2>3. SentInv(u)'
    BY <1>2, <1>3, <2>1 DEF SentInv
  <2> DEFINE p == sent[u] + 1
  <2>4. p \in Nat /\ p <= compressedSize[u] /\ p - 1 = sent[u]
    BY <1>3, <2>1
  <2>5. Byte(u, sent[u]) = ByteAt(u, p) /\ FlagAt(u, FALSE, p)
    BY <1>3, <2>4 DEF ByteAt, FlagAt
  <2>6. Byte(u, sent[u]) \in Int /\ FALSE \in Flags
    BY <1>3, BytesAreInt DEF Flags
  <2> HIDE DEF p
  <2>7. p = Given(u) + 1 /\ Given(u)' = p
    BY <2>2 DEF p
  <2>8. LaneStreams(u)'
    BY <1>1, <1>2, <2>1, <2>3, <2>4, <2>5, <2>6, <2>7, StreamsWrite
  <2>9. TotalInv(u)'
    BY <1>1, <1>2, <1>5, <2>1 DEF TotalInv
  <2> QED BY <2>8, <2>9
<1>7. CASE CoreLast(u)
  <2>1. /\ cpc[u] = "last" /\ cpc'[u] = "done" /\ sent' = sent
        /\ Write(u, NoByte, TRUE) /\ totalOutSizeStream' = totalOutSizeStream
    BY <1>4, <1>7 DEF CoreLast, CoreType
  <2>2. sent[u] = compressedSize[u] /\ Given(u) = sent[u] /\ Given(u)' = sent[u] + 1
    BY <1>1, <1>3, <2>1 DEF Given, SentInv
  <2>3. SentInv(u)'
    BY <1>2, <1>3, <2>1, <2>2 DEF SentInv
  <2> DEFINE p == sent[u] + 1
  <2>4. p \in Nat /\ p > compressedSize[u] /\ ~(p <= compressedSize[u])
    BY <1>3, <2>2
  <2>5. NoByte = ByteAt(u, p) /\ FlagAt(u, TRUE, p)
    BY <2>4 DEF ByteAt, FlagAt
  <2>6. NoByte \in Int /\ TRUE \in Flags
    BY BytesAreInt DEF Flags
  <2> HIDE DEF p
  <2>7. p = Given(u) + 1 /\ Given(u)' = p
    BY <2>2 DEF p
  <2>8. LaneStreams(u)'
    BY <1>1, <1>2, <2>1, <2>3, <2>4, <2>5, <2>6, <2>7, StreamsWrite
  <2>9. TotalInv(u)'
    BY <1>1, <1>2, <1>5, <2>1 DEF TotalInv
  <2> QED BY <2>8, <2>9
<1>8. CASE CoreTotal(u)
  <2>1. /\ cpc[u] = "bytes" /\ cpc'[u] = "last" /\ sent' = sent /\ sent[u] = compressedSize[u]
        /\ UNCHANGED coreFifos
        /\ totalOutSizeStream'[u] = Append(totalOutSizeStream[u], sent[u])
    BY <1>4, <1>8 DEF CoreTotal, CoreType
  <2>2. Given(u)' = Given(u) /\ BytesTaken(u)' = BytesTaken(u) /\ FlagsTaken(u)' = FlagsTaken(u)
    BY <1>3, <2>1 DEF Given, BytesTaken, FlagsTaken, coreFifos
  <2>3. SentInv(u)'
    BY <1>2, <1>3, <2>1 DEF SentInv
  <2>4. BytesInv(u)'
    <3>1. \A k : ByteAt(u, BytesTaken(u) + k)' = ByteAt(u, BytesTaken(u) + k)
      BY <1>2, <2>2 DEF ByteAt, Byte
    <3> QED BY <1>1, <2>1, <3>1 DEF LaneStreams, BytesInv, coreFifos
  <2>5. FlagsInv(u)'
    <3>1. \A k \in 1..Len(inStreamEos[u]) : FlagAt(u, inStreamEos[u][k], FlagsTaken(u) + k)
      BY <1>1 DEF LaneStreams, FlagsInv
    <3>2. inStreamEos' = inStreamEos
      BY <2>1 DEF coreFifos
    <3> QED BY <1>2, <2>2, <3>1, <3>2, Zenon DEF FlagAt, FlagsInv
  <2>6. TakenInv(u)'
    <3>1. ByteAt(u, BytesTaken(u))' = ByteAt(u, BytesTaken(u))
      BY <1>2, <2>2 DEF ByteAt, Byte
    <3>2. ~Ended(u) /\ ~Ended(u)'
      BY <1>1, <1>2, <2>1 DEF LaneStreams, TakenInv, Ended
    <3> QED BY <1>1, <1>2, <2>2, <3>1, <3>2 DEF LaneStreams, TakenInv
  <2>7. ~TotalRead(u)
    <3>1. upc[u] # "done"
      BY <1>1, <2>1 DEF LaneStreams, TakenInv, Ended
    <3>2. pc \notin {"totals", "done"}
      BY <3>1, FifosRead DEF StreamsInv
    <3> QED BY <3>2 DEF TotalRead
  <2>8. totalOutSizeStream'[u] = <<compressedSize[u]>>
    <3>1. totalOutSizeStream[u] = <<>>
      BY <1>1, <2>1 DEF TotalInv
    <3>2. Append(<<>>, sent[u]) = <<sent[u]>>
      BY <1>3
    <3> QED BY <2>1, <3>1, <3>2
  <2>9. TotalInv(u)'
    BY <1>2, <1>5, <2>1, <2>7, <2>8 DEF TotalInv
  <2> QED BY <2>3, <2>4, <2>5, <2>6, <2>9 DEF LaneStreams
<1> QED BY <1>6, <1>7, <1>8 DEF Core

\* A byte taken is the next of the core, and so is a flag.
LEMMA ByteTaken ==
    ASSUME TypeOK, NEW u \in Lanes, BytesInv(u), inStream[u] # <<>>, Take(inStream, u),
           compressedSize' = compressedSize, sent' = sent, cpc' = cpc
    PROVE  /\ BytesTaken(u)' = BytesTaken(u) + 1 /\ BytesInv(u)'
           /\ Head(inStream[u]) = ByteAt(u, BytesTaken(u) + 1)
           /\ BytesTaken(u) + 1 <= Given(u)
<1> DEFINE s == inStream[u]
<1>1. s \in Seq(Int) /\ Given(u) \in Nat /\ BytesTaken(u) = Given(u) - Len(s) /\ s # <<>>
  BY StreamTypes DEF BytesTaken
<1>2. inStream'[u] = Tail(s) /\ Given(u)' = Given(u)
  BY DEF Take, TypeOK, CoreType, Given
<1>3. /\ Len(s) \in Nat \ {0} /\ Len(Tail(s)) = Len(s) - 1 /\ Head(s) = s[1]
      /\ \A k \in 1..Len(s) - 1 : Tail(s)[k] = s[k + 1]
  <2> HIDE DEF s
  <2> QED BY <1>1, AfterHead
<1>4. \A k \in 1..Len(s) : s[k] = ByteAt(u, BytesTaken(u) + k)
  BY DEF BytesInv
<1>5. BytesTaken(u)' = Given(u) - Len(Tail(s))
  BY <1>2 DEF BytesTaken
<1> HIDE DEF s
<1>6. PICK b \in Int : b = BytesTaken(u)
  BY <1>1, <1>3
<1>7. BytesTaken(u)' = b + 1
  BY <1>1, <1>3, <1>5, <1>6
<1>8. \A k \in 1..Len(s) - 1 : Tail(s)[k] = ByteAt(u, b + 1 + k)
  <2>1. ASSUME NEW k \in 1..Len(s) - 1 PROVE Tail(s)[k] = ByteAt(u, b + 1 + k)
    <3>1. k + 1 \in 1..Len(s) /\ b + (k + 1) = b + 1 + k
      BY <1>3, <1>6
    <3> QED BY <1>3, <1>4, <1>6, <3>1
  <2> QED BY <2>1
<1>9. BytesInv(u)'
  <2>1. \A k : ByteAt(u, BytesTaken(u) + k)' = ByteAt(u, b + 1 + k)
    BY <1>7 DEF ByteAt, Byte
  <2> QED BY <1>2, <1>3, <1>8, <2>1 DEF BytesInv
<1>10. Head(s) = ByteAt(u, b + 1) /\ b + 1 <= Given(u)
  BY <1>1, <1>3, <1>4, <1>6
<1> QED BY <1>6, <1>7, <1>9, <1>10 DEF s

LEMMA FlagTaken ==
    ASSUME TypeOK, NEW u \in Lanes, FlagsInv(u), inStreamEos[u] # <<>>, Take(inStreamEos, u),
           compressedSize' = compressedSize, sent' = sent, cpc' = cpc
    PROVE  /\ FlagsTaken(u)' = FlagsTaken(u) + 1 /\ FlagsInv(u)'
           /\ FlagAt(u, Head(inStreamEos[u]), FlagsTaken(u) + 1)
           /\ FlagsTaken(u) + 1 <= Given(u)
           /\ (FlagsTaken(u) + 1 = Given(u) => inStreamEos'[u] = <<>>)
<1> DEFINE s == inStreamEos[u]
<1>1. s \in Seq(Flags) /\ Given(u) \in Nat /\ FlagsTaken(u) = Given(u) - Len(s) /\ s # <<>>
  BY StreamTypes DEF FlagsTaken
<1>2. inStreamEos'[u] = Tail(s) /\ Given(u)' = Given(u)
  BY DEF Take, TypeOK, CoreType, Given
<1>3. /\ Len(s) \in Nat \ {0} /\ Len(Tail(s)) = Len(s) - 1 /\ Head(s) = s[1]
      /\ \A k \in 1..Len(s) - 1 : Tail(s)[k] = s[k + 1]
  <2> HIDE DEF s
  <2> QED BY <1>1, AfterHead
<1>4. \A k \in 1..Len(s) : FlagAt(u, s[k], FlagsTaken(u) + k)
  BY DEF FlagsInv
<1>5. FlagsTaken(u)' = Given(u) - Len(Tail(s))
  BY <1>2 DEF FlagsTaken
<1> HIDE DEF s
<1>6. PICK b \in Int : b = FlagsTaken(u)
  BY <1>1, <1>3
<1>7. FlagsTaken(u)' = b + 1
  BY <1>1, <1>3, <1>5, <1>6
<1>8. \A k \in 1..Len(s) - 1 : FlagAt(u, Tail(s)[k], b + 1 + k)
  <2>1. ASSUME NEW k \in 1..Len(s) - 1 PROVE FlagAt(u, Tail(s)[k], b + 1 + k)
    <3>1. k + 1 \in 1..Len(s) /\ b + (k + 1) = b + 1 + k
      BY <1>3, <1>6
    <3> QED BY <1>3, <1>4, <1>6, <3>1
  <2> QED BY <2>1
<1>9. FlagsInv(u)'
  <2>1. \A k \in 1..Len(Tail(s)) : FlagAt(u, inStreamEos[u][k], FlagsTaken(u) + k)'
    <3>1. \A k \in 1..Len(Tail(s)) : FlagAt(u, Tail(s)[k], b + 1 + k)
      BY <1>3, <1>8
    <3> QED BY <1>2, <1>7, <3>1, Zenon DEF FlagAt
  <2>2. Len(inStreamEos'[u]) = Len(Tail(s))
    BY <1>2
  <2> QED BY <2>1, <2>2, Zenon DEF FlagsInv
<1>10. FlagAt(u, Head(s), b + 1) /\ b + 1 <= Given(u)
  BY <1>1, <1>3, <1>4, <1>6
<1>11. b + 1 = Given(u) => inStreamEos'[u] = <<>>
  <2>1. SUFFICES ASSUME b + 1 = Given(u) PROVE Tail(s) = <<>>
    BY <1>2
  <2>2. Len(Tail(s)) = 0
    BY <1>1, <1>3, <1>6, <2>1
  <2>3. Tail(s) \in Seq(Flags)
    BY <1>1, HeadTailProperties
  <2> QED BY <2>2, <2>3, EmptySeq
<1> QED BY <1>6, <1>7, <1>9, <1>10, <1>11 DEF s

\* The steps of an upsizer that take a byte or a flag.
LEMMA StreamsFirstByte ==
    ASSUME TypeOK, NEW u \in Lanes, LaneStreams(u), FirstByte(u) PROVE LaneStreams(u)'
<1>1. /\ upc[u] = "start" /\ upc'[u] = "loop" /\ inStream[u] # <<>> /\ Take(inStream, u)
      /\ inValue'[u] = Head(inStream[u])
      /\ UNCHANGED <<inStreamEos, compressedSize, sent, cpc>>
  BY DEF FirstByte, TypeOK, UpType, callVars, coreVars
<1>2. SentInv(u) /\ BytesInv(u) /\ FlagsInv(u) /\ BytesTaken(u) = 0 /\ FlagsTaken(u) = 0
  BY <1>1 DEF LaneStreams, TakenInv
<1>3. /\ BytesTaken(u)' = 1 /\ BytesInv(u)' /\ inValue'[u] = ByteAt(u, 1)
  BY <1>1, <1>2, ByteTaken
<1>4. FlagsTaken(u)' = 0
  BY <1>1, <1>2 DEF FlagsTaken, Given
<1>5. FlagsInv(u)'
  <2>1. \A k \in 1..Len(inStreamEos[u]) : FlagAt(u, inStreamEos[u][k], FlagsTaken(u) + k)
    BY <1>2 DEF FlagsInv
  <2> QED BY <1>1, <1>2, <1>4, <2>1, Zenon DEF FlagsInv, FlagAt
<1>6. TakenInv(u)'
  <2>1. ByteAt(u, BytesTaken(u))' = ByteAt(u, 1)
    BY <1>1, <1>3 DEF ByteAt, Byte
  <2>2. compressedSize'[u] \in Nat
    BY <1>1, StreamTypes
  <2> QED BY <1>1, <1>3, <1>4, <2>1, <2>2 DEF TakenInv, Ended
<1>7. SentInv(u)'
  BY <1>1, <1>2 DEF SentInv
<1> QED BY <1>3, <1>5, <1>6, <1>7 DEF LaneStreams

LEMMA StreamsUpsize ==
    ASSUME TypeOK, NEW u \in Lanes, LaneStreams(u), Upsize(u)
    PROVE  LaneStreams(u)' /\ FlagsTaken(u)' = FlagsTaken(u) + 1
<1>1. /\ upc[u] = "loop" /\ upc'[u] = "loop" /\ inStream[u] # <<>> /\ Take(inStream, u)
      /\ inStreamEos[u] # <<>> /\ Take(inStreamEos, u)
      /\ inValue'[u] = Head(inStream[u])
      /\ UNCHANGED <<compressedSize, sent, cpc>>
  BY DEF Upsize, TypeOK, UpType, callVars, coreVars
<1>2. /\ SentInv(u) /\ BytesInv(u) /\ FlagsInv(u) /\ BytesTaken(u) = FlagsTaken(u) + 1
      /\ FlagsTaken(u) \in Nat /\ compressedSize[u] \in Nat
  BY <1>1, StreamTypes DEF LaneStreams, TakenInv
<1>3. /\ BytesTaken(u)' = BytesTaken(u) + 1 /\ BytesInv(u)' /\ inValue'[u] = ByteAt(u, BytesTaken(u) + 1)
  BY <1>1, <1>2, ByteTaken
<1>4. /\ FlagsTaken(u)' = FlagsTaken(u) + 1 /\ FlagsInv(u)'
      /\ FlagAt(u, Head(inStreamEos[u]), FlagsTaken(u) + 1)
  BY <1>1, <1>2, FlagTaken
<1>5. ~(FlagsTaken(u) + 1 > compressedSize[u])
  BY <1>4, Zenon DEF FlagAt, Upsize
<1>6. TakenInv(u)'
  <2>1. ByteAt(u, BytesTaken(u))' = ByteAt(u, BytesTaken(u) + 1)
    BY <1>1, <1>3 DEF ByteAt, Byte
  <2>2. FlagsTaken(u) + 1 <= compressedSize[u] /\ FlagsTaken(u) + 1 >= 0
    BY <1>2, <1>5
  <2> QED BY <1>1, <1>2, <1>3, <1>4, <2>1, <2>2 DEF TakenInv, Ended
<1>7. SentInv(u)'
  BY <1>1, <1>2 DEF SentInv
<1> QED BY <1>3, <1>4, <1>6, <1>7 DEF LaneStreams

LEMMA StreamsEndOfStream ==
    ASSUME TypeOK, NEW u \in Lanes, LaneStreams(u), EndOfStream(u)
    PROVE  LaneStreams(u)' /\ FlagsTaken(u) = compressedSize[u]
<1>1. /\ upc[u] = "loop" /\ upc'[u] \in {"flush", "zero"} /\ inStreamEos[u] # <<>> /\ Take(inStreamEos, u)
      /\ UNCHANGED <<inStream, compressedSize, sent, cpc>>
  BY DEF EndOfStream, TypeOK, UpType, callVars, coreVars
<1>2. /\ SentInv(u) /\ BytesInv(u) /\ FlagsInv(u) /\ BytesTaken(u) = FlagsTaken(u) + 1
      /\ FlagsTaken(u) \in Nat /\ compressedSize[u] \in Nat /\ FlagsTaken(u) <= compressedSize[u]
  BY <1>1, StreamTypes DEF LaneStreams, TakenInv
<1>3. /\ FlagsInv(u)' /\ FlagAt(u, Head(inStreamEos[u]), FlagsTaken(u) + 1)
      /\ FlagsTaken(u) + 1 <= Given(u)
      /\ (FlagsTaken(u) + 1 = Given(u) => inStreamEos'[u] = <<>>)
  BY <1>1, <1>2, FlagTaken
<1>4. FlagsTaken(u) + 1 > compressedSize[u]
  BY <1>3, Zenon DEF FlagAt, EndOfStream
<1>5. FlagsTaken(u) = compressedSize[u]
  BY <1>2, <1>4
<1>6. cpc[u] = "done" /\ Given(u) = compressedSize[u] + 1
  <2>1. sent[u] \in Nat /\ sent[u] <= compressedSize[u]
    BY <1>2, StreamTypes DEF SentInv
  <2> QED BY <1>2, <1>3, <1>4, <2>1 DEF Given
<1>7. inStream[u] = <<>>
  <2>1. inStream[u] \in Seq(Int) /\ Len(inStream[u]) \in Nat
    BY StreamTypes
  <2>2. Len(inStream[u]) = 0
    BY <1>2, <1>5, <1>6, <2>1 DEF BytesTaken
  <2> QED BY <2>1, <2>2, EmptySeq
<1>8. TakenInv(u)'
  BY <1>1, <1>3, <1>5, <1>6, <1>7 DEF TakenInv, Ended
<1>9. BytesInv(u)'
  <2>1. Len(inStream'[u]) = 0
    BY <1>1, <1>7
  <2> QED BY <2>1 DEF BytesInv
<1>10. SentInv(u)'
  BY <1>1, <1>2 DEF SentInv
<1> QED BY <1>3, <1>5, <1>8, <1>9, <1>10 DEF LaneStreams

LEMMA StreamsUpsizer ==
    ASSUME StreamsInv, NEW u \in Lanes, stream2mmUpsizer(u) PROVE \A v \in Lanes : LaneStreams(v)' /\ TotalInv(v)'
<1>1. TypeOK /\ \A v \in Lanes : LaneStreams(v) /\ TotalInv(v)
  BY DEF StreamsInv, CountsInv
<1>2. /\ UNCHANGED <<compressedSize, sent, cpc, totalOutSizeStream, pc, i, outSize>>
  BY DEF stream2mmUpsizer, FirstByte, Upsize, EndOfStream, Flush, LastSize, ZeroSize,
         callVars, coreVars, mmVars
<1>3. \A v \in Lanes : TotalInv(v)'
  BY <1>1, <1>2 DEF TotalInv, TotalRead
<1>4. ASSUME NEW v \in Lanes, v # u PROVE LaneStreams(v)'
  BY <1>1, <1>2, <1>4, UpsizerElsewhere, StreamsUntouched
<1>5. ASSUME Flush(u) \/ LastSize(u) \/ ZeroSize(u) PROVE LaneStreams(u)'
  <2>1. UNCHANGED <<inStream, inStreamEos, inValue>>
    BY <1>5 DEF Flush, LastSize, ZeroSize, coreFifos
  <2>2. Ended(u) /\ Ended(u)'
    BY <1>1, <1>5 DEF Flush, LastSize, ZeroSize, Ended, TypeOK, UpType
  <2> QED BY <1>1, <1>2, <2>1, <2>2, StreamsUntouched
<1>6. LaneStreams(u)'
  BY <1>1, <1>5, StreamsFirstByte, StreamsUpsize, StreamsEndOfStream DEF stream2mmUpsizer
<1> QED BY <1>3, <1>4, <1>6

\* What a core does leaves the other lanes alone.
LEMMA CoreElsewhere ==
    ASSUME TypeOK, NEW u \in Lanes, Core(u), NEW v \in Lanes, v # u
    PROVE  /\ sent'[v] = sent[v] /\ cpc'[v] = cpc[v] /\ inStream'[v] = inStream[v]
           /\ inStreamEos'[v] = inStreamEos[v] /\ totalOutSizeStream'[v] = totalOutSizeStream[v]
<1>1. CoreType
  BY DEF TypeOK
<1>2. ASSUME NEW x, NEW e, Write(u, x, e) PROVE inStream'[v] = inStream[v] /\ inStreamEos'[v] = inStreamEos[v]
  BY <1>1, <1>2 DEF Write, CoreType
<1>3. CASE CoreByte(u)
  BY <1>1, <1>2, <1>3 DEF CoreByte, CoreType
<1>4. CASE CoreTotal(u)
  BY <1>1, <1>4 DEF CoreTotal, CoreType, coreFifos
<1>5. CASE CoreLast(u)
  BY <1>1, <1>2, <1>5 DEF CoreLast, CoreType
<1> QED BY <1>3, <1>4, <1>5 DEF Core

LEMMA StreamsCores ==
    ASSUME StreamsInv, NEW u \in Lanes, Core(u) PROVE \A v \in Lanes : LaneStreams(v)' /\ TotalInv(v)'
<1>1. TypeOK /\ \A v \in Lanes : LaneStreams(v) /\ TotalInv(v)
  BY DEF StreamsInv, CountsInv
<1>2. /\ UNCHANGED <<compressedSize, pc, i, outSize, upc, inValue>>
  BY DEF Core, CoreByte, CoreTotal, CoreLast, callVars, upVars, mmVars
<1>3. ASSUME NEW v \in Lanes, v # u PROVE LaneStreams(v)' /\ TotalInv(v)'
  <2>1. LaneStreams(v)'
    BY <1>1, <1>2, <1>3, CoreElsewhere, StreamsUntouched
  <2>2. TotalInv(v)'
    BY <1>1, <1>2, <1>3, CoreElsewhere DEF TotalInv, TotalRead
  <2> QED BY <2>1, <2>2
<1> QED BY <1>3, StreamsCore

\* The writer reads the totals when all lanes are done, one after the other.
LEMMA StreamsWriter ==
    ASSUME StreamsInv, multStream2mmSize PROVE \A v \in Lanes : LaneStreams(v)' /\ TotalInv(v)'
<1>1. CountsInv /\ TypeOK /\ \A v \in Lanes : LaneStreams(v) /\ TotalInv(v)
  BY DEF StreamsInv, CountsInv
<1>2. UNCHANGED <<compressedSize, sent, cpc, inStream, inStreamEos, upc, inValue>>
  BY DEF multStream2mmSize, Skip, ReadSize, GmemWrite, BurstWritten, ReadTotal,
         callVars, coreVars, coreFifos, upVars
<1>3. \A v \in Lanes : LaneStreams(v)'
  BY <1>1, <1>2, StreamsUntouched
<1>4. ASSUME NEW v \in Lanes, ~TotalRead(v), ~TotalRead(v)', totalOutSizeStream'[v] = totalOutSizeStream[v]
      PROVE  TotalInv(v)'
  BY <1>1, <1>2, <1>4 DEF TotalInv
<1>5. ASSUME NEW v \in Lanes, Skip \/ ReadSize \/ GmemWrite \/ BurstWritten PROVE TotalInv(v)'
  <2>1. ~TotalRead(v) /\ totalOutSizeStream' = totalOutSizeStream
    BY <1>5 DEF TotalRead, Skip, ReadSize, GmemWrite, BurstWritten
  <2>2. ~TotalRead(v)'
    <3>1. \/ pc' = "write"
          \/ \E pending : Advance(pending)
      BY <1>5 DEF Skip, ReadSize, GmemWrite, BurstWritten
    <3>2. pc' \in {"poll", "write", "totals"} /\ (pc' = "totals" => i' = 0)
      BY <1>1, <3>1, AdvanceType
    <3>3. v \in 0..NUM_BLOCK - 1
      BY DEF Lanes
    <3>4. ~(v < 0)
      BY <3>3, LanesAssumption
    <3> QED BY <3>2, <3>4 DEF TotalRead
  <2> QED BY <1>4, <2>1, <2>2
<1>6. ASSUME NEW v \in Lanes, ReadTotal PROVE TotalInv(v)'
  <2>1. /\ pc = "totals" /\ totalOutSizeStream[i] # <<>>
        /\ totalOutSizeStream' = [totalOutSizeStream EXCEPT ![i] = Tail(@)]
        /\ outSize' = [outSize EXCEPT ![i] = Head(totalOutSizeStream[i])]
        /\ IF i < NUM_BLOCK - 1 THEN i' = i + 1 /\ pc' = pc ELSE i' = i /\ pc' = "done"
    BY <1>6 DEF ReadTotal, Take
  <2>2. /\ i \in 0..NUM_BLOCK - 1 /\ v \in 0..NUM_BLOCK - 1 /\ NUM_BLOCK \in Nat /\ i \in Lanes
    BY <1>1, LanesAssumption DEF TypeOK, MmType, Lanes
  <2>3. totalOutSizeStream \in [Lanes -> Seq(Nat)] /\ outSize \in [Lanes -> Nat]
    BY <1>1 DEF TypeOK, CoreType, OutType
  <2>4. TotalRead(v)' <=> v < i + 1
    BY <2>1, <2>2 DEF TotalRead
  <2>5. TotalRead(v) <=> v < i
    BY <2>1, <2>2 DEF TotalRead
  <2>6. CASE v = i
    <3>1. ~TotalRead(v) /\ TotalRead(v)'
      BY <2>2, <2>4, <2>5, <2>6
    <3>2. totalOutSizeStream[v] = <<compressedSize[v]>>
      BY <1>1, <2>1, <2>6 DEF TotalInv
    <3>3. totalOutSizeStream'[v] = <<>> /\ outSize'[v] = compressedSize[v]
      <4>1. Tail(<<compressedSize[v]>>) = <<>> /\ Head(<<compressedSize[v]>>) = compressedSize[v]
        OBVIOUS
      <4> QED BY <2>1, <2>3, <2>6, <3>2, <4>1
    <3> QED BY <1>2, <3>1, <3>3 DEF TotalInv
  <2>7. CASE v # i
    <3>1. TotalRead(v)' <=> TotalRead(v)
      BY <2>2, <2>4, <2>5, <2>7
    <3>2. totalOutSizeStream'[v] = totalOutSizeStream[v] /\ outSize'[v] = outSize[v]
      BY <2>1, <2>3, <2>7
    <3> QED BY <1>1, <1>2, <3>1, <3>2 DEF TotalInv
  <2> QED BY <2>6, <2>7
<1> QED BY <1>3, <1>5, <1>6 DEF multStream2mmSize

\* When a call has returned, nothing is left of it.
LEMMA NothingLeft ==
    ASSUME StreamsInv, Returned, NEW v \in Lanes
    PROVE  /\ outSize[v] = compressedSize[v]
           /\ wordsRead[v] = Len(outStreamV[v]) /\ NoSize(v)
           /\ inStream[v] = <<>> /\ inStreamEos[v] = <<>> /\ totalOutSizeStream[v] = <<>>
<1>1. CountsInv /\ LaneStreams(v) /\ TotalInv(v) /\ pc = "done"
  BY DEF StreamsInv, Returned
<1>2. upc[v] = "done" /\ wordsRead[v] = Len(outStreamV[v]) /\ NoSize(v)
  BY <1>1, FifosRead DEF NoSize
<1>3. inStream[v] = <<>> /\ inStreamEos[v] = <<>>
  BY <1>1, <1>2 DEF LaneStreams, TakenInv, Ended
<1> QED BY <1>1, <1>2, <1>3 DEF TotalInv, TotalRead

\* Nothing has been given yet: the start of a call.
StreamStart(v) ==
    /\ cpc[v] = "bytes" /\ sent[v] = 0 /\ inStream[v] = <<>> /\ inStreamEos[v] = <<>>
    /\ totalOutSizeStream[v] = <<>> /\ upc[v] = "start" /\ pc = "poll"

LEMMA StreamsStart == TypeOK => \A v \in Lanes : StreamStart(v) => LaneStreams(v) /\ TotalInv(v)
<1> SUFFICES ASSUME TypeOK, NEW v \in Lanes, StreamStart(v) PROVE LaneStreams(v) /\ TotalInv(v)
  OBVIOUS
<1> USE DEF StreamStart
<1>1. Len(inStream[v]) = 0 /\ Len(inStreamEos[v]) = 0 /\ compressedSize[v] \in Nat /\ Given(v) = 0
  BY StreamTypes DEF Given
<1>2. SentInv(v)
  BY <1>1 DEF SentInv
<1>3. BytesInv(v) /\ FlagsInv(v)
  BY <1>1 DEF BytesInv, FlagsInv
<1>4. TakenInv(v)
  <2>1. \A n, m : n = 0 /\ m = 0 => n - m = 0
    OBVIOUS
  <2>2. BytesTaken(v) = 0 /\ FlagsTaken(v) = 0
    BY <1>1, <2>1, Zenon DEF BytesTaken, FlagsTaken
  <2> QED BY <2>2 DEF TakenInv, Ended
<1>5. TotalInv(v)
  BY DEF TotalInv, TotalRead
<1> QED BY <1>2, <1>3, <1>4, <1>5 DEF LaneStreams

LEMMA StreamsNextCall ==
    ASSUME StreamsInv, NextCall PROVE \A v \in Lanes : LaneStreams(v)' /\ TotalInv(v)'
<1>1. TypeOK'
  BY TypeNextCall DEF StreamsInv, CountsInv
<1>2. ASSUME NEW v \in Lanes PROVE StreamStart(v)'
  <2>1. inStream[v] = <<>> /\ inStreamEos[v] = <<>> /\ totalOutSizeStream[v] = <<>>
    BY NothingLeft DEF NextCall
  <2> QED BY <2>1 DEF NextCall, PerLane, coreFifos, StreamStart
<1>3. (TypeOK => \A v \in Lanes : StreamStart(v) => LaneStreams(v) /\ TotalInv(v))'
  BY StreamsStart, PTL
<1> QED BY <1>1, <1>2, <1>3

LEMMA StreamsInit == Init => StreamsInv
<1> SUFFICES ASSUME Init PROVE StreamsInv
  OBVIOUS
<1>1. \A v \in Lanes : StreamStart(v)
  BY DEF Init, PerLane, StreamStart
<1>2. CountsInv /\ TypeOK
  BY CountsInit DEF CountsInv
<1> QED BY <1>1, <1>2, StreamsStart DEF StreamsInv

LEMMA StreamsNext == StreamsInv /\ [Next]_vars => StreamsInv'
<1> SUFFICES ASSUME StreamsInv, [Next]_vars PROVE \A v \in Lanes : LaneStreams(v)' /\ TotalInv(v)'
  BY CountsNext DEF StreamsInv
<1>1. CASE UNCHANGED vars
  <2>1. ASSUME NEW v \in Lanes PROVE LaneStreams(v)'
    BY <1>1, StreamsUntouched DEF StreamsInv, vars, callVars, coreVars, coreFifos, upVars
  <2>2. ASSUME NEW v \in Lanes PROVE TotalInv(v)'
    BY <1>1 DEF StreamsInv, vars, callVars, coreVars, mmVars, TotalInv, TotalRead
  <2> QED BY <2>1, <2>2
<1> QED BY <1>1, StreamsWriter, StreamsUpsizer, StreamsCores, StreamsNextCall DEF Next

\* Bytes, flags and totals of a core are where the invariant says.
THEOREM StreamsInvariance == Spec => []StreamsInv
BY StreamsInit, StreamsNext, PTL DEF Spec

\* A call returns the size of every lane's block in its own place, whatever the
\* lanes, sizes and depths, and leaves no byte, flag, word, size or total in a
\* FIFO: the next call does not take it for its own.
THEOREM NothingIsLeft == Spec => []NothingLeftBehind
<1>1. ASSUME StreamsInv, Returned PROVE outSize = compressedSize
  <2>1. outSize \in [Lanes -> Nat] /\ compressedSize \in [Lanes -> OutSizes]
    BY <1>1 DEF StreamsInv, CountsInv, TypeOK, OutType, CallType
  <2>2. \A v \in Lanes : outSize[v] = compressedSize[v]
    BY <1>1, NothingLeft
  <2> QED BY <2>1, <2>2
<1>2. StreamsInv => NothingLeftBehind
  BY <1>1, NothingLeft DEF NothingLeftBehind
<1> QED BY <1>2, StreamsInvariance, PTL

-----------------------------------------------------------------------------
(* The bytes themselves: from the core into words and into memory *)

\* Until the last word is passed on, the words and the buffer hold the bytes
\* whose flags have been taken; then the words are those of the block.
Packing(v) == upc[v] \in {"start", "loop", "flush"}
Packed(v) == WordSize * Len(outStreamV[v])
BufferInv(v) ==
    /\ upc[v] \in {"start", "loop"} => Packed(v) + byteIdx[v] = FlagsTaken(v)
    /\ upc[v] = "flush" => Packed(v) + byteIdx[v] = compressedSize[v] /\ byteIdx[v] > 0
    /\ Packing(v) => \A b \in 0..byteIdx[v] - 1 : outBuffer[v][b] = Byte(v, Packed(v) + b)
    /\ ~Packing(v) => Len(outStreamV[v]) = Words(compressedSize[v])

\* Each word holds the bytes of its place in the block.
WordsInv(v) ==
    \A k \in 1..Len(outStreamV[v]) : \A b \in 0..WordSize - 1 :
        WordSize * (k - 1) + b < compressedSize[v] =>
            outStreamV[v][k][b] = Byte(v, WordSize * (k - 1) + b)

\* The words read are in memory, in the space of their lane.
OutInv(v) == \A a \in 0..wordsRead[v] - 1 : out[Base(v) + a] = outStreamV[v][a + 1]

DataInv == StreamsInv /\ \A v \in Lanes : BufferInv(v) /\ WordsInv(v) /\ OutInv(v)

\* The words of some bytes hold them, and one word less would not.
LEMMA WordsHold ==
    ASSUME NEW c \in Nat
    PROVE  /\ Words(c) \in Nat
           /\ c <= WordSize * Words(c) /\ WordSize * Words(c) < c + WordSize
           /\ WordSize * Words(c) \in Nat
<1> DEFINE W == WordSize  a == c + W - 1  q == a \div W  r == a % W
<1>1. W \in Nat \ {0} /\ a \in Nat
  BY LanesAssumption
<1>2. q \in Nat /\ r \in 0..W - 1 /\ a = W * q + r
  BY <1>1
<1>3. W * q \in Nat
  BY <1>1, <1>2, ProductIsNat
<1>4. Words(c) = q
  BY DEF Words
<1>5. a = c + W - 1
  OBVIOUS
<1> HIDE DEF q, r, a
<1>6. c <= W * q /\ W * q < c + W
  BY <1>1, <1>2, <1>3, <1>5
<1> QED BY <1>2, <1>3, <1>4, <1>6

\* Full words and one that is not empty.
LEMMA WordsPart ==
    ASSUME NEW n \in Nat, NEW b \in 1..WordSize
    PROVE  Words(WordSize * n + b) = n + 1
<1> DEFINE W == WordSize  c == W * n + b  q == Words(c)
<1>1. W \in Nat \ {0} /\ W * n \in Nat
  BY LanesAssumption, ProductIsNat
<1>2. c \in Nat /\ b \in Nat /\ b >= 1 /\ b <= W
  BY <1>1
<1>3. q \in Nat /\ c <= W * q /\ W * q < c + W
  BY <1>2, WordsHold
<1>4. W * (q - n) >= b /\ W * (q - n) < b + W /\ W * (q - n) = W * q - W * n
  <2>1. W * (q - n) = W * q - W * n /\ W * q \in Nat
    BY <1>1, <1>3, SMT
  <2> HIDE DEF q
  <2> QED BY <1>1, <1>2, <1>3, <2>1
<1> HIDE DEF q, c, W
<1>5. ASSUME q - n <= 0 PROVE FALSE
  <2>1. W * (q - n) <= 0
    BY <1>1, <1>3, <1>5, SMT
  <2> QED BY <1>2, <1>4, <2>1, <1>1, <1>3
<1>6. ASSUME q - n >= 2 PROVE FALSE
  <2>1. W * (q - n) >= W + W
    BY <1>1, <1>3, <1>6, SMT
  <2> QED BY <1>2, <1>4, <2>1, <1>1, <1>3
<1>7. q = n + 1
  BY <1>3, <1>5, <1>6
<1> QED BY <1>7 DEF q, c, W

\* Words are placed after one another: a word of the k-th place is before
\* another place's bytes.
LEMMA MoreWords ==
    ASSUME NEW a \in Nat, NEW c \in Nat, a < c
    PROVE  WordSize * a + WordSize <= WordSize * c
<1> DEFINE W == WordSize
<1>1. W \in Nat \ {0}
  BY LanesAssumption
<1> HIDE DEF W
<1>2. W * (c - (a + 1)) >= 0
  BY <1>1, SMT
<1>3. W * (c - (a + 1)) = W * c - (W * a + W) /\ W * c \in Nat /\ W * a \in Nat
  BY <1>1, SMT
<1>4. W * a + W <= W * c
  BY <1>1, <1>2, <1>3
<1> QED BY <1>4 DEF W

\* An upsizer has begun its last word before the end of the block.
LEMMA WordsBegun ==
    ASSUME StreamsInv, NEW v \in Lanes, BufferInv(v)
    PROVE  /\ Len(outStreamV[v]) \in Nat /\ compressedSize[v] \in Nat /\ Packed(v) \in Nat
           /\ Packed(v) < compressedSize[v] + WordSize
<1> DEFINE W == WordSize
<1>1. TypeOK /\ LaneStreams(v) /\ TakenInv(v)
  BY DEF StreamsInv, CountsInv, LaneStreams
<1>2. /\ Len(outStreamV[v]) \in Nat /\ compressedSize[v] \in Nat /\ W \in Nat \ {0} /\ byteIdx[v] \in Nat
      /\ upc[v] \in {"start", "loop", "flush", "size", "zero", "done"}
  BY <1>1, LaneTypes, StreamTypes, LanesAssumption DEF TypeOK, UpType
<1>3. Packed(v) \in Nat
  BY <1>2, ProductIsNat DEF Packed
<1>4. CASE upc[v] = "start"
  <2>1. Packed(v) + byteIdx[v] = 0
    BY <1>1, <1>4 DEF BufferInv, TakenInv
  <2> QED BY <1>2, <1>3, <2>1
<1>5. CASE upc[v] = "loop"
  <2>1. Packed(v) + byteIdx[v] <= compressedSize[v]
    BY <1>1, <1>5 DEF BufferInv, TakenInv
  <2> QED BY <1>2, <1>3, <2>1
<1>6. CASE upc[v] = "flush"
  <2>1. Packed(v) + byteIdx[v] = compressedSize[v]
    BY <1>6 DEF BufferInv
  <2> QED BY <1>2, <1>3, <2>1
<1>7. CASE upc[v] \in {"size", "zero", "done"}
  <2>1. Len(outStreamV[v]) = Words(compressedSize[v])
    BY <1>7 DEF BufferInv, Packing
  <2> QED BY <1>2, <1>3, <2>1, WordsHold DEF Packed
<1> QED BY <1>2, <1>4, <1>5, <1>6, <1>7

\* A word not yet read begins before the end of the block, and a lane has no
\* more words than its space in memory.
LEMMA WordBegins ==
    ASSUME StreamsInv, NEW v \in Lanes, BufferInv(v), NEW a \in Nat, a < Len(outStreamV[v])
    PROVE  WordSize * a < compressedSize[v] /\ a < BlockWords
<1> DEFINE W == WordSize
<1>1. /\ Len(outStreamV[v]) \in Nat /\ compressedSize[v] \in Nat /\ Packed(v) \in Nat
      /\ Packed(v) < compressedSize[v] + W /\ Packed(v) = W * Len(outStreamV[v])
  BY WordsBegun DEF Packed
<1>2. W * a + W <= W * Len(outStreamV[v])
  BY <1>1, MoreWords
<1>3. W \in Nat \ {0} /\ BlockWords \in Nat /\ W * a \in Nat
  BY LanesAssumption, ProductIsNat
<1>4. W * a < compressedSize[v]
  BY <1>1, <1>2, <1>3
<1>5. compressedSize[v] <= BlockWords * W
  <2>1. compressedSize[v] \in OutSizes
    BY DEF StreamsInv, CountsInv, TypeOK, CallType
  <2> QED BY <2>1, SizeIsNat
<1>6. ASSUME BlockWords <= a PROVE FALSE
  <2>1. W * (a - BlockWords) >= 0
    BY <1>3, <1>6, SMT
  <2>2. W * (a - BlockWords) = W * a - BlockWords * W /\ BlockWords * W \in Nat
    BY <1>3, SMT
  <2> QED BY <1>1, <1>3, <1>4, <1>5, <2>1, <2>2
<1> QED BY <1>3, <1>4, <1>6

\* The spaces of two lanes do not overlap.
LEMMA SpacesApart ==
    ASSUME NEW v \in Lanes, NEW u \in Lanes, v # u,
           NEW a \in Nat, a < BlockWords, NEW b \in Nat, b < BlockWords
    PROVE  Base(v) + a # Base(u) + b
<1> DEFINE B == BlockWords
<1>1. B \in Nat /\ v \in Nat /\ u \in Nat
  BY LanesAssumption DEF Lanes
<1> HIDE DEF B
<1>2. ASSUME NEW x \in Nat, NEW y \in Nat, x < y PROVE x * B + B <= y * B /\ x * B \in Nat /\ y * B \in Nat
  <2>1. B * (y - (x + 1)) >= 0
    BY <1>1, <1>2, SMT
  <2>2. B * (y - (x + 1)) = y * B - (x * B + B) /\ x * B \in Nat /\ y * B \in Nat
    BY <1>1, SMT
  <2> QED BY <1>1, <2>1, <2>2
<1>3. Base(v) = v * B /\ Base(u) = u * B
  BY DEF Base, B
<1>4. a < B /\ b < B
  BY DEF B
<1>5. CASE v < u
  <2>1. v * B + B <= u * B /\ v * B \in Nat /\ u * B \in Nat
    BY <1>1, <1>2, <1>5
  <2> QED BY <1>1, <1>3, <1>4, <2>1
<1>6. CASE u < v
  <2>1. u * B + B <= v * B /\ v * B \in Nat /\ u * B \in Nat
    BY <1>1, <1>2, <1>6
  <2> QED BY <1>1, <1>3, <1>4, <2>1
<1> QED BY <1>1, <1>5, <1>6

\* What these parts look at.
LEMMA BufferUntouched ==
    ASSUME NEW v \in Lanes, BufferInv(v), compressedSize' = compressedSize,
           outStreamV'[v] = outStreamV[v], outBuffer'[v] = outBuffer[v], byteIdx'[v] = byteIdx[v],
           upc'[v] = upc[v] \/ (~Packing(v) /\ ~Packing(v)'),
           upc[v] \in {"start", "loop"} => FlagsTaken(v)' = FlagsTaken(v)
    PROVE  BufferInv(v)'
<1>1. Packed(v)' = Packed(v) /\ Words(compressedSize[v])' = Words(compressedSize[v])
      /\ \A b : Byte(v, Packed(v) + b)' = Byte(v, Packed(v) + b)
  BY DEF Packed, Words, Byte
<1>2. CASE upc'[v] = upc[v]
  BY <1>1, <1>2 DEF BufferInv, Packing
<1>3. CASE ~Packing(v) /\ ~Packing(v)'
  BY <1>1, <1>3 DEF BufferInv, Packing
<1> QED BY <1>2, <1>3

LEMMA WordsUntouched ==
    ASSUME NEW v \in Lanes, WordsInv(v), compressedSize' = compressedSize, outStreamV'[v] = outStreamV[v]
    PROVE  WordsInv(v)'
BY DEF WordsInv, Byte

LEMMA OutUntouched ==
    ASSUME NEW v \in Lanes, OutInv(v), out' = out, wordsRead'[v] = wordsRead[v], outStreamV'[v] = outStreamV[v]
    PROVE  OutInv(v)'
BY DEF OutInv

\* A word that holds its bytes is passed on.
LEMMA WordsGrown ==
    ASSUME TypeOK, NEW u \in Lanes, WordsInv(u), PutWord(u), compressedSize' = compressedSize,
           \A b \in 0..WordSize - 1 : Packed(u) + b < compressedSize[u] => outBuffer[u][b] = Byte(u, Packed(u) + b)
    PROVE  WordsInv(u)'
<1> DEFINE n == Len(outStreamV[u])  t == outStreamV'[u]
<1>1. Len(t) = n + 1 /\ t[n + 1] = outBuffer[u] /\ \A k \in 1..n : t[k] = outStreamV[u][k]
  BY AppendedWord
<1>2. n \in Nat
  BY LaneTypes
<1>3. ASSUME NEW k \in 1..n + 1, NEW b \in 0..WordSize - 1, WordSize * (k - 1) + b < compressedSize[u]
      PROVE  t[k][b] = Byte(u, WordSize * (k - 1) + b)
  <2>1. CASE k \in 1..n
    BY <1>1, <1>3, <2>1 DEF WordsInv
  <2>2. CASE k = n + 1
    <3>1. k - 1 = n
      BY <1>2, <2>2
    <3>2. WordSize * (k - 1) = Packed(u)
      BY <3>1 DEF Packed
    <3> QED BY <1>1, <1>3, <2>2, <3>2
  <2> QED BY <1>2, <2>1, <2>2
<1> HIDE DEF t, n
<1>4. \A k \in 1..Len(t) : \A b \in 0..WordSize - 1 :
          WordSize * (k - 1) + b < compressedSize[u] => t[k][b] = Byte(u, WordSize * (k - 1) + b)
  BY <1>1, <1>3
<1> QED BY <1>4 DEF WordsInv, t, Byte

\* Words passed on do not change those in memory.
LEMMA OutGrown ==
    ASSUME CountsInv, NEW u \in Lanes, OutInv(u), PutWord(u), out' = out
    PROVE  OutInv(u)'
<1>1. /\ \A k \in 1..Len(outStreamV[u]) : outStreamV'[u][k] = outStreamV[u][k]
      /\ wordsRead' = wordsRead /\ wordsRead[u] \in Nat /\ Len(outStreamV[u]) \in Nat
  BY AppendedWord, LaneTypes DEF CountsInv, PutWord
<1>2. wordsRead[u] <= Len(outStreamV[u])
  BY WordsReadBound
<1>3. \A a \in 0..wordsRead[u] - 1 : a + 1 \in 1..Len(outStreamV[u])
  BY <1>1, <1>2
<1> QED BY <1>1, <1>3 DEF OutInv

LaneData(v) == BufferInv(v) /\ WordsInv(v) /\ OutInv(v)

\* A byte goes into the buffer, which is passed on first when it is full.
LEMMA DataUpsize ==
    ASSUME DataInv, NEW u \in Lanes, Upsize(u) PROVE LaneData(u)'
<1> DEFINE W == WordSize  n == Len(outStreamV[u])  bi == byteIdx[u]
           at == IF WordFull(u) THEN 0 ELSE bi
<1>1. /\ StreamsInv /\ CountsInv /\ TypeOK /\ LaneStreams(u) /\ BufferInv(u) /\ WordsInv(u) /\ OutInv(u)
  BY DEF DataInv, StreamsInv, CountsInv
<1>2. /\ upc[u] = "loop" /\ upc'[u] = "loop" /\ PassOn(u)
      /\ compressedSize' = compressedSize /\ out' = out /\ wordsRead'[u] = wordsRead[u]
      /\ outBuffer' = [outBuffer EXCEPT ![u][at] = inValue[u]]
      /\ byteIdx' = [byteIdx EXCEPT ![u] = at + 1]
  BY DEF Upsize, callVars, PassOn, PutWord, dataFifo
<1>3. /\ W \in Nat \ {0} /\ n \in Nat /\ bi \in 0..W /\ at \in 0..W - 1 /\ Packed(u) \in Nat
      /\ outBuffer[u] \in [0..W - 1 -> Int] /\ outBuffer \in [Lanes -> WordType] /\ byteIdx \in [Lanes -> 0..W]
  <2>1. W \in Nat \ {0} /\ n \in Nat /\ bi \in 0..W
    BY <1>1, LanesAssumption, LaneTypes
  <2>2. at \in 0..W - 1
    BY <2>1 DEF WordFull
  <2>3. Packed(u) \in Nat
    BY <2>1, ProductIsNat DEF Packed
  <2>4. outBuffer \in [Lanes -> WordType] /\ byteIdx \in [Lanes -> 0..W]
    BY <1>1 DEF TypeOK, UpType
  <2> QED BY <2>1, <2>2, <2>3, <2>4 DEF WordType
<1>4. /\ BytesTaken(u) = FlagsTaken(u) + 1 /\ FlagsTaken(u) \in Nat /\ FlagsTaken(u)' = FlagsTaken(u) + 1
      /\ FlagsTaken(u) + 1 <= compressedSize[u] /\ compressedSize[u] \in Nat
      /\ inValue[u] = ByteAt(u, FlagsTaken(u) + 1)
  <2>1. LaneStreams(u)' /\ FlagsTaken(u)' = FlagsTaken(u) + 1
    BY <1>1, StreamsUpsize
  <2>2. FlagsTaken(u) + 1 <= compressedSize[u]
    BY <1>2, <2>1 DEF LaneStreams, TakenInv
  <2>3. FlagsTaken(u) \in Nat /\ compressedSize[u] \in Nat
    BY <1>1, <1>2, StreamTypes DEF LaneStreams, TakenInv
  <2> QED BY <1>1, <1>2, <2>1, <2>2, <2>3 DEF LaneStreams, TakenInv
<1>5. Packed(u) + bi = FlagsTaken(u) /\ \A b \in 0..bi - 1 : outBuffer[u][b] = Byte(u, Packed(u) + b)
  BY <1>1, <1>2 DEF BufferInv, Packing
<1>6. inValue[u] = Byte(u, Packed(u) + bi)
  <2>1. (FlagsTaken(u) + 1) - 1 = FlagsTaken(u)
    BY <1>4
  <2> QED BY <1>4, <1>5, <2>1 DEF ByteAt
<1>7. outBuffer'[u] = [outBuffer[u] EXCEPT ![at] = inValue[u]] /\ byteIdx'[u] = at + 1
  <2> HIDE DEF at, WordType
  <2> QED BY <1>2, <1>3
<1>8. outBuffer'[u][at] = inValue[u] /\ \A b \in 0..W - 1 : b # at => outBuffer'[u][b] = outBuffer[u][b]
  <2> HIDE DEF at
  <2> QED BY <1>3, <1>7
<1>9. CASE WordFull(u)
  <2>1. PutWord(u) /\ at = 0 /\ bi = W
    BY <1>2, <1>9 DEF PassOn, WordFull
  <2>2. WordsInv(u)'
    BY <1>1, <1>2, <1>3, <1>5, <2>1, WordsGrown
  <2>3. OutInv(u)'
    BY <1>1, <1>2, <2>1, OutGrown
  <2>4. Packed(u)' = Packed(u) + W
    <3>1. Len(outStreamV'[u]) = n + 1
      BY <1>1, <2>1, AppendedWord
    <3>2. W * (n + 1) = W * n + W
      BY <1>3, SMT
    <3> QED BY <3>1, <3>2 DEF Packed
  <2>5. BufferInv(u)'
    <3>1. PICK p \in Nat : p = Packed(u) + W
      BY <1>3
    <3>2. p + byteIdx'[u] = FlagsTaken(u)'
      BY <1>3, <1>4, <1>5, <1>7, <2>1, <3>1
    <3>3. \A b \in 0..byteIdx'[u] - 1 : outBuffer'[u][b] = Byte(u, p + b)
      <4>1. ASSUME NEW b \in 0..byteIdx'[u] - 1 PROVE b = 0
        BY <1>7, <2>1
      <4>2. Packed(u) + bi = p + 0
        BY <2>1, <3>1
      <4>3. outBuffer'[u][0] = Byte(u, p + 0)
        BY <1>6, <1>8, <2>1, <4>2
      <4> QED BY <4>1, <4>3
    <3>4. Packed(u)' = p
      BY <2>4, <3>1
    <3> QED BY <1>2, <3>2, <3>3, <3>4 DEF BufferInv, Packing, Byte
  <2> QED BY <2>2, <2>3, <2>5 DEF LaneData
<1>10. CASE ~WordFull(u)
  <2>1. UNCHANGED dataFifo /\ at = bi
    BY <1>2, <1>10 DEF PassOn
  <2>2. WordsInv(u)' /\ OutInv(u)'
    BY <1>1, <1>2, <2>1, WordsUntouched, OutUntouched DEF dataFifo
  <2>3. BufferInv(u)'
    <3>1. PICK p \in Nat : p = Packed(u)
      BY <1>3
    <3>2. Packed(u)' = p
      BY <2>1, <3>1 DEF Packed, dataFifo
    <3>3. p + byteIdx'[u] = FlagsTaken(u)'
      BY <1>3, <1>4, <1>5, <1>7, <2>1, <3>1
    <3>4. \A b \in 0..byteIdx'[u] - 1 : outBuffer'[u][b] = Byte(u, p + b)
      <4>1. ASSUME NEW b \in 0..byteIdx'[u] - 1 PROVE outBuffer'[u][b] = Byte(u, p + b)
        <5>1. CASE b = bi
          BY <1>6, <1>8, <2>1, <3>1, <5>1
        <5>2. CASE b # bi
          <6>1. b \in 0..bi - 1 /\ b \in 0..W - 1
            BY <1>3, <1>7, <2>1, <5>2
          <6> QED BY <1>5, <1>8, <2>1, <3>1, <5>2, <6>1
        <5> QED BY <5>1, <5>2
      <4> QED BY <4>1
    <3> QED BY <1>2, <3>2, <3>3, <3>4 DEF BufferInv, Packing, Byte
  <2> QED BY <2>2, <2>3 DEF LaneData
<1> QED BY <1>9, <1>10

\* The end of the stream: the bytes in words and buffer are those of the block.
LEMMA DataEndOfStream ==
    ASSUME DataInv, NEW u \in Lanes, EndOfStream(u) PROVE LaneData(u)'
<1>1. /\ StreamsInv /\ CountsInv /\ TypeOK /\ LaneStreams(u) /\ BufferInv(u) /\ WordsInv(u) /\ OutInv(u)
      /\ CountInv(u)
  BY DEF DataInv, StreamsInv, CountsInv, LaneCounts
<1>2. /\ upc[u] = "loop" /\ upc'[u] = IF byteIdx[u] > 0 THEN "flush" ELSE "zero"
      /\ UNCHANGED <<compressedSize, out, outBuffer, byteIdx, dataFifo>>
  BY <1>1 DEF EndOfStream, TypeOK, UpType, callVars
<1>3. WordsInv(u)' /\ OutInv(u)'
  BY <1>1, <1>2, WordsUntouched, OutUntouched DEF dataFifo
<1>4. Packed(u) + byteIdx[u] = compressedSize[u]
  BY <1>1, <1>2, StreamsEndOfStream DEF BufferInv
<1>5. /\ Packed(u)' = Packed(u) /\ \A b : Byte(u, Packed(u) + b)' = Byte(u, Packed(u) + b)
  BY <1>2 DEF Packed, Byte, dataFifo
<1>6. byteIdx[u] \in Nat
  BY <1>1, LaneTypes, LanesAssumption
<1>7. CASE byteIdx[u] > 0
  <2>1. BufferInv(u)'
    BY <1>1, <1>2, <1>4, <1>5, <1>7 DEF BufferInv, Packing
  <2> QED BY <1>3, <2>1 DEF LaneData
<1>8. CASE ~(byteIdx[u] > 0)
  <2>1. byteIdx[u] = 0 /\ Len(outStreamV[u]) = 0 /\ upc'[u] = "zero"
    BY <1>1, <1>2, <1>6, <1>8 DEF CountInv
  <2>2. compressedSize[u] = WordSize * 0
    <3>1. WordSize * 0 = 0
      BY LanesAssumption
    <3> QED BY <1>4, <2>1, <3>1 DEF Packed
  <2>3. Words(compressedSize[u]) = 0
    BY <2>2, WordsExact
  <2>4. BufferInv(u)'
    BY <1>2, <2>1, <2>3 DEF BufferInv, Packing, Words, dataFifo
  <2> QED BY <1>3, <2>4 DEF LaneData
<1> QED BY <1>7, <1>8

\* The last word is passed on, with bytes that do not belong to the block.
LEMMA DataFlush ==
    ASSUME DataInv, NEW u \in Lanes, Flush(u) PROVE LaneData(u)'
<1>1. /\ StreamsInv /\ CountsInv /\ TypeOK /\ BufferInv(u) /\ WordsInv(u) /\ OutInv(u)
  BY DEF DataInv, StreamsInv, CountsInv
<1>2. /\ upc[u] = "flush" /\ upc'[u] = "size" /\ PutWord(u)
      /\ UNCHANGED <<compressedSize, out>>
  BY <1>1 DEF Flush, TypeOK, UpType, callVars
<1>3. /\ Packed(u) + byteIdx[u] = compressedSize[u] /\ byteIdx[u] > 0
      /\ \A b \in 0..byteIdx[u] - 1 : outBuffer[u][b] = Byte(u, Packed(u) + b)
  BY <1>1, <1>2 DEF BufferInv, Packing
<1>4. /\ byteIdx[u] \in 0..WordSize /\ Len(outStreamV[u]) \in Nat /\ WordSize \in Nat
  BY <1>1, LaneTypes, LanesAssumption
<1>5. Packed(u) \in Nat
  BY <1>4, ProductIsNat DEF Packed
<1>6. \A b \in 0..WordSize - 1 : Packed(u) + b < compressedSize[u] => outBuffer[u][b] = Byte(u, Packed(u) + b)
  <2>1. ASSUME NEW b \in 0..WordSize - 1, Packed(u) + b < compressedSize[u] PROVE b \in 0..byteIdx[u] - 1
    BY <1>3, <1>4, <1>5, <2>1
  <2> QED BY <1>3, <2>1
<1>7. WordsInv(u)'
  BY <1>1, <1>2, <1>6, WordsGrown
<1>8. OutInv(u)'
  BY <1>1, <1>2, OutGrown
<1>9. BufferInv(u)'
  <2>1. Words(compressedSize[u]) = Len(outStreamV[u]) + 1
    <3>1. byteIdx[u] \in 1..WordSize /\ compressedSize[u] = WordSize * Len(outStreamV[u]) + byteIdx[u]
      BY <1>3, <1>4 DEF Packed
    <3> QED BY <1>4, <3>1, WordsPart
  <2>2. Len(outStreamV'[u]) = Len(outStreamV[u]) + 1
    BY <1>1, <1>2, AppendedWord
  <2> QED BY <1>2, <2>1, <2>2 DEF BufferInv, Packing, Words
<1> QED BY <1>7, <1>8, <1>9 DEF LaneData

LEMMA DataUpsizer ==
    ASSUME DataInv, NEW u \in Lanes, stream2mmUpsizer(u) PROVE \A v \in Lanes : LaneData(v)'
<1>1. TypeOK /\ \A v \in Lanes : BufferInv(v) /\ WordsInv(v) /\ OutInv(v)
  BY DEF DataInv, StreamsInv, CountsInv
<1>2. UNCHANGED <<compressedSize, sent, cpc, out, wordsRead>>
  BY DEF stream2mmUpsizer, FirstByte, Upsize, EndOfStream, Flush, LastSize, ZeroSize,
         PassOn, PutWord, PutSize, dataFifo, sizeFifo, callVars, coreVars
<1>3. ASSUME NEW v \in Lanes, v # u PROVE LaneData(v)'
  <2>1. FlagsTaken(v)' = FlagsTaken(v)
    BY <1>1, <1>2, <1>3, UpsizerElsewhere DEF FlagsTaken, Given
  <2> QED BY <1>1, <1>2, <1>3, <2>1, UpsizerElsewhere, BufferUntouched, WordsUntouched, OutUntouched DEF LaneData
<1>4. ASSUME FirstByte(u) PROVE LaneData(u)'
  <2>1. UNCHANGED <<inStreamEos, dataFifo, outBuffer, byteIdx>> /\ upc[u] = "start" /\ upc'[u] = "loop"
    BY <1>1, <1>4 DEF FirstByte, TypeOK, UpType
  <2>2. FlagsTaken(u)' = FlagsTaken(u) /\ Packed(u)' = Packed(u)
        /\ \A b : Byte(u, Packed(u) + b)' = Byte(u, Packed(u) + b)
    BY <1>2, <2>1 DEF FlagsTaken, Given, Packed, Byte, dataFifo
  <2>3. BufferInv(u)'
    BY <1>1, <2>1, <2>2 DEF BufferInv, Packing
  <2> QED BY <1>1, <1>2, <2>1, <2>3, WordsUntouched, OutUntouched DEF LaneData, dataFifo
<1>5. ASSUME LastSize(u) \/ ZeroSize(u) PROVE LaneData(u)'
  <2>1. UNCHANGED <<dataFifo, outBuffer, byteIdx>> /\ ~Packing(u) /\ ~Packing(u)'
    BY <1>1, <1>5 DEF LastSize, ZeroSize, TypeOK, UpType, Packing
  <2> QED BY <1>1, <1>2, <2>1, BufferUntouched, WordsUntouched, OutUntouched DEF LaneData, dataFifo, Packing
<1> QED BY <1>3, <1>4, <1>5, DataUpsize, DataEndOfStream, DataFlush DEF stream2mmUpsizer

\* A core moves no flag that has been taken.
LEMMA DataCore ==
    ASSUME DataInv, NEW u \in Lanes, Core(u) PROVE \A v \in Lanes : LaneData(v)'
<1>1. TypeOK /\ StreamsInv /\ \A v \in Lanes : BufferInv(v) /\ WordsInv(v) /\ OutInv(v)
  BY DEF DataInv, StreamsInv, CountsInv
<1>2. UNCHANGED <<compressedSize, out, wordsRead, upc, outBuffer, byteIdx, outStreamV>>
  BY DEF Core, CoreByte, CoreTotal, CoreLast, dataFifo, callVars, upVars
<1>3. ASSUME NEW v \in Lanes, upc[v] \in {"start", "loop"} PROVE FlagsTaken(v)' = FlagsTaken(v)
  <2>1. CASE v # u
    BY <1>1, <2>1, CoreElsewhere DEF FlagsTaken, Given
  <2>2. CASE v = u
    <3>1. LaneStreams(u) /\ LaneStreams(u)' /\ upc'[u] = upc[u]
      BY <1>1, <1>2, StreamsCore DEF StreamsInv
    <3>2. Given(u) \in Nat /\ Len(inStreamEos[u]) \in Nat /\ sent[u] \in Nat
      BY <1>1, StreamTypes
    <3>3. CASE CoreTotal(u)
      <4>1. UNCHANGED <<sent, inStreamEos>> /\ cpc[u] = "bytes" /\ cpc'[u] = "last"
        BY <1>1, <3>3 DEF CoreTotal, coreFifos, TypeOK, CoreType
      <4> QED BY <2>2, <4>1 DEF FlagsTaken, Given
    <3>4. ASSUME NEW x, NEW e \in Flags, Write(u, x, e) PROVE Len(inStreamEos'[u]) = Len(inStreamEos[u]) + 1
      <4>1. inStreamEos'[u] = Append(inStreamEos[u], e) /\ inStreamEos[u] \in Seq(Flags)
        BY <1>1, <3>4 DEF Write, TypeOK, CoreType
      <4> QED BY <4>1, AppendProperties
    <3>5. CASE CoreByte(u) \/ CoreLast(u)
      <4>1. Len(inStreamEos'[u]) = Len(inStreamEos[u]) + 1
        BY <3>4, <3>5 DEF CoreByte, CoreLast, Flags
      <4>2. Given(u)' = Given(u) + 1
        <5>1. CASE CoreByte(u)
          <6>1. cpc'[u] = "bytes" /\ cpc[u] = "bytes" /\ sent'[u] = sent[u] + 1
            BY <1>1, <5>1 DEF CoreByte, TypeOK, CoreType
          <6> QED BY <3>2, <6>1 DEF Given
        <5>2. CASE CoreLast(u)
          <6>1. cpc'[u] = "done" /\ cpc[u] = "last" /\ sent' = sent
            BY <1>1, <5>2 DEF CoreLast, TypeOK, CoreType
          <6> QED BY <3>2, <6>1 DEF Given
        <5> QED BY <3>5, <5>1, <5>2
      <4>3. PICK g \in Nat, l \in Nat : g = Given(u) /\ l = Len(inStreamEos[u])
        BY <3>2
      <4>4. FlagsTaken(u)' = (g + 1) - (l + 1) /\ FlagsTaken(u) = g - l
        BY <4>1, <4>2, <4>3 DEF FlagsTaken
      <4>5. (g + 1) - (l + 1) = g - l
        OBVIOUS
      <4> QED BY <2>2, <4>4, <4>5
    <3> QED BY <3>3, <3>5 DEF Core
  <2> QED BY <2>1, <2>2
<1> QED BY <1>1, <1>2, <1>3, BufferUntouched, WordsUntouched, OutUntouched DEF LaneData

\* A word is written: to the next place of its own lane's space.
LEMMA DataGmemWrite ==
    ASSUME DataInv, GmemWrite PROVE \A v \in Lanes : OutInv(v)'
<1> DEFINE wr == wordsRead[i]
<1>1. /\ StreamsInv /\ CountsInv /\ TypeOK /\ i \in Lanes /\ InHand(i) /\ j < readSize
      /\ \A v \in Lanes : OutInv(v) /\ BufferInv(v)
  BY DEF DataInv, StreamsInv, CountsInv, TypeOK, MmType, GmemWrite, InHand
<1>2. /\ wordsRead' = [wordsRead EXCEPT ![i] = wr + 1] /\ outStreamV' = outStreamV
      /\ out' = [out EXCEPT ![Address(i)] = outStreamV[i][wr + 1]]
      /\ wordsRead \in [Lanes -> Nat] /\ out \in [Addresses -> WordType]
  BY <1>1 DEF GmemWrite, TypeOK, FifoType, OutType
<1>3. wr \in Nat /\ wr < Len(outStreamV[i]) /\ \A v \in Lanes : wordsRead[v] <= Len(outStreamV[v])
  BY <1>1, <1>2, WordsReadBound
<1>4. WordSize * wr < compressedSize[i] /\ wr < BlockWords
  BY <1>1, <1>3, WordBegins
<1>5. compressedSize[i] > 0
  <2>1. WordSize * wr \in Nat /\ compressedSize[i] \in Nat
    BY <1>1, <1>3, LanesAssumption, ProductIsNat, StreamTypes
  <2> QED BY <1>4, <2>1
<1>6. output_idx[i] = Base(i)
  BY <1>1, <1>5 DEF TypeOK, CallType, Layouts
<1>7. Base(i) \in Nat /\ BlockWords \in Nat /\ i \in 0..NUM_BLOCK - 1 /\ NUM_BLOCK \in Nat
  BY <1>1, LanesAssumption, ProductIsNat DEF Base, Lanes
<1>8. Address(i) = Base(i) + wr
  <2>1. write_size[i] \in Nat /\ j \in Nat /\ wr = write_size[i] + j
    BY <1>1, LaneTypes DEF CountsInv, LaneCounts, WriteInv
  <2> HIDE DEF wr
  <2> QED BY <1>6, <1>7, <2>1 DEF Address
<1>9. Address(i) \in Addresses
  <2>1. Base(i) + BlockWords <= NUM_BLOCK * BlockWords /\ NUM_BLOCK * BlockWords \in Nat
    <3>1. BlockWords * (NUM_BLOCK - (i + 1)) >= 0
      BY <1>7, SMT
    <3>2. BlockWords * (NUM_BLOCK - (i + 1)) = NUM_BLOCK * BlockWords - (i * BlockWords + BlockWords)
      BY <1>7, SMT
    <3>3. NUM_BLOCK * BlockWords \in Nat /\ i * BlockWords \in Nat
      BY <1>7, ProductIsNat
    <3> QED BY <1>7, <3>1, <3>2, <3>3 DEF Base
  <2> HIDE DEF wr
  <2> QED BY <1>3, <1>4, <1>7, <1>8, <2>1 DEF Addresses
<1>10. ASSUME NEW v \in Lanes, NEW a \in 0..wordsRead'[v] - 1 PROVE out'[Base(v) + a] = outStreamV[v][a + 1]
  <2> HIDE DEF wr
  <2>1. CASE v = i /\ a = wr
    BY <1>2, <1>8, <1>9, <2>1
  <2>2. CASE ~(v = i /\ a = wr)
    <3>1. a \in 0..wordsRead[v] - 1 /\ a \in Nat /\ wordsRead[v] \in Nat
      BY <1>2, <1>3, <1>10, <2>2 DEF wr
    <3>2. Base(v) + a # Address(i)
      <4>1. CASE v = i
        BY <1>3, <1>7, <1>8, <2>2, <3>1, <4>1
      <4>2. CASE v # i
        <5>1. a < BlockWords
          <6>1. a < Len(outStreamV[v])
            <7>1. wordsRead[v] <= Len(outStreamV[v]) /\ Len(outStreamV[v]) \in Nat
              BY <1>1, <1>3, LaneTypes
            <7> QED BY <3>1, <7>1
          <6> QED BY <1>1, <3>1, <6>1, WordBegins
        <5> QED BY <1>1, <1>3, <1>4, <1>8, <3>1, <4>2, <5>1, SpacesApart
      <4> QED BY <4>1, <4>2
    <3>3. out'[Base(v) + a] = out[Base(v) + a]
      BY <1>2, <3>2
    <3> QED BY <1>1, <3>1, <3>3 DEF OutInv
  <2> QED BY <2>1, <2>2
<1> QED BY <1>2, <1>10 DEF OutInv

\* The writer leaves the packed words alone, and reads them in order.
LEMMA DataWriter ==
    ASSUME DataInv, multStream2mmSize PROVE \A v \in Lanes : LaneData(v)'
<1>1. \A v \in Lanes : BufferInv(v) /\ WordsInv(v) /\ OutInv(v)
  BY DEF DataInv
<1>2. UNCHANGED <<compressedSize, sent, cpc, inStreamEos, upc, outBuffer, byteIdx, outStreamV>>
  BY DEF multStream2mmSize, Skip, ReadSize, GmemWrite, BurstWritten, ReadTotal,
         callVars, coreVars, coreFifos, upVars, dataFifo
<1>3. ASSUME NEW v \in Lanes PROVE BufferInv(v)' /\ WordsInv(v)'
  <2>1. FlagsTaken(v)' = FlagsTaken(v)
    BY <1>2 DEF FlagsTaken, Given
  <2> QED BY <1>1, <1>2, <2>1, BufferUntouched, WordsUntouched
<1>4. ASSUME Skip \/ ReadSize \/ BurstWritten \/ ReadTotal PROVE \A v \in Lanes : OutInv(v)'
  <2>1. UNCHANGED <<out, wordsRead>>
    BY <1>4 DEF Skip, ReadSize, BurstWritten, ReadTotal, dataFifo
  <2> QED BY <1>1, <1>2, <2>1, OutUntouched
<1> QED BY <1>3, <1>4, DataGmemWrite DEF multStream2mmSize, LaneData

LEMMA DataStart == TypeOK => \A v \in Lanes : LaneEmpty(v) /\ StreamStart(v) => LaneData(v)
<1> SUFFICES ASSUME TypeOK, NEW v \in Lanes, LaneEmpty(v), StreamStart(v) PROVE LaneData(v)
  OBVIOUS
<1>1. /\ Len(outStreamV[v]) = 0 /\ wordsRead[v] = 0 /\ byteIdx[v] = 0 /\ upc[v] = "start"
      /\ Len(inStreamEos[v]) = 0 /\ Given(v) = 0
  BY DEF LaneEmpty, StreamStart, Given
<1>2. Packed(v) = 0
  BY <1>1, LanesAssumption DEF Packed
<1>3. BufferInv(v)
  <2>1. FlagsTaken(v) = 0
    <3>1. \A n, m : n = 0 /\ m = 0 => n - m = 0
      OBVIOUS
    <3> QED BY <1>1, <3>1, Zenon DEF FlagsTaken
  <2> QED BY <1>1, <1>2, <2>1 DEF BufferInv, Packing
<1>4. WordsInv(v) /\ OutInv(v)
  BY <1>1 DEF WordsInv, OutInv
<1> QED BY <1>3, <1>4 DEF LaneData

LEMMA DataNextCall ==
    ASSUME DataInv, NextCall PROVE \A v \in Lanes : LaneData(v)'
<1>1. TypeOK'
  BY TypeNextCall DEF DataInv, StreamsInv, CountsInv
<1>2. ASSUME NEW v \in Lanes PROVE LaneEmpty(v)' /\ StreamStart(v)'
  <2>1. /\ outStreamV'[v] = SubSeq(outStreamV[v], wordsRead[v] + 1, Len(outStreamV[v]))
        /\ outStreamVSize'[v] = SubSeq(outStreamVSize[v], sizesRead[v] + 1, Len(outStreamVSize[v]))
    BY DEF NextCall, Left
  <2>2. /\ wordsRead[v] = Len(outStreamV[v]) /\ sizesRead[v] = Len(outStreamVSize[v])
        /\ Len(outStreamV[v]) \in Nat /\ Len(outStreamVSize[v]) \in Nat
        /\ inStream[v] = <<>> /\ inStreamEos[v] = <<>> /\ totalOutSizeStream[v] = <<>>
    BY NothingLeft, LaneTypes DEF NextCall, NoSize, DataInv, StreamsInv, CountsInv, Sized
  <2>3. outStreamV'[v] = <<>> /\ outStreamVSize'[v] = <<>>
    BY <2>1, <2>2, SubSeqEmpty
  <2>4. /\ wordsRead'[v] = 0 /\ sizesRead'[v] = 0 /\ write_size'[v] = 0 /\ upc'[v] = "start"
        /\ sizeWrite'[v] = 0 /\ byteIdx'[v] = 0 /\ is_pending'[v] = TRUE /\ pc' = "poll"
        /\ cpc'[v] = "bytes" /\ sent'[v] = 0
        /\ UNCHANGED <<inStream, inStreamEos, totalOutSizeStream>>
    BY DEF NextCall, PerLane, coreFifos
  <2> QED BY <2>2, <2>3, <2>4 DEF LaneEmpty, StreamStart
<1>3. (TypeOK => \A v \in Lanes : LaneEmpty(v) /\ StreamStart(v) => LaneData(v))'
  BY DataStart, PTL
<1> QED BY <1>1, <1>2, <1>3

LEMMA DataInit == Init => DataInv
<1> SUFFICES ASSUME Init PROVE DataInv
  OBVIOUS
<1>1. \A v \in Lanes : LaneEmpty(v) /\ StreamStart(v)
  BY DEF Init, PerLane, LaneEmpty, StreamStart
<1>2. StreamsInv /\ TypeOK
  BY StreamsInit DEF StreamsInv, CountsInv
<1> QED BY <1>1, <1>2, DataStart DEF DataInv, LaneData

LEMMA DataNext == DataInv /\ [Next]_vars => DataInv'
<1> SUFFICES ASSUME DataInv, [Next]_vars PROVE \A v \in Lanes : LaneData(v)'
  BY StreamsNext DEF DataInv, LaneData
<1>1. CASE UNCHANGED vars
  <2>1. \A v \in Lanes : BufferInv(v) /\ WordsInv(v) /\ OutInv(v)
    BY DEF DataInv
  <2>2. \A v \in Lanes : FlagsTaken(v)' = FlagsTaken(v)
    BY <1>1 DEF FlagsTaken, Given, vars, coreVars, coreFifos
  <2>3. UNCHANGED <<compressedSize, upc, outBuffer, byteIdx, outStreamV, wordsRead, out>>
    BY <1>1 DEF vars, callVars, upVars, dataFifo
  <2> QED BY <2>1, <2>2, <2>3, BufferUntouched, WordsUntouched, OutUntouched DEF LaneData
<1> QED BY <1>1, DataWriter, DataUpsizer, DataCore, DataNextCall DEF Next

\* The words, in the FIFO and in memory, are those of their lane's block.
THEOREM DataInvariance == Spec => []DataInv
BY DataInit, DataNext, PTL DEF Spec

-----------------------------------------------------------------------------
(* The refinement: what LaneTransfer allows is all that happens. *)

\* The bytes of a block of c bytes that its first w words hold.
BytesOf(w, c) == IF w * WordSize < c THEN w * WordSize ELSE c

LEMMA BytesOfWords ==
    ASSUME NEW w \in Nat, NEW c \in Nat
    PROVE  BytesOf(w, c) \in 0..c /\ BytesOf(w, c) <= WordSize * w
<1>1. w * WordSize \in Nat /\ w * WordSize = WordSize * w
  <2>1. WordSize \in Nat
    BY LanesAssumption
  <2> QED BY <2>1, ProductIsNat, SMT
<1> DEFINE x == w * WordSize
<1> HIDE DEF x
<1> QED BY <1>1 DEF BytesOf, x

LEMMA BytesWritten ==
    ASSUME DataInv, NEW v \in Lanes
    PROVE  BytesOut(v) = BytesOf(wordsRead[v], compressedSize[v])
<1>1. TypeOK /\ WriteInv(v)
  BY DEF DataInv, StreamsInv, CountsInv, LaneCounts
<1>2. WordsOut(v) = wordsRead[v]
  <2>1. CASE InHand(v)
    BY <1>1, <2>1 DEF WriteInv, WordsOut, InHand
  <2>2. CASE ~InHand(v)
    BY <1>1, <2>2, LaneTypes DEF WriteInv, WordsOut, InHand
  <2> QED BY <2>1, <2>2
<1> QED BY <1>2 DEF BytesOut, BytesOf

\* The word and the place in it of a byte.
LEMMA PlaceOfByte ==
    ASSUME NEW x \in Nat, NEW w \in Nat, x < WordSize * w
    PROVE  /\ x \div WordSize \in 0..w - 1 /\ x % WordSize \in 0..WordSize - 1
           /\ WordSize * (x \div WordSize) + (x % WordSize) = x
<1> DEFINE W == WordSize  a == x \div W  b == x % W
<1>1. W \in Nat \ {0}
  BY LanesAssumption
<1>2. a \in Nat /\ b \in 0..W - 1 /\ x = W * a + b
  BY <1>1
<1> HIDE DEF a, b
<1>3. ASSUME w <= a PROVE FALSE
  <2>1. W * (a - w) >= 0 /\ W * (a - w) = W * a - W * w /\ W * a \in Nat /\ W * w \in Nat
    BY <1>1, <1>2, <1>3, SMT
  <2> QED BY <1>1, <1>2, <2>1
<1>4. a \in 0..w - 1
  BY <1>2, <1>3
<1> QED BY <1>2, <1>4 DEF a, b

\* What is in memory is the beginning of the block.
LEMMA Arrived ==
    ASSUME DataInv, NEW v \in Lanes
    PROVE  BytesAt(v, BytesOut(v)) = BlockBytes(v, BytesOf(wordsRead[v], compressedSize[v]))
<1> DEFINE n == BytesOf(wordsRead[v], compressedSize[v])
<1>1. /\ StreamsInv /\ CountsInv /\ TypeOK /\ WordsInv(v) /\ OutInv(v)
  BY DEF DataInv, StreamsInv, CountsInv
<1>2. wordsRead[v] \in Nat /\ compressedSize[v] \in Nat /\ Len(outStreamV[v]) \in Nat
  BY <1>1, LaneTypes, StreamTypes
<1>3. wordsRead[v] <= Len(outStreamV[v])
  BY <1>1, WordsReadBound
<1>4. n \in 0..compressedSize[v] /\ n <= WordSize * wordsRead[v]
  BY <1>2, BytesOfWords
<1> HIDE DEF n
<1>5. ASSUME NEW k \in 1..n
      PROVE  out[Base(v) + ((k - 1) \div WordSize)][(k - 1) % WordSize] = Byte(v, k - 1)
  <2> DEFINE x == k - 1  a == x \div WordSize  b == x % WordSize
  <2>1. x \in Nat /\ x < n /\ x < compressedSize[v]
    BY <1>2, <1>4
  <2>2. WordSize * wordsRead[v] \in Nat
    BY <1>2, LanesAssumption, ProductIsNat
  <2>3. a \in 0..wordsRead[v] - 1 /\ b \in 0..WordSize - 1 /\ WordSize * a + b = x
    <3>1. x < WordSize * wordsRead[v]
      BY <1>4, <2>1, <2>2
    <3> QED BY <1>2, <2>1, <3>1, PlaceOfByte
  <2> HIDE DEF x, a, b
  <2>4. out[Base(v) + a] = outStreamV[v][a + 1]
    BY <1>1, <2>3 DEF OutInv
  <2>5. a + 1 \in 1..Len(outStreamV[v]) /\ a + 1 - 1 = a
    BY <1>2, <1>3, <2>3
  <2>6. outStreamV[v][a + 1][b] = Byte(v, x)
    BY <1>1, <2>1, <2>3, <2>5 DEF WordsInv
  <2> QED BY <2>4, <2>6 DEF x, a, b
<1>6. BytesAt(v, n) = BlockBytes(v, n)
  BY <1>5 DEF BytesAt, BlockBytes
<1> QED BY <1>6, BytesWritten DEF n

\* The block of a lane up to a byte is the block of that many bytes.
LEMMA BlockPrefix ==
    ASSUME NEW v \in Lanes, NEW n \in Nat, NEW m \in 0..n
    PROVE  /\ Len(BlockBytes(v, n)) = n
           /\ SubSeq(BlockBytes(v, n), 1, m) = BlockBytes(v, m)
<1> DEFINE f(k) == Byte(v, k - 1)
           s == BlockBytes(v, n)
<1>1. /\ s = [k \in 1..n |-> f(k)] /\ DOMAIN s = 1..n /\ \A k \in 1..n : s[k] = f(k)
      /\ BlockBytes(v, m) = [k \in 1..m |-> f(k)]
  BY DEF BlockBytes
<1> HIDE DEF f, s
<1>2. s \in Seq({f(k) : k \in 1..n})
  <2>1. s \in [1..n -> {f(k) : k \in 1..n}]
    BY <1>1
  <2> QED BY <2>1, SeqDef
<1>3. Len(s) = n
  BY <1>1, <1>2, LenProperties
<1>4. SubSeq(s, 1, m) = [k \in 1..m |-> s[1 + k - 1]]
  BY DEF SubSeq
<1>5. \A k \in 1..m : s[1 + k - 1] = f(k)
  <2>1. \A k \in 1..m : 1 + k - 1 = k /\ k \in 1..n
    OBVIOUS
  <2> QED BY <1>1, <2>1
<1> QED BY <1>1, <1>3, <1>4, <1>5 DEF s

LEMMA NoBytes == \A v \in Lanes : BlockBytes(v, 0) = <<>>
<1> SUFFICES ASSUME NEW v \in Lanes PROVE BlockBytes(v, 0) = <<>>
  OBVIOUS
<1>1. SubSeq(BlockBytes(v, 0), 1, 0) = BlockBytes(v, 0)
  BY BlockPrefix
<1> QED BY <1>1, SubSeqEmpty

ChosenBlocks == [v \in Lanes |-> BlockBytes(v, compressedSize[v])]
ArrivedBytes == [v \in Lanes |-> BytesAt(v, BytesOut(v))]

LEMMA ArrivedBlocks ==
    DataInv => ArrivedBytes = [v \in Lanes |-> BlockBytes(v, BytesOf(wordsRead[v], compressedSize[v]))]
BY Arrived DEF ArrivedBytes

LEMMA ArrivedNext ==
    ASSUME DataInv'
    PROVE  ArrivedBytes' = [v \in Lanes |-> BlockBytes(v, BytesOf(wordsRead'[v], compressedSize'[v]))]
<1>1. (DataInv => ArrivedBytes = [v \in Lanes |-> BlockBytes(v, BytesOf(wordsRead[v], compressedSize[v]))])'
  BY ArrivedBlocks, PTL
<1> QED BY <1>1 DEF BlockBytes, BytesOf, Byte, Base

\* The blocks a call may end with are blocks LaneTransfer chooses from.
LEMMA BlocksAreChosen ==
    compressedSize \in [Lanes -> OutSizes] => ChosenBlocks \in Transfer!BlockChoices
<1> SUFFICES ASSUME compressedSize \in [Lanes -> OutSizes]
             PROVE  ChosenBlocks \in Transfer!BlockChoices
  OBVIOUS
<1> DEFINE b == ChosenBlocks
           B == [v \in Lanes |-> {BlockBytes(v, n) : n \in OutSizes}]
<1>1. \A v \in Lanes : b[v] = BlockBytes(v, compressedSize[v]) /\ compressedSize[v] \in OutSizes
  BY DEF ChosenBlocks
<1>2. \A v \in Lanes : b[v] \in B[v]
  BY <1>1
<1>3. b \in [Lanes -> UNION {B[v] : v \in Lanes}]
  <2>1. \A v \in Lanes : b[v] \in UNION {B[y] : y \in Lanes}
    BY <1>2
  <2>2. b = [v \in Lanes |-> b[v]]
    BY DEF ChosenBlocks
  <2> QED BY <2>1, <2>2
<1> QED BY <1>2, <1>3, Zenon DEF Transfer!BlockChoices

\* Before the first word of a call nothing of its blocks has arrived.
LEMMA NothingArrived ==
    DataInv /\ (\A v \in Lanes : wordsRead[v] = 0) => ArrivedBytes = [v \in Lanes |-> <<>>]
<1> SUFFICES ASSUME DataInv, \A v \in Lanes : wordsRead[v] = 0 PROVE ArrivedBytes = [v \in Lanes |-> <<>>]
  OBVIOUS
<1>1. ASSUME NEW v \in Lanes PROVE BytesOf(wordsRead[v], compressedSize[v]) = 0
  <2>1. compressedSize[v] \in Nat
    BY StreamTypes DEF DataInv, StreamsInv, CountsInv
  <2>2. BytesOf(0, compressedSize[v]) \in Nat /\ BytesOf(0, compressedSize[v]) <= WordSize * 0 /\ WordSize \in Nat
    BY <2>1, BytesOfWords, LanesAssumption
  <2> QED BY <2>2
<1> QED BY <1>1, ArrivedBlocks, NoBytes

\* A call starts with a block for each lane, of which nothing has arrived.
LEMMA StartsTransfer ==
    ASSUME Init
    PROVE  Transfer!TransferInit
<1>1. compressedSize \in [Lanes -> OutSizes] /\ \A v \in Lanes : wordsRead[v] = 0
  BY DEF Init, PerLane
<1>2. ArrivedBytes = [v \in Lanes |-> <<>>]
  BY <1>1, DataInit, NothingArrived
<1> QED BY <1>1, <1>2, BlocksAreChosen DEF Transfer!TransferInit, ChosenBlocks, ArrivedBytes

\* A step that writes no word moves nothing of LaneTransfer.
LEMMA TransferStutters ==
    ASSUME DataInv, DataInv', UNCHANGED <<compressedSize, wordsRead>>
    PROVE  UNCHANGED <<ChosenBlocks, ArrivedBytes>>
BY ArrivedBlocks, ArrivedNext DEF ChosenBlocks, BlockBytes

\* A word written is the next bytes of its lane's block.
LEMMA GmemWriteDelivers ==
    ASSUME DataInv, DataInv', GmemWrite
    PROVE  Transfer!Deliver(i)
<1>1. /\ StreamsInv /\ TypeOK /\ i \in Lanes /\ BufferInv(i)
  BY DEF DataInv, StreamsInv, CountsInv, TypeOK, MmType, GmemWrite
<1>2. /\ compressedSize' = compressedSize /\ wordsRead' = [wordsRead EXCEPT ![i] = @ + 1]
      /\ wordsRead[i] < Len(outStreamV[i]) /\ wordsRead \in [Lanes -> Nat]
  BY <1>1 DEF GmemWrite, callVars, TypeOK, FifoType
<1> DEFINE w == wordsRead[i]  c == compressedSize[i]  m == BytesOf(w, c)  n == BytesOf(w + 1, c)
<1>3. w \in Nat /\ c \in Nat /\ WordSize * w < c
  BY <1>1, <1>2, StreamTypes, WordBegins
<1>4. /\ m \in Nat /\ n \in Nat /\ n <= c /\ n - m \in 1..WordSize
  <2>1. WordSize \in Nat \ {0} /\ WordSize * w \in Nat
    BY <1>3, LanesAssumption, ProductIsNat
  <2>2. w * WordSize = WordSize * w /\ (w + 1) * WordSize = WordSize * w + WordSize
    BY <1>3, <2>1, SMT
  <2> DEFINE x == WordSize * w
  <2>3. m = x /\ n = IF x + WordSize < c THEN x + WordSize ELSE c
    BY <1>3, <2>2 DEF BytesOf
  <2> HIDE DEF x, m, n
  <2>4. x \in Nat /\ x < c
    BY <1>3, <2>1 DEF x
  <2> QED BY <1>3, <2>1, <2>3, <2>4
<1> HIDE DEF w, c, m, n
<1>5. ArrivedBytes[i] = BlockBytes(i, m) /\ ChosenBlocks[i] = BlockBytes(i, c) /\ DOMAIN ArrivedBytes = Lanes
  BY <1>1, ArrivedBlocks DEF ChosenBlocks, m, w, c
<1>6. Len(ArrivedBytes[i]) = m /\ Len(ChosenBlocks[i]) = c /\ SubSeq(ChosenBlocks[i], 1, n) = BlockBytes(i, n)
  BY <1>1, <1>3, <1>4, <1>5, BlockPrefix
<1>7. ArrivedBytes' = [ArrivedBytes EXCEPT ![i] = BlockBytes(i, n)]
  <2>1. ASSUME NEW v \in Lanes
        PROVE  BlockBytes(v, BytesOf(wordsRead'[v], compressedSize'[v])) =
                   IF v = i THEN BlockBytes(i, n) ELSE ArrivedBytes[v]
    <3>1. CASE v = i
      BY <1>1, <1>2, <3>1 DEF n, w, c
    <3>2. CASE v # i
      BY <1>2, <3>2, ArrivedBlocks
    <3> QED BY <3>1, <3>2
  <2> DEFINE z == BlockBytes(i, n)
  <2>2. \A v \in Lanes : BlockBytes(v, BytesOf(wordsRead'[v], compressedSize'[v])) =
                             IF v = i THEN z ELSE ArrivedBytes[v]
    BY <2>1
  <2> HIDE DEF z
  <2>3. ArrivedBytes' = [ArrivedBytes EXCEPT ![i] = z]
    BY <1>5, <2>2, ArrivedNext
  <2> QED BY <2>3 DEF z
<1>8. ChosenBlocks' = ChosenBlocks
  BY <1>2 DEF ChosenBlocks, BlockBytes
<1>9. \E q \in 1..WordSize :
          /\ Len(ArrivedBytes[i]) + q <= Len(ChosenBlocks[i])
          /\ ArrivedBytes' = [ArrivedBytes EXCEPT ![i] = SubSeq(ChosenBlocks[i], 1, Len(ArrivedBytes[i]) + q)]
          /\ ChosenBlocks' = ChosenBlocks
  <2>1. PICK q \in 1..WordSize : q = n - m
    BY <1>4
  <2>2. m + q = n
    BY <1>4, <2>1
  <2> WITNESS q \in 1..WordSize
  <2> QED BY <1>4, <1>6, <1>7, <1>8, <2>2
<1> QED BY <1>9, Zenon DEF Transfer!Deliver, ChosenBlocks, ArrivedBytes

\* The next call: every block has arrived.
LEMMA NextCallIsAgain ==
    ASSUME DataInv, DataInv', NextCall
    PROVE  Transfer!Again
<1>1. ArrivedBytes = ChosenBlocks
  <2>1. ASSUME NEW v \in Lanes PROVE BytesOf(wordsRead[v], compressedSize[v]) = compressedSize[v]
    <3>1. /\ StreamsInv /\ TypeOK /\ BufferInv(v) /\ Returned
      BY DEF DataInv, StreamsInv, CountsInv, NextCall
    <3>2. wordsRead[v] = Words(compressedSize[v])
      BY <3>1, NothingLeft DEF BufferInv, Packing, Returned
    <3> DEFINE c == compressedSize[v]  w == Words(c)
    <3>3. c \in Nat /\ w \in Nat /\ c <= WordSize * w /\ WordSize * w \in Nat
      BY <3>1, StreamTypes, WordsHold
    <3>4. w * WordSize = WordSize * w
      BY <3>3, LanesAssumption, SMT
    <3> HIDE DEF w
    <3> QED BY <3>2, <3>3, <3>4 DEF BytesOf, w
  <2> QED BY <2>1, ArrivedBlocks DEF ChosenBlocks
<1>2. compressedSize' \in [Lanes -> OutSizes] /\ \A v \in Lanes : wordsRead'[v] = 0
  BY DEF NextCall, PerLane
<1>3. (compressedSize \in [Lanes -> OutSizes] => ChosenBlocks \in Transfer!BlockChoices)'
  BY BlocksAreChosen, PTL
<1>4. (DataInv /\ (\A v \in Lanes : wordsRead[v] = 0) => ArrivedBytes = [v \in Lanes |-> <<>>])'
  BY NothingArrived, PTL
<1>5. ChosenBlocks' \in Transfer!BlockChoices
  BY <1>2, <1>3, Zenon DEF Transfer!BlockChoices
<1>6. ArrivedBytes' = [v \in Lanes |-> <<>>]
  BY <1>2, <1>4
<1> QED BY <1>1, <1>5, <1>6, Zenon DEF Transfer!Again, ChosenBlocks, ArrivedBytes

LEMMA TransferSteps == DataInv /\ DataInv' /\ [Next]_vars => [Transfer!TransferNext]_(Transfer!tvars)
<1> SUFFICES ASSUME DataInv, DataInv', [Next]_vars PROVE [Transfer!TransferNext]_(Transfer!tvars)
  OBVIOUS
<1>1. ASSUME UNCHANGED <<compressedSize, wordsRead>> PROVE UNCHANGED Transfer!tvars
  BY <1>1, TransferStutters DEF Transfer!tvars, ChosenBlocks, ArrivedBytes
<1>2. CASE Skip \/ ReadSize \/ BurstWritten \/ ReadTotal
  BY <1>1, <1>2 DEF Skip, ReadSize, BurstWritten, ReadTotal, callVars, dataFifo
<1>3. CASE GmemWrite
  <2>1. i \in Lanes
    BY DEF DataInv, StreamsInv, CountsInv, TypeOK, MmType
  <2> QED BY <1>3, <2>1, GmemWriteDelivers DEF Transfer!TransferNext
<1>4. ASSUME NEW v \in Lanes, stream2mmUpsizer(v) PROVE UNCHANGED Transfer!tvars
  BY <1>1, <1>4 DEF stream2mmUpsizer, FirstByte, Upsize, EndOfStream, Flush, LastSize, ZeroSize,
                    PassOn, PutWord, PutSize, dataFifo, sizeFifo, callVars
<1>5. ASSUME NEW v \in Lanes, Core(v) PROVE UNCHANGED Transfer!tvars
  BY <1>1, <1>5 DEF Core, CoreByte, CoreTotal, CoreLast, dataFifo, callVars
<1>6. CASE NextCall
  BY <1>6, NextCallIsAgain DEF Transfer!TransferNext
<1>7. CASE UNCHANGED vars
  BY <1>1, <1>7 DEF vars, callVars, dataFifo
<1> QED BY <1>2, <1>3, <1>4, <1>5, <1>6, <1>7 DEF Next, multStream2mmSize

\* multStream2MM does nothing that LaneTransfer does not allow: whatever the
\* lanes, bursts, widths, depths and sizes, wherever the idle lanes would
\* write, and however upsizers and writer interleave, memory receives the bytes
\* of each lane in the lane's own place, in order and each once.
THEOREM TransferIsSafe == Spec => Transfer!TransferInit /\ [][Transfer!TransferNext]_(Transfer!tvars)
<1>1. Init => Transfer!TransferInit
  BY StartsTransfer
<1> QED BY <1>1, DataInvariance, TransferSteps, PTL DEF Spec
=============================================================================
