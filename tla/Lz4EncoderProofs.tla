--------------------------- MODULE Lz4EncoderProofs ---------------------------
(***************************************************************************)
(* Proofs about Lz4Encoder, for every size of block, depth of FIFO, literal*)
(* limit and width.  The invariants of the two processes are about what is *)
(* between them: the literals not yet covered by a record, and the input   *)
(* position each record stands for.                                        *)
(***************************************************************************)
EXTENDS Lz4Encoder, SequenceTheorems, WellFoundedInduction, TLAPS

-----------------------------------------------------------------------------
(* The inductive invariant *)

\* The literals written, and the input position reached, with the k-th record.
UpTo(k) == IF k = 0 THEN 0 ELSE recs[k].upto
Pos(k)  == IF k = 0 THEN 0 ELSE recs[k].pos

IsEnd(r)      == IsSpecialEnd(r) \/ IsNormalEnd(r)
IsMatchRec(r) == r.len \in 0..MaxMatch - MinMatch /\ r.off \in 1..MaxOffset

\* Consecutive records cover consecutive runs of literals, all of them written.
RunsInv ==
    \A k \in 1..Len(recs) : /\ recs[k].upto = UpTo(k - 1) + recs[k].lit
                            /\ recs[k].upto <= Len(lits)

\* A record of a match says where its match ends, short of the trailing
\* literals; one end record closes the block and nothing follows it.
RecordsInv ==
    \A k \in 1..Len(recs) :
        \/ /\ IsMatchRec(recs[k])
           /\ recs[k].pos = Pos(k - 1) + recs[k].lit + recs[k].len + MinMatch
           /\ recs[k].pos + LeftBytes <= input_size
        \/ /\ IsEnd(recs[k])
           /\ recs[k].lit >= 1
           /\ IsNormalEnd(recs[k]) => input_size <= Pos(k - 1) + recs[k].lit
           /\ k = Len(recs)
           /\ p1 = "done"

\* lit_count is the number of literals written and not covered by a record.
Part1Inv ==
    /\ p1 = "start" => /\ i = 0 /\ lit_count = 0 /\ lit_count_flag = 0
                       /\ lits = <<>> /\ recs = <<>>
    /\ p1 = "loop" => /\ i <= input_size /\ input_size > 0
                      /\ i < input_size => nextEncodedValue \in Offer(i)
                      /\ i = input_size => lit_count >= 1
                      /\ lit_count = Len(lits) - UpTo(Len(recs))
                      /\ lit_count <= MaxLitCount
                      /\ lit_count_flag = 0 => i = Pos(Len(recs)) + lit_count
                      /\ lit_count_flag = 1 => lit_count = MaxLitCount
    /\ p1 = "done" => \/ input_size = 0 /\ lits = <<>> /\ recs = <<>>
                      \/ /\ recs # <<>> /\ input_size > 0
                         /\ IsEnd(recs[Len(recs)])
                         /\ UpTo(Len(recs)) = Len(lits)

\* The input index Part2 has, or is about to have, after the record in hand.
IndexInv(idx) == /\ recsRead = 0 => idx = 0
                 /\ recsRead > 0 => /\ IsMatchRec(Cached) => idx = Pos(recsRead)
                                    /\ IsEnd(Cached) => idx >= input_size

\* Part2 between two sequences, before the literals of one, and after them.
BetweenInv == /\ next_state = "WRITE_TOKEN"
              /\ pending_idx_apply = FALSE
              /\ litsRead = UpTo(recsRead)
              /\ IndexInv(inIdx)
              /\ lit_ending <=> (recsRead > 0 /\ IsEnd(Cached))
TokenInv == /\ pending_idx_apply = FALSE
            /\ litsRead = UpTo(recsRead - 1)
            /\ inIdx = Pos(recsRead - 1)
            /\ lit_ending = FALSE
LiteralsInv == /\ write_lit_length >= 1
               /\ litsRead + write_lit_length = UpTo(recsRead)
               /\ lit_ending <=> IsEnd(Cached)
               /\ IndexInv(AppliedIdx)
MatchInv == /\ litsRead = UpTo(recsRead)
            /\ IsMatchRec(Cached)
            /\ lit_ending = FALSE
            /\ IndexInv(AppliedIdx)

Part2Inv ==
    /\ readOffsetFlag => BetweenInv
    /\ ~readOffsetFlag =>
        /\ recsRead >= 1
        /\ next_state = "WRITE_TOKEN" => TokenInv
        /\ next_state \in {"WRITE_LIT_LEN", "WRITE_LITERAL"} => LiteralsInv
        /\ next_state \in {"WRITE_OFFSET0", "WRITE_OFFSET1", "WRITE_MATCH_LEN"} => MatchInv
    /\ p2 = "done" => readOffsetFlag /\ inIdx >= input_size

IInv == TypeOK /\ RunsInv /\ RecordsInv /\ Part1Inv /\ Part2Inv

-----------------------------------------------------------------------------
(* Lemmas about the operators *)

\* A nibble never carries more than the length, and carries something of it.
LEMMA NibbleBounds ==
    ASSUME NEW n \in Nat
    PROVE  /\ Nibble(n) \in Nat /\ n - Nibble(n) \in Nat
           /\ Extended(n) \in BOOLEAN
           /\ Extended(n) => n >= 1
BY FormatAssumption DEF Nibble, Extended

\* Both halves of a distance are naturals.
LEMMA HalvesAreNat ==
    ASSUME NEW d \in Nat
    PROVE  LowHalf(d) \in Nat /\ HighHalf(d) \in Nat
<1>1. OffBase \in Nat /\ OffBase > 0
  BY FormatAssumption
<1>2. d % OffBase \in Nat /\ d \div OffBase \in Nat
  BY <1>1
<1>3. (d \div OffBase) % OffBase \in Nat
  BY <1>1, <1>2
<1> QED BY <1>2, <1>3 DEF LowHalf, HighHalf

\* The distance register holds a natural.
LEMMA DistanceIsNat ==
    ASSUME Cached.off \in Nat
    PROVE  Distance \in Nat
<1> DEFINE m == OffBase * OffBase
<1>1. m \in Nat /\ m > 0
  BY FormatAssumption, SMT
<1>2. Cached.off + 1 \in Nat
  OBVIOUS
<1> HIDE DEF m
<1>3. (Cached.off + 1) % m \in Nat
  BY <1>1, <1>2
<1> QED BY <1>3 DEF Distance, m

\* What goes through Emit keeps the output a sequence of bytes.
LEMMA EmitType ==
    ASSUME out \in Seq(Bytes), NEW byte \in Bytes, Emit(byte)
    PROVE  out' \in Seq(Bytes)
BY DEF Emit

\* The record in hand is a record.
LEMMA CachedType ==
    ASSUME TypeOK, recsRead >= 1
    PROVE  Cached \in Records
<1>1. recsRead \in 1..Len(recs) /\ recs \in Seq(Records)
  BY DEF TypeOK
<1> QED BY <1>1, ElementOfSeq DEF Cached

\* An offered item is a literal or a match that keeps off the trailing literals.
LEMMA OfferType ==
    ASSUME NEW p \in Nat, NEW item \in Offer(p), input_size \in Nat
    PROVE  /\ item \in {LiteralItem} \cup MatchItems
           /\ item.len \in Nat /\ item.off \in Nat
           /\ Advance(item) \in Nat /\ Advance(item) >= 1
           /\ item.len = 0 => Advance(item) = 1 /\ p < input_size
           /\ item.len > 0 => /\ Advance(item) = item.len
                              /\ item.len - MinMatch \in 0..MaxMatch - MinMatch
                              /\ item.off \in 1..MaxOffset
                              /\ p + item.len + LeftBytes <= input_size
BY LimitAssumption DEF Offer, LiteralItem, MatchItems, Advance, MinMatch

\* What appending a record to the FIFO keeps and adds.
LEMMA AppendRecord ==
    ASSUME recs \in Seq(Records), NEW r \in Records, recs' = Append(recs, r)
    PROVE  /\ recs' \in Seq(Records)
           /\ Len(recs) \in Nat
           /\ Len(recs') = Len(recs) + 1
           /\ \A k \in 1..Len(recs) : recs'[k] = recs[k]
           /\ recs'[Len(recs) + 1] = r
<1>1. Len(recs) \in Nat
  BY LenProperties
<1> QED BY <1>1, AppendProperties

-----------------------------------------------------------------------------
(* The initial states *)

\* The invariant holds when the first block starts.
LEMMA InitInv == Init => IInv
<1> SUFFICES ASSUME Init PROVE IInv
  OBVIOUS
<1>1. /\ lits = <<>> /\ recs = <<>> /\ out = <<>> /\ items = <<>>
      /\ Len(lits) = 0 /\ Len(recs) = 0 /\ recsRead = 0 /\ litsRead = 0
  BY DEF Init
<1>2. TypeOK
  <2>1. /\ lits \in Seq(Nat) /\ recs \in Seq(Records)
        /\ out \in Seq(Bytes) /\ items \in Seq(Nat \X Nat)
    BY <1>1, EmptySeq
  <2>2. litsRead \in 0..Len(lits) /\ recsRead \in 0..Len(recs)
    BY <1>1
  <2>3. next_state \in States
    BY DEF Init, States
  <2> QED BY <2>1, <2>2, <2>3 DEF Init, TypeOK
<1>3. RunsInv /\ RecordsInv
  BY <1>1 DEF RunsInv, RecordsInv
<1>4. Part1Inv
  BY <1>1 DEF Init, Part1Inv
<1>5. Part2Inv
  BY <1>1 DEF Init, Part2Inv, BetweenInv, IndexInv, UpTo
<1> QED BY <1>2, <1>3, <1>4, <1>5 DEF IInv

-----------------------------------------------------------------------------
(* The steps of lz4CompressPart1 *)

\* A step of Part1 leaves what Part2 relies on alone: the records Part2 has
\* read do not change when one is added behind them.
LEMMA Part2Kept ==
    ASSUME IInv,
           UNCHANGED <<input_size, litsRead, recsRead, p2vars>>,
           \/ UNCHANGED recs
           \/ \E r \in Records : recs' = Append(recs, r)
    PROVE  Part2Inv'
<1> USE DEF IInv
<1>1. /\ recs \in Seq(Records) /\ Len(recs) \in Nat
      /\ recsRead \in 0..Len(recs)
  BY LenProperties DEF TypeOK
<1>2. \A k \in 1..Len(recs) : recs'[k] = recs[k]
  BY AppendRecord, <1>1
<1>3. /\ recsRead \in Nat
      /\ recsRead' = recsRead
      /\ recsRead >= 1 => Cached' = Cached
      /\ UpTo(recsRead)' = UpTo(recsRead)
      /\ Pos(recsRead)' = Pos(recsRead)
      /\ recsRead >= 1 => UpTo(recsRead - 1)' = UpTo(recsRead - 1)
      /\ recsRead >= 1 => Pos(recsRead - 1)' = Pos(recsRead - 1)
  BY <1>1, <1>2 DEF Cached, UpTo, Pos
<1>4. UNCHANGED <<input_size, litsRead, p2, next_state, readOffsetFlag, inIdx,
                  pending_idx_apply, pending_idx_increment, lit_length,
                  write_lit_length, lit_ending, match_length, extra_match_len, out>>
  BY DEF p2vars, idxvars, litvars, mvars
<1>5. /\ (recsRead >= 1 /\ IsEnd(Cached))' <=> (recsRead >= 1 /\ IsEnd(Cached))
      /\ (recsRead >= 1 /\ IsMatchRec(Cached))' <=> (recsRead >= 1 /\ IsMatchRec(Cached))
  BY <1>3 DEF IsEnd, IsMatchRec, IsSpecialEnd, IsNormalEnd
<1>6. /\ IndexInv(inIdx) => IndexInv(inIdx)'
      /\ IndexInv(AppliedIdx) => IndexInv(AppliedIdx)'
  BY <1>3, <1>4, <1>5 DEF IndexInv, AppliedIdx
<1>7. BetweenInv => BetweenInv'
  BY <1>3, <1>4, <1>5, <1>6 DEF BetweenInv
<1>8. recsRead >= 1 => /\ TokenInv => TokenInv'
                       /\ LiteralsInv => LiteralsInv'
                       /\ MatchInv => MatchInv'
  BY <1>3, <1>4, <1>5, <1>6 DEF TokenInv, LiteralsInv, MatchInv
<1> QED BY <1>3, <1>4, <1>7, <1>8 DEF Part2Inv

\* What is common to the iterations of Part1's loop.
LEMMA IterateFacts ==
    ASSUME IInv, Iterate
    PROVE  /\ i \in Nat /\ i < input_size /\ input_size \in Nat
           /\ nextEncodedValue \in Offer(i)
           /\ i' \in Nat /\ i' <= input_size
           /\ i' = i + Advance(nextEncodedValue)
           /\ i' < input_size => nextEncodedValue' \in Offer(i')
           /\ nextEncodedValue' \in {LiteralItem} \cup MatchItems
           /\ items' \in Seq(Nat \X Nat)
<1> USE DEF IInv, Iterate
<1>1. i \in Nat /\ i < input_size /\ input_size \in Nat /\ nextEncodedValue \in Offer(i)
  BY SizesAssumption DEF TypeOK, Part1Inv
<1> DEFINE item == nextEncodedValue
<1>2. /\ item.len \in Nat /\ item.off \in Nat
      /\ Advance(item) \in Nat /\ Advance(item) >= 1
      /\ item.len = 0 => Advance(item) = 1
      /\ item.len > 0 => Advance(item) = item.len /\ i + item.len + LeftBytes <= input_size
  BY <1>1, OfferType
<1>3. i' = i + Advance(item) /\ i' \in Nat /\ i' <= input_size
  BY <1>1, <1>2, LimitAssumption
<1>4. i' < input_size => nextEncodedValue' \in Offer(i')
  <2>1. SUFFICES ASSUME i' < input_size PROVE i < input_size - 1
    BY <1>3
  <2> QED BY <1>1, <1>2, <1>3, <2>1
<1>5. nextEncodedValue' \in {LiteralItem} \cup MatchItems
  <2>1. CASE i < input_size - 1
    BY <2>1, <1>3, OfferType, <1>1
  <2>2. CASE ~(i < input_size - 1)
    BY <2>2 DEF TypeOK
  <2> QED BY <2>1, <2>2
<1>6. items' \in Seq(Nat \X Nat)
  <2> DEFINE entry == IF item.len > 0 THEN <<item.len, item.off + 1>> ELSE <<0, i>>
  <2>1. entry \in Nat \X Nat
    BY <1>1, <1>2
  <2>2. items \in Seq(Nat \X Nat) /\ items' = Append(items, entry)
    BY DEF TypeOK
  <2> HIDE DEF entry
  <2> QED BY <2>1, <2>2, AppendProperties
<1> QED BY <1>1, <1>3, <1>4, <1>5, <1>6

\* The two positions p1 can be in after adding a record.
LEMMA AddRecord ==
    ASSUME IInv, p1 = "loop", NEW r \in Records,
           recs' = Append(recs, r),
           UNCHANGED <<input_size, lits>>,
           r.lit = lit_count, r.upto = Len(lits),
           \/ /\ IsMatchRec(r)
              /\ r.pos = Pos(Len(recs)) + r.lit + r.len + MinMatch
              /\ r.pos + LeftBytes <= input_size
           \/ /\ IsEnd(r) /\ r.lit >= 1 /\ p1' = "done"
              /\ IsNormalEnd(r) => input_size <= Pos(Len(recs)) + r.lit
    PROVE  RunsInv' /\ RecordsInv'
<1> USE DEF IInv
<1> DEFINE n == Len(recs)
<1>1. /\ recs' \in Seq(Records) /\ n \in Nat /\ Len(recs') = n + 1
      /\ \A k \in 1..n : recs'[k] = recs[k]
      /\ recs'[n + 1] = r
      /\ \A k \in 1..n : recs[k] \in Records
      /\ Len(lits) \in Nat /\ lits' = lits /\ Len(lits') = Len(lits)
  BY AppendRecord, ElementOfSeq, LenProperties DEF TypeOK
<1>2. \A k \in 0..n : UpTo(k)' = UpTo(k) /\ Pos(k)' = Pos(k)
  BY <1>1 DEF UpTo, Pos
<1>3. lit_count = Len(lits) - UpTo(n) /\ lit_count \in Nat /\ UpTo(n) \in Nat
  <2>1. UpTo(n) \in Nat
    BY <1>1 DEF UpTo, Records
  <2> QED BY <2>1 DEF Part1Inv, TypeOK
<1>4. RunsInv'
  <2>1. \A k \in 1..n + 1 : recs'[k].upto = UpTo(k - 1)' + recs'[k].lit /\ recs'[k].upto <= Len(lits')
    <3> TAKE k \in 1..n + 1
    <3>1. CASE k \in 1..n
      BY <3>1, <1>1, <1>2 DEF RunsInv
    <3>2. CASE k = n + 1
      BY <3>2, <1>1, <1>2, <1>3
    <3> QED BY <3>1, <3>2, <1>1
  <2> QED BY <2>1, <1>1 DEF RunsInv
<1>5. RecordsInv'
  <2>1. ASSUME NEW k \in 1..n
        PROVE  /\ IsMatchRec(recs[k])
               /\ recs[k].pos = Pos(k - 1) + recs[k].lit + recs[k].len + MinMatch
               /\ recs[k].pos + LeftBytes <= input_size
    BY DEF RecordsInv
  <2>2. ASSUME NEW k \in 1..n
        PROVE  /\ IsMatchRec(recs'[k])
               /\ recs'[k].pos = Pos(k - 1)' + recs'[k].lit + recs'[k].len + MinMatch
               /\ recs'[k].pos + LeftBytes <= input_size'
    <3>1. recs'[k] = recs[k] /\ k - 1 \in 0..n
      BY <1>1
    <3> QED BY <2>1, <3>1, <1>2
  <2>3. ASSUME NEW k \in 1..n + 1, k = n + 1
        PROVE  \/ /\ IsMatchRec(recs'[k])
                  /\ recs'[k].pos = Pos(k - 1)' + recs'[k].lit + recs'[k].len + MinMatch
                  /\ recs'[k].pos + LeftBytes <= input_size'
               \/ /\ IsEnd(recs'[k])
                  /\ recs'[k].lit >= 1
                  /\ IsNormalEnd(recs'[k]) => input_size' <= Pos(k - 1)' + recs'[k].lit
                  /\ k = n + 1
                  /\ p1' = "done"
    <3>1. recs'[k] = r /\ k - 1 = n /\ Pos(k - 1)' = Pos(n) /\ input_size' = input_size
      BY <2>3, <1>1, <1>2
    <3> HIDE DEF n
    <3> QED BY <2>3, <3>1 DEF n
  <2>4. \A k \in 1..n + 1 : k \in 1..n \/ k = n + 1
    BY <1>1
  <2>5. Len(recs') = n + 1
    BY <1>1
  <2> HIDE DEF n
  <2> QED BY <2>2, <2>3, <2>4, <2>5 DEF RecordsInv, IsMatchRec, IsEnd, IsSpecialEnd, IsNormalEnd
<1> QED BY <1>4, <1>5

\* TypeOK speaks of Part2's registers as Part1 leaves them.
LEMMA Part1Types ==
    ASSUME TypeOK,
           UNCHANGED <<input_size, litsRead, recsRead, p2vars>>,
           p1' \in {"start", "loop", "done"},
           nextEncodedValue' \in {LiteralItem} \cup MatchItems,
           i' \in Nat, lit_count' \in Nat,
           lit_count_flag' \in {0, 1}, max_lit_limit' \in {0, 1},
           lits' \in Seq(Nat), Len(lits') >= Len(lits),
           recs' \in Seq(Records), Len(recs') >= Len(recs),
           items' \in Seq(Nat \X Nat)
    PROVE  TypeOK'
<1>1. litsRead' \in 0..Len(lits') /\ recsRead' \in 0..Len(recs')
  <2>1. Len(lits) \in Nat /\ Len(recs) \in Nat /\ Len(lits') \in Nat /\ Len(recs') \in Nat
    BY LenProperties DEF TypeOK
  <2> QED BY <2>1 DEF TypeOK
<1>2. UNCHANGED <<p2, next_state, readOffsetFlag, inIdx,
                  pending_idx_apply, pending_idx_increment, lit_length,
                  write_lit_length, lit_ending, match_length, extra_match_len, out>>
  BY DEF p2vars, idxvars, litvars, mvars
<1> QED BY <1>1, <1>2 DEF TypeOK

\* Every action of lz4CompressPart1 keeps the invariant.
LEMMA Part1Step == IInv /\ Part1 => IInv'
<1> SUFFICES ASSUME IInv, Part1 PROVE IInv'
  OBVIOUS
<1> USE DEF IInv
<1>t. /\ input_size \in Nat /\ i \in Nat /\ lit_count \in Nat
      /\ lits \in Seq(Nat) /\ recs \in Seq(Records)
      /\ Len(lits) \in Nat /\ Len(recs) \in Nat
      /\ Len(recs) > 0 => recs[Len(recs)] \in Records
      /\ UpTo(Len(recs)) \in Nat /\ Pos(Len(recs)) \in Nat
      /\ MaxLitCount \in Nat /\ MaxLitCount >= 1 /\ LeftBytes >= 1 /\ LeftBytes \in Nat
  <2>1. Len(recs) \in Nat /\ (Len(recs) > 0 => recs[Len(recs)] \in Records)
    BY LenProperties, ElementOfSeq DEF TypeOK
  <2>2. UpTo(Len(recs)) \in Nat /\ Pos(Len(recs)) \in Nat
    BY <2>1 DEF UpTo, Pos, Records
  <2>3. Len(lits) \in Nat
    BY LenProperties DEF TypeOK
  <2>4. /\ MaxLitCount \in Nat /\ MaxLitCount >= 1
        /\ LeftBytes >= 1 /\ LeftBytes \in Nat
    BY LimitAssumption
  <2> QED BY <2>1, <2>2, <2>3, <2>4, SizesAssumption DEF TypeOK
<1>1. CASE Return1
  <2>1. /\ lits' = <<>> /\ recs' = <<>> /\ lits' = lits /\ recs' = recs
        /\ input_size' = 0 /\ p1' = "done"
    BY <1>1 DEF Return1, Part1Inv
  <2>2. TypeOK'
    BY <1>1, <1>t, Part1Types DEF Return1, TypeOK
  <2>3. RunsInv' /\ RecordsInv'
    BY <2>1 DEF RunsInv, RecordsInv
  <2>4. Part1Inv'
    BY <2>1 DEF Part1Inv
  <2>5. Part2Inv'
    BY <1>1, Part2Kept DEF Return1
  <2> QED BY <2>2, <2>3, <2>4, <2>5
<1>2. CASE FirstRead
  <2>1. /\ lits' = <<>> /\ recs' = <<>> /\ lits' = lits /\ recs' = recs
        /\ Len(lits') = 0 /\ Len(recs') = 0
        /\ input_size' = input_size /\ p1' = "loop" /\ input_size > 0
        /\ i' = 0 /\ lit_count' = 0 /\ lit_count_flag' = 0
        /\ nextEncodedValue' \in Offer(0)
    BY <1>2, <1>t DEF FirstRead, Part1Inv
  <2>2. TypeOK'
    <3>1. nextEncodedValue' \in {LiteralItem} \cup MatchItems
      BY <2>1, <1>t, OfferType
    <3> QED BY <1>2, <1>t, <3>1, Part1Types DEF FirstRead, TypeOK
  <2>3. RunsInv' /\ RecordsInv'
    BY <2>1 DEF RunsInv, RecordsInv
  <2>4. Part1Inv'
    BY <2>1, <1>t DEF Part1Inv, UpTo, Pos, Offer
  <2>5. Part2Inv'
    BY <1>2, Part2Kept DEF FirstRead
  <2> QED BY <2>2, <2>3, <2>4, <2>5
<1>3. CASE DropItem
  <2>1. /\ Iterate /\ lit_count >= MaxLitCount /\ lit_count_flag' = 1
        /\ lit_count' = lit_count /\ lits' = lits /\ recs' = recs
        /\ p1 = "loop" /\ p1' = "loop" /\ input_size' = input_size
        /\ max_lit_limit' = max_lit_limit
        /\ UNCHANGED <<litsRead, recsRead, p2vars>>
    BY <1>3 DEF DropItem, Iterate
  <2>2. TypeOK'
    BY <2>1, <1>t, IterateFacts, Part1Types DEF TypeOK
  <2>3. RunsInv' /\ RecordsInv'
    BY <2>1 DEF RunsInv, RecordsInv, UpTo, Pos, IsMatchRec, IsEnd, IsSpecialEnd, IsNormalEnd
  <2>4. Part1Inv'
    BY <2>1, <1>t, IterateFacts DEF Part1Inv, UpTo, Pos, Offer
  <2>5. Part2Inv'
    BY <2>1, Part2Kept
  <2> QED BY <2>2, <2>3, <2>4, <2>5
<1>5. CASE EmitLiteral
  <2>1. /\ Iterate /\ lit_count < MaxLitCount /\ lit_count_flag' = lit_count_flag
        /\ nextEncodedValue.len = 0
        /\ lit_count' = lit_count + 1 /\ lits' = Append(lits, i) /\ recs' = recs
        /\ p1 = "loop" /\ p1' = "loop" /\ input_size' = input_size
        /\ max_lit_limit' = max_lit_limit
        /\ UNCHANGED <<litsRead, recsRead, p2vars>>
    BY <1>5 DEF EmitLiteral, Iterate
  <2>2. lits' \in Seq(Nat) /\ Len(lits') = Len(lits) + 1 /\ Len(lits') >= Len(lits)
    BY <2>1, <1>t, AppendProperties
  <2>3. TypeOK'
    <3>1. /\ lit_count' \in Nat /\ Len(recs') >= Len(recs) /\ recs' \in Seq(Records)
          /\ p1' \in {"start", "loop", "done"}
      BY <2>1, <1>t
    <3>2. lit_count_flag' \in {0, 1} /\ max_lit_limit' \in {0, 1}
      BY <2>1 DEF TypeOK
    <3> QED BY <2>1, <2>2, <3>1, <3>2, IterateFacts, Part1Types
  <2>4. RunsInv' /\ RecordsInv'
    <3>1. \A k \in 1..Len(recs) : recs[k].upto \in Nat
      <4> TAKE k \in 1..Len(recs)
      <4>1. recs[k] \in Records
        BY <1>t, ElementOfSeq
      <4> QED BY <4>1 DEF Records
    <3>2. RunsInv'
      <4>1. \A k \in 1..Len(recs) : UpTo(k - 1)' = UpTo(k - 1)
        BY <2>1 DEF UpTo
      <4>2. \A k \in 1..Len(recs) : recs[k].upto <= Len(lits) + 1
        BY <3>1, <1>t DEF RunsInv
      <4> QED BY <2>1, <2>2, <4>1, <4>2 DEF RunsInv
    <3>3. RecordsInv'
      BY <2>1 DEF RecordsInv, Pos, IsMatchRec, IsEnd, IsSpecialEnd, IsNormalEnd
    <3> QED BY <3>2, <3>3
  <2>5. Part1Inv'
    <3>1. i' = i + 1
      BY <2>1, IterateFacts, OfferType
    <3>2. lit_count_flag # 1
      BY <2>1, <1>t DEF Part1Inv
    <3>3. UpTo(Len(recs))' = UpTo(Len(recs)) /\ Pos(Len(recs))' = Pos(Len(recs))
      BY <2>1 DEF UpTo, Pos
    <3>4. i' < input_size' => nextEncodedValue' \in Offer(i)'
      BY <2>1, IterateFacts DEF Offer
    <3>5. lit_count' = Len(lits') - UpTo(Len(recs))'
      BY <2>1, <2>2, <3>3, <1>t DEF Part1Inv
    <3>6. lit_count_flag' = 0 => i' = Pos(Len(recs))' + lit_count'
      BY <2>1, <3>1, <3>3, <1>t DEF Part1Inv
    <3>7. i' <= input_size' /\ lit_count' >= 1 /\ lit_count' <= MaxLitCount
      BY <2>1, IterateFacts, <1>t
    <3> QED BY <2>1, <3>2, <3>4, <3>5, <3>6, <3>7 DEF Part1Inv
  <2>6. Part2Inv'
    BY <2>1, Part2Kept
  <2> QED BY <2>3, <2>4, <2>5, <2>6
<1>4. CASE EmitRecord
  <2> DEFINE item == nextEncodedValue
             r == Record(lit_count, item.len - MinMatch, item.off, Len(lits), i')
  <2>1. /\ Iterate /\ lit_count < MaxLitCount /\ lit_count_flag' = lit_count_flag
        /\ item.len > 0
        /\ lit_count' = 0 /\ lits' = lits /\ recs' = Append(recs, r)
        /\ p1 = "loop" /\ p1' = "loop" /\ input_size' = input_size
        /\ max_lit_limit' = max_lit_limit
        /\ UNCHANGED <<litsRead, recsRead, p2vars>>
    BY <1>4 DEF EmitRecord, Iterate
  <2>2. /\ item.len \in Nat /\ item.off \in Nat /\ i' = i + item.len /\ i' \in Nat
        /\ item.len - MinMatch \in 0..MaxMatch - MinMatch
        /\ item.off \in 1..MaxOffset
        /\ i' + LeftBytes <= input_size
    BY <2>1, <1>t, IterateFacts, OfferType
  <2>3. /\ r \in Records /\ r.lit = lit_count /\ r.upto = Len(lits) /\ r.pos = i'
        /\ r.len = item.len - MinMatch /\ r.off = item.off
    BY <2>2, <1>t, LimitAssumption DEF Record, Records, MinMatch
  <2>4. IsMatchRec(r)
    BY <2>2, <2>3 DEF IsMatchRec
  <2>5. lit_count_flag = 0 /\ i = Pos(Len(recs)) + lit_count
    <3>1. lit_count_flag # 1
      BY <2>1, <1>t DEF Part1Inv
    <3> QED BY <2>1, <3>1 DEF Part1Inv, TypeOK
  <2>6. r.pos = Pos(Len(recs)) + r.lit + r.len + MinMatch /\ r.pos + LeftBytes <= input_size
    <3>1. r.len + MinMatch = item.len
      BY <2>2, <2>3 DEF MinMatch
    <3> HIDE DEF r
    <3> QED BY <2>2, <2>3, <2>5, <3>1, <1>t DEF MinMatch
  <2>7. /\ recs' \in Seq(Records) /\ Len(recs') = Len(recs) + 1
        /\ recs'[Len(recs) + 1] = r
    <3> HIDE DEF r
    <3> QED BY <2>1, <2>3, <1>t, AppendRecord
  <2> HIDE DEF r
  <2>8. TypeOK'
    <3>1. /\ lit_count' \in Nat /\ Len(recs') >= Len(recs) /\ Len(lits') >= Len(lits)
          /\ lits' \in Seq(Nat) /\ p1' \in {"start", "loop", "done"}
      BY <2>1, <2>7, <1>t
    <3>2. lit_count_flag' \in {0, 1} /\ max_lit_limit' \in {0, 1}
      BY <2>1 DEF TypeOK
    <3> QED BY <2>1, <2>7, <3>1, <3>2, IterateFacts, Part1Types
  <2>9. RunsInv' /\ RecordsInv'
    BY <2>1, <2>3, <2>4, <2>6, AddRecord
  <2>10. Part1Inv'
    <3>1. UpTo(Len(recs))' = Len(lits) /\ Pos(Len(recs))' = i'
      BY <2>3, <2>7, <1>t DEF UpTo, Pos
    <3>2. i' < input_size
      BY <2>2, <1>t
    <3> QED BY <2>1, <2>5, <3>1, <3>2, <1>t, IterateFacts DEF Part1Inv, Offer
  <2>11. Part2Inv'
    BY <2>1, <2>3, Part2Kept
  <2> QED BY <2>8, <2>9, <2>10, <2>11
<1>6. CASE Finish1
  <2>1. /\ p1 = "loop" /\ p1' = "done" /\ i = input_size
        /\ lits' = lits /\ input_size' = input_size
        /\ nextEncodedValue' = nextEncodedValue /\ i' = i /\ lit_count' = lit_count
        /\ items' = items
        /\ max_lit_limit' = lit_count_flag'
        /\ UNCHANGED <<litsRead, recsRead, p2vars>>
    BY <1>6, <1>t DEF Finish1, Part1Inv
  <2>2. /\ lit_count >= 1 /\ lit_count = Len(lits) - UpTo(Len(recs))
        /\ lit_count <= MaxLitCount
        /\ lit_count_flag = 0 => i = Pos(Len(recs)) + lit_count
        /\ lit_count_flag = 1 => lit_count = MaxLitCount
    BY <2>1 DEF Part1Inv
  <2> DEFINE r == LastRecord
  <2>3. /\ recs' = Append(recs, r)
        /\ lit_count_flag' = IF Overflowed THEN 1 ELSE lit_count_flag
    BY <1>6, <2>2, <1>t DEF Finish1
  <2>4. /\ r \in Records /\ r.lit = lit_count /\ r.upto = Len(lits) /\ r.pos = i
        /\ IsEnd(r)
        /\ IsNormalEnd(r) => input_size <= Pos(Len(recs)) + r.lit
    <3>1. CASE Overflowed
      BY <3>1, <1>t DEF LastRecord, Record, Records, EndMark, IsEnd, IsSpecialEnd, IsNormalEnd
    <3>2. CASE ~Overflowed
      <4>1. lit_count_flag = 0
        BY <3>2, <2>2 DEF Overflowed, TypeOK
      <4>2. r = Record(lit_count, 0, 0, Len(lits), i)
        BY <3>2 DEF LastRecord
      <4> QED BY <4>1, <4>2, <2>1, <2>2, <1>t DEF Record, Records, IsEnd, IsSpecialEnd, IsNormalEnd
    <3> QED BY <3>1, <3>2
  <2> HIDE DEF r
  <2>5. /\ recs' \in Seq(Records) /\ Len(recs') = Len(recs) + 1
        /\ recs'[Len(recs) + 1] = r
    BY <2>3, <2>4, <1>t, AppendRecord
  <2>6. TypeOK'
    <3>1. lit_count_flag' \in {0, 1} /\ max_lit_limit' \in {0, 1}
      BY <2>1, <2>3 DEF TypeOK
    <3>2. Len(recs') >= Len(recs) /\ Len(lits') >= Len(lits)
      BY <2>1, <2>5, <1>t
    <3> QED BY <2>1, <2>5, <3>1, <3>2, <1>t, Part1Types DEF TypeOK
  <2>7. RunsInv' /\ RecordsInv'
    BY <2>1, <2>2, <2>3, <2>4, AddRecord
  <2>8. Part1Inv'
    <3>1. recs' # <<>> /\ UpTo(Len(recs))' = Len(lits) /\ IsEnd(recs'[Len(recs')])
      BY <2>4, <2>5, <1>t DEF UpTo
    <3>2. input_size' > 0
      BY <2>1 DEF Part1Inv
    <3> QED BY <2>1, <3>1, <3>2 DEF Part1Inv, IsEnd, IsSpecialEnd, IsNormalEnd
  <2>9. Part2Inv'
    BY <2>1, <2>3, <2>4, Part2Kept
  <2> QED BY <2>6, <2>7, <2>8, <2>9
<1> QED BY <1>1, <1>2, <1>3, <1>4, <1>5, <1>6 DEF Part1

-----------------------------------------------------------------------------
(* The steps of lz4CompressPart2 *)

\* A step of Part2 leaves what Part1's invariant is about alone.
LEMMA Part1Kept ==
    ASSUME IInv, UNCHANGED <<input_size, p1vars, lits, recs>>
    PROVE  RunsInv' /\ RecordsInv' /\ Part1Inv'
<1>1. UNCHANGED <<input_size, p1, i, nextEncodedValue, lit_count, lit_count_flag, lits, recs>>
  BY DEF p1vars
<1>2. RunsInv'
  BY <1>1 DEF IInv, RunsInv, UpTo
<1>3. RecordsInv'
  BY <1>1 DEF IInv, RecordsInv, Pos, IsMatchRec, IsEnd, IsSpecialEnd, IsNormalEnd
<1>4. Part1Inv'
  BY <1>1 DEF IInv, Part1Inv, UpTo, Pos, Offer, IsEnd, IsSpecialEnd, IsNormalEnd
<1> QED BY <1>2, <1>3, <1>4

\* TypeOK speaks of Part1's registers as Part2 leaves them.
LEMMA Part2Types ==
    ASSUME TypeOK, UNCHANGED <<input_size, p1vars, lits, recs>>,
           litsRead' \in 0..Len(lits), recsRead' \in 0..Len(recs),
           p2' \in {"run", "done"}, next_state' \in States,
           readOffsetFlag' \in BOOLEAN, inIdx' \in Nat,
           pending_idx_apply' \in BOOLEAN, pending_idx_increment' \in Nat,
           lit_length' \in Nat, match_length' \in Nat, write_lit_length' \in Nat,
           lit_ending' \in BOOLEAN, extra_match_len' \in BOOLEAN,
           out' \in Seq(Bytes)
    PROVE  TypeOK'
<1>1. UNCHANGED <<p1, i, nextEncodedValue, lit_count, lit_count_flag, max_lit_limit, items>>
  BY DEF p1vars
<1> QED BY <1>1 DEF TypeOK

\* The record in hand, seen by Part2.
LEMMA CachedFacts ==
    ASSUME IInv, recsRead >= 1
    PROVE  /\ recsRead \in 1..Len(recs) /\ Len(recs) \in Nat
           /\ Cached.lit \in Nat /\ Cached.len \in Nat /\ Cached.off \in Nat
           /\ UpTo(recsRead) = UpTo(recsRead - 1) + Cached.lit
           /\ UpTo(recsRead) \in Nat /\ UpTo(recsRead - 1) \in Nat
           /\ Pos(recsRead - 1) \in Nat /\ Pos(recsRead) = Cached.pos
           /\ IsMatchRec(Cached) => ~IsEnd(Cached)
           /\ \/ /\ IsMatchRec(Cached)
                 /\ Pos(recsRead) = Pos(recsRead - 1) + Cached.lit + Cached.len + MinMatch
                 /\ Pos(recsRead) < input_size
              \/ /\ IsEnd(Cached)
                 /\ Cached.lit >= 1
                 /\ IsNormalEnd(Cached) => input_size <= Pos(recsRead - 1) + Cached.lit
                 /\ recsRead = Len(recs)
                 /\ p1 = "done"
<1> USE DEF IInv
<1>1. recsRead \in 1..Len(recs) /\ Len(recs) \in Nat /\ Cached = recs[recsRead]
  BY LenProperties DEF TypeOK, Cached
<1>2. Cached \in Records
  BY CachedType
<1>3. recsRead - 1 > 0 => recs[recsRead - 1] \in Records
  BY <1>1, ElementOfSeq DEF TypeOK
<1>4. /\ UpTo(recsRead - 1) \in Nat /\ UpTo(recsRead) = Cached.upto
      /\ Pos(recsRead - 1) \in Nat /\ Pos(recsRead) = Cached.pos
  BY <1>1, <1>2, <1>3 DEF UpTo, Pos, Records
<1>5. Cached.lit \in Nat /\ Cached.len \in Nat /\ Cached.off \in Nat
      /\ Cached.upto \in Nat /\ Cached.pos \in Nat
  BY <1>2 DEF Records
<1>6. UpTo(recsRead) = UpTo(recsRead - 1) + Cached.lit
  BY <1>1, <1>4 DEF RunsInv
<1>7. IsMatchRec(Cached) => ~IsEnd(Cached)
  <2>1. SUFFICES ASSUME IsMatchRec(Cached) PROVE Cached.len < EndMark /\ Cached.off # 0
    BY <1>5 DEF IsEnd, IsSpecialEnd, IsNormalEnd, EndMark
  <2>2. Cached.len <= MaxMatch - MinMatch /\ Cached.off >= 1
    BY <2>1, <1>5, LimitAssumption DEF IsMatchRec
  <2>3. MaxMatch <= 255 /\ MaxMatch \in Int
    BY LimitAssumption DEF MinMatch
  <2> QED BY <2>2, <2>3, <1>5 DEF MinMatch, EndMark
<1>8. input_size \in Nat /\ LeftBytes \in Nat /\ LeftBytes >= 1
  BY SizesAssumption, LimitAssumption DEF TypeOK
<1> QED BY <1>1, <1>4, <1>5, <1>6, <1>7, <1>8 DEF RecordsInv

\* Applying the delayed increment does not change what the index will be.
LEMMA ApplyKeeps ==
    ASSUME ApplyPending, pending_idx_apply \in BOOLEAN
    PROVE  AppliedIdx' = AppliedIdx /\ inIdx' = AppliedIdx /\ pending_idx_apply' = FALSE
BY DEF ApplyPending, AppliedIdx

\* The index after the record in hand, when neither record nor index changes.
LEMMA IndexKept ==
    ASSUME UNCHANGED <<input_size, recs, recsRead>>
    PROVE  /\ IndexInv(AppliedIdx) /\ AppliedIdx' = AppliedIdx => IndexInv(AppliedIdx)'
           /\ IndexInv(AppliedIdx) /\ inIdx' = AppliedIdx => IndexInv(inIdx)'
BY DEF IndexInv, Cached, Pos, IsMatchRec, IsEnd, IsSpecialEnd, IsNormalEnd

\* Every action of lz4CompressPart2 keeps the invariant.
LEMMA Part2Step == IInv /\ Part2 => IInv'
<1> SUFFICES ASSUME IInv, Part2 PROVE IInv'
  OBVIOUS
<1> USE DEF IInv
<1>t. /\ input_size \in Nat /\ inIdx \in Nat /\ AppliedIdx \in Nat
      /\ Len(lits) \in Nat /\ litsRead \in 0..Len(lits)
      /\ Len(recs) \in Nat /\ recsRead \in 0..Len(recs) /\ recsRead \in Nat
      /\ pending_idx_apply \in BOOLEAN /\ pending_idx_increment \in Nat
      /\ lit_length \in Nat /\ match_length \in Nat /\ write_lit_length \in Nat
      /\ readOffsetFlag \in BOOLEAN /\ lit_ending \in BOOLEAN /\ extra_match_len \in BOOLEAN
      /\ p2 \in {"run", "done"} /\ next_state \in States /\ out \in Seq(Bytes)
  <2>1. Len(lits) \in Nat /\ Len(recs) \in Nat
    BY LenProperties DEF TypeOK
  <2> QED BY <2>1, SizesAssumption DEF TypeOK, AppliedIdx
<1>l. LenMax \in Nat /\ LenMax \in 1..LenMax
  BY FormatAssumption
<1>1. CASE ReadRecord
  <2>1. /\ readOffsetFlag = TRUE /\ recsRead < Len(recs) /\ recsRead' = recsRead + 1
        /\ readOffsetFlag' = FALSE /\ p2 = "run" /\ recs' = recs
        /\ UNCHANGED <<input_size, p1vars, lits, recs, litsRead>>
        /\ UNCHANGED <<p2, next_state, inIdx, pending_idx_apply, pending_idx_increment,
                       lit_length, write_lit_length, lit_ending, match_length,
                       extra_match_len, out>>
    BY <1>1, <1>t DEF ReadRecord, Busy, idxvars, litvars, mvars
  <2>2. TypeOK'
    <3>1. recsRead' \in 0..Len(recs)
      BY <2>1, <1>t
    <3>2. /\ litsRead' \in 0..Len(lits) /\ inIdx' \in Nat
          /\ pending_idx_apply' \in BOOLEAN /\ pending_idx_increment' \in Nat
          /\ lit_length' \in Nat /\ match_length' \in Nat /\ write_lit_length' \in Nat
          /\ lit_ending' \in BOOLEAN /\ extra_match_len' \in BOOLEAN
          /\ out' \in Seq(Bytes) /\ p2' \in {"run", "done"} /\ next_state' \in States
      BY <2>1, <1>t
    <3>3. readOffsetFlag' \in BOOLEAN
      BY <2>1
    <3> QED BY <2>1, <3>1, <3>2, <3>3, Part2Types
  <2>3. BetweenInv
    BY <2>1 DEF Part2Inv
  <2>4. recsRead > 0 => /\ IsMatchRec(Cached) /\ ~IsEnd(Cached)
    BY <2>1, <1>t, CachedFacts
  <2>5. lit_ending = FALSE /\ inIdx = Pos(recsRead)
    BY <2>3, <2>4, <1>t DEF BetweenInv, IndexInv, Pos
  <2>6. TokenInv'
    <3>1. (recsRead - 1)' = recsRead
      BY <2>1, <1>t
    <3>2. UpTo(recsRead - 1)' = UpTo(recsRead) /\ Pos(recsRead - 1)' = Pos(recsRead)
      BY <2>1, <3>1 DEF UpTo, Pos
    <3> QED BY <2>1, <2>3, <2>5, <3>2 DEF TokenInv, BetweenInv
  <2>7. Part2Inv'
    BY <2>1, <2>3, <2>6, <1>t DEF Part2Inv, BetweenInv
  <2> QED BY <2>1, <2>2, <2>7, Part1Kept
<1>s. ASSUME NEW s, InState(s)
      PROVE  /\ readOffsetFlag = FALSE /\ next_state = s /\ p2 = "run" /\ p2' = "run"
             /\ recsRead >= 1
             /\ UNCHANGED <<input_size, p1vars, lits, recs, recsRead>>
             /\ Cached' = Cached /\ UpTo(recsRead)' = UpTo(recsRead)
             /\ (IsEnd(Cached))' <=> IsEnd(Cached)
             /\ (IsMatchRec(Cached))' <=> IsMatchRec(Cached)
  <2>1. readOffsetFlag = FALSE /\ UNCHANGED <<input_size, p1vars, lits, recs, recsRead>>
    BY <1>s, <1>t DEF InState
  <2>2. Cached' = Cached /\ UpTo(recsRead)' = UpTo(recsRead)
    BY <2>1 DEF Cached, UpTo
  <2>3. recsRead >= 1
    BY <2>1 DEF Part2Inv
  <2> QED BY <1>s, <2>1, <2>2, <2>3 DEF InState, Busy, IsEnd, IsMatchRec, IsSpecialEnd, IsNormalEnd
\* what every case is left to show
<1>q. ASSUME UNCHANGED <<input_size, p1vars, lits, recs, recsRead>>,
             litsRead' \in 0..Len(lits), p2' \in {"run", "done"}, next_state' \in States,
             readOffsetFlag' \in BOOLEAN, inIdx' \in Nat,
             pending_idx_apply' \in BOOLEAN, pending_idx_increment' \in Nat,
             lit_length' \in Nat, match_length' \in Nat, write_lit_length' \in Nat,
             lit_ending' \in BOOLEAN, extra_match_len' \in BOOLEAN,
             out' \in Seq(Bytes), Part2Inv'
      PROVE  IInv'
  <2>1. recsRead' \in 0..Len(recs)
    BY <1>q, <1>t
  <2>2. TypeOK'
    BY <1>q, <2>1, Part2Types
  <2> QED BY <1>q, <2>2, Part1Kept
<1>2. CASE WriteToken
  <2>1. InState("WRITE_TOKEN") /\ litsRead' = litsRead
    BY <1>2 DEF WriteToken
  <2>2. /\ recsRead >= 1 /\ Cached' = Cached /\ UpTo(recsRead)' = UpTo(recsRead)
        /\ p2' = "run" /\ readOffsetFlag = FALSE /\ next_state = "WRITE_TOKEN"
        /\ UNCHANGED <<input_size, p1vars, lits, recs, recsRead>>
        /\ (IsEnd(Cached))' <=> IsEnd(Cached)
        /\ (IsMatchRec(Cached))' <=> IsMatchRec(Cached)
    BY <2>1, <1>s
  <2>3. TokenInv
    BY <2>2 DEF Part2Inv
  <2>4. AppliedIdx = Pos(recsRead - 1) /\ litsRead = UpTo(recsRead - 1) /\ lit_ending = FALSE
    BY <2>3 DEF TokenInv, AppliedIdx
  <2>5. /\ inIdx' = IF IsSpecialEnd(Cached) THEN input_size ELSE AppliedIdx
        /\ pending_idx_apply' = TRUE
        /\ pending_idx_increment' = Cached.len + Cached.lit + MinMatch
        /\ lit_ending' <=> IsEnd(Cached)
        /\ write_lit_length' = Cached.lit
        /\ readOffsetFlag' = FALSE
        /\ next_state' = IF Extended(Cached.lit) THEN "WRITE_LIT_LEN"
                         ELSE IF Cached.lit > 0 THEN "WRITE_LITERAL" ELSE "WRITE_OFFSET0"
    BY <1>2, <2>4 DEF WriteToken, Goto, IsEnd
  <2>6. /\ inIdx' \in Nat /\ pending_idx_increment' \in Nat /\ write_lit_length' \in Nat
        /\ next_state' \in States /\ lit_ending' \in BOOLEAN
    <3>1. lit_ending' \in BOOLEAN
      BY <1>2, <2>4 DEF WriteToken, IsSpecialEnd, IsNormalEnd
    <3>2. Cached.lit \in Nat /\ Cached.len \in Nat
      BY <2>2, CachedFacts
    <3>3. next_state' \in States
      BY <2>5 DEF States
    <3>4. Cached.len + Cached.lit + MinMatch \in Nat
      BY <3>2 DEF MinMatch
    <3>5. inIdx' \in Nat
      BY <2>5, <1>t
    <3> QED BY <2>5, <3>1, <3>2, <3>3, <3>4, <3>5
  <2>7. /\ lit_length' \in Nat /\ match_length' \in Nat /\ extra_match_len' \in BOOLEAN
        /\ Token(Nibble(Cached.lit), Nibble(Cached.len)) \in Bytes
    BY <1>2, <2>2, CachedFacts, NibbleBounds DEF WriteToken, Token, Bytes
  <2>8. out' \in Seq(Bytes)
    BY <1>2, <2>7, <1>t, EmitType DEF WriteToken
  <2>9. IndexInv(AppliedIdx)'
    <3>1. AppliedIdx' = inIdx' + (Cached.len + Cached.lit + MinMatch)
      BY <2>5 DEF AppliedIdx
    <3>2. Pos(recsRead)' = Pos(recsRead) /\ input_size' = input_size /\ recsRead' = recsRead
      BY <2>2 DEF Pos
    <3>3. CASE IsMatchRec(Cached)
      <4>1. ~IsEnd(Cached) /\ inIdx' = Pos(recsRead - 1)
        BY <3>3, <2>2, <2>4, <2>5, CachedFacts DEF IsEnd
      <4>2. AppliedIdx' = Pos(recsRead)
        BY <4>1, <3>1, <3>3, <2>2, CachedFacts DEF MinMatch
      <4> QED BY <4>1, <4>2, <3>2, <2>2 DEF IndexInv
    <3>4. CASE ~IsMatchRec(Cached)
      <4>1. AppliedIdx' >= input_size
        <5>1. Cached.lit \in Nat /\ Cached.len \in Nat /\ IsEnd(Cached)
              /\ (IsNormalEnd(Cached) => input_size <= Pos(recsRead - 1) + Cached.lit)
          BY <3>4, <2>2, CachedFacts
        <5>2. CASE IsSpecialEnd(Cached)
          BY <5>1, <5>2, <3>1, <2>5, <1>t DEF MinMatch
        <5>3. CASE ~IsSpecialEnd(Cached)
          <6>1. IsNormalEnd(Cached) /\ inIdx' = Pos(recsRead - 1)
            BY <5>1, <5>3, <2>4, <2>5 DEF IsEnd
          <6> QED BY <5>1, <6>1, <3>1, <2>6, <1>t DEF MinMatch
        <5> QED BY <5>2, <5>3
      <4> QED BY <4>1, <3>2, <3>4, <2>2, <1>t DEF IndexInv
    <3> QED BY <3>3, <3>4
  <2>10. CASE Cached.lit > 0
    <3>1. LiteralsInv'
      BY <2>10, <2>2, <2>4, <2>5, <2>9, <2>1, CachedFacts DEF LiteralsInv
    <3>2. next_state' \in {"WRITE_LIT_LEN", "WRITE_LITERAL"}
      BY <2>10, <2>5
    <3>3. Part2Inv'
      BY <3>1, <3>2, <2>2, <2>5 DEF Part2Inv
    <3> QED BY <1>q, <1>t, <3>3, <2>1, <2>2, <2>5, <2>6, <2>7, <2>8
  <2>11. CASE ~(Cached.lit > 0)
    <3>1. IsMatchRec(Cached) /\ ~IsEnd(Cached) /\ UpTo(recsRead) = UpTo(recsRead - 1)
      BY <2>11, <2>2, CachedFacts
    <3>2. next_state' = "WRITE_OFFSET0"
      <4>1. Cached.lit \in Nat
        BY <2>2, CachedFacts
      <4>2. ~Extended(Cached.lit)
        BY <4>1, <2>11, FormatAssumption DEF Extended
      <4> QED BY <2>5, <2>11, <4>2
    <3>3. MatchInv'
      BY <3>1, <2>1, <2>2, <2>4, <2>5, <2>6, <2>9 DEF MatchInv
    <3>4. Part2Inv'
      BY <3>2, <3>3, <2>2, <2>5 DEF Part2Inv
    <3> QED BY <1>q, <1>t, <3>4, <2>1, <2>2, <2>5, <2>6, <2>7, <2>8
  <2> QED BY <2>10, <2>11
<1>3. CASE WriteLitLen
  <2>1. /\ InState("WRITE_LIT_LEN") /\ ApplyPending
        /\ UNCHANGED <<write_lit_length, lit_ending, match_length, extra_match_len, litsRead>>
    BY <1>3 DEF WriteLitLen, mvars
  <2>2. /\ recsRead >= 1 /\ Cached' = Cached /\ UpTo(recsRead)' = UpTo(recsRead)
        /\ p2' = "run" /\ readOffsetFlag = FALSE /\ next_state = "WRITE_LIT_LEN"
        /\ UNCHANGED <<input_size, p1vars, lits, recs, recsRead>>
        /\ (IsEnd(Cached))' <=> IsEnd(Cached)
    BY <2>1, <1>s
  <2>3. LiteralsInv
    BY <2>2 DEF Part2Inv
  <2>4. AppliedIdx' = AppliedIdx /\ inIdx' \in Nat /\ pending_idx_apply' \in BOOLEAN
        /\ pending_idx_increment' \in Nat
    BY <2>1, <1>t, ApplyKeeps DEF ApplyPending
  <2>5. /\ readOffsetFlag' = FALSE
        /\ next_state' \in {"WRITE_LIT_LEN", "WRITE_LITERAL"}
        /\ lit_length' \in Nat
    BY <1>3, <2>2, <1>t, <1>l DEF WriteLitLen, Goto
  <2>6. out' \in Seq(Bytes)
    <3>1. LenByte(LenMax) \in Bytes /\ LenByte(lit_length) \in Bytes
      BY <1>t, <1>l DEF LenByte, Bytes
    <3> QED BY <1>3, <3>1, <1>t, EmitType DEF WriteLitLen
  <2>7. LiteralsInv'
    <3>1. IndexInv(AppliedIdx)'
      BY <2>2, <2>3, <2>4, IndexKept DEF LiteralsInv
    <3> QED BY <2>1, <2>2, <2>3, <3>1 DEF LiteralsInv
  <2>8. Part2Inv'
    BY <2>2, <2>5, <2>7 DEF Part2Inv
  <2> QED BY <1>q, <1>t, <2>1, <2>2, <2>4, <2>5, <2>6, <2>8 DEF States
<1>4. CASE WriteLiteral
  <2>1. /\ InState("WRITE_LITERAL") /\ ApplyPending
        /\ litsRead < Len(lits) /\ litsRead' = litsRead + 1
        /\ write_lit_length' = write_lit_length - 1
        /\ UNCHANGED <<lit_length, lit_ending, match_length, extra_match_len>>
        /\ Emit(Literal(lits[litsRead + 1]))
    BY <1>4 DEF WriteLiteral, mvars
  <2>2. /\ recsRead >= 1 /\ Cached' = Cached /\ UpTo(recsRead)' = UpTo(recsRead)
        /\ p2 = "run" /\ p2' = "run" /\ readOffsetFlag = FALSE /\ next_state = "WRITE_LITERAL"
        /\ UNCHANGED <<input_size, p1vars, lits, recs, recsRead>>
        /\ (IsEnd(Cached))' <=> IsEnd(Cached)
        /\ (IsMatchRec(Cached))' <=> IsMatchRec(Cached)
    BY <2>1, <1>s
  <2>3. LiteralsInv
    BY <2>2 DEF Part2Inv
  <2>4. /\ AppliedIdx' = AppliedIdx /\ inIdx' = AppliedIdx /\ inIdx' \in Nat
        /\ pending_idx_apply' = FALSE /\ pending_idx_increment' \in Nat
    BY <2>1, <1>t, ApplyKeeps DEF ApplyPending
  <2>5. out' \in Seq(Bytes)
    <3>1. lits[litsRead + 1] \in Nat
      BY <2>1, <1>t, ElementOfSeq DEF TypeOK
    <3>2. Literal(lits[litsRead + 1]) \in Bytes
      BY <3>1 DEF Literal, Bytes
    <3> QED BY <2>1, <3>2, <1>t, EmitType
  <2>6. litsRead' \in 0..Len(lits) /\ write_lit_length' \in Nat
    BY <2>1, <2>3, <1>t DEF LiteralsInv
  <2>7. IndexInv(AppliedIdx)' /\ IndexInv(inIdx)'
    BY <2>2, <2>3, <2>4, IndexKept DEF LiteralsInv
  <2>8. litsRead' + write_lit_length' = UpTo(recsRead)
    BY <2>1, <2>3, <1>t DEF LiteralsInv
  <2>9. CASE write_lit_length # 1
    <3>1. readOffsetFlag' = FALSE /\ next_state' = "WRITE_LITERAL"
      BY <1>4, <2>2, <2>9 DEF WriteLiteral
    <3>2. LiteralsInv'
      BY <2>1, <2>2, <2>3, <2>7, <2>8, <2>9, <1>t DEF LiteralsInv
    <3>3. Part2Inv'
      BY <3>1, <3>2, <2>2 DEF Part2Inv
    <3> QED BY <1>q, <1>t, <2>1, <2>2, <2>4, <2>5, <2>6, <3>1, <3>3 DEF States
  <2>10. CASE write_lit_length = 1 /\ lit_ending
    <3>1. readOffsetFlag' = TRUE /\ next_state' = "WRITE_TOKEN"
      BY <1>4, <2>10 DEF WriteLiteral, AfterLiterals, Goto
    <3>2. litsRead' = UpTo(recsRead)'
      BY <2>1, <2>2, <2>8, <2>10, <1>t
    <3>3. BetweenInv'
      BY <3>1, <3>2, <2>1, <2>2, <2>3, <2>4, <2>7, <2>10, <1>t DEF BetweenInv, LiteralsInv
    <3>4. Part2Inv'
      BY <3>1, <3>3, <2>2 DEF Part2Inv
    <3> QED BY <1>q, <1>t, <2>1, <2>2, <2>4, <2>5, <2>6, <3>1, <3>4 DEF States
  <2>11. CASE write_lit_length = 1 /\ ~lit_ending
    <3>1. readOffsetFlag' = FALSE /\ next_state' = "WRITE_OFFSET0"
      BY <1>4, <2>11 DEF WriteLiteral, AfterLiterals, Goto
    <3>2. litsRead' = UpTo(recsRead)'
      BY <2>1, <2>2, <2>8, <2>11, <1>t
    <3>3. IsMatchRec(Cached) /\ lit_ending' = FALSE
      BY <2>1, <2>2, <2>3, <2>11, <1>t, CachedFacts DEF LiteralsInv
    <3>4. MatchInv'
      BY <3>2, <3>3, <2>2, <2>7 DEF MatchInv
    <3>5. Part2Inv'
      BY <3>1, <3>4, <2>2 DEF Part2Inv
    <3> QED BY <1>q, <1>t, <2>1, <2>2, <2>4, <2>5, <2>6, <3>1, <3>5 DEF States
  <2> QED BY <2>9, <2>10, <2>11
\* The states after the literals differ in the byte and in the next state only.
<1>m. ASSUME NEW s \in {"WRITE_OFFSET0", "WRITE_OFFSET1", "WRITE_MATCH_LEN"}, InState(s),
             ApplyPending, litsRead' = litsRead,
             UNCHANGED litvars,
             match_length' \in Nat, extra_match_len' \in BOOLEAN, out' \in Seq(Bytes),
             \/ /\ readOffsetFlag' = TRUE /\ next_state' = "WRITE_TOKEN"
             \/ /\ readOffsetFlag' = FALSE
                /\ next_state' \in {"WRITE_OFFSET1", "WRITE_MATCH_LEN"}
      PROVE  IInv'
  <2>1. /\ recsRead >= 1 /\ Cached' = Cached /\ UpTo(recsRead)' = UpTo(recsRead)
        /\ p2 = "run" /\ p2' = "run" /\ readOffsetFlag = FALSE /\ next_state = s
        /\ UNCHANGED <<input_size, p1vars, lits, recs, recsRead>>
        /\ (IsEnd(Cached))' <=> IsEnd(Cached)
        /\ (IsMatchRec(Cached))' <=> IsMatchRec(Cached)
    BY <1>m, <1>s
  <2>2. MatchInv
    BY <1>m, <2>1 DEF Part2Inv
  <2>3. /\ AppliedIdx' = AppliedIdx /\ inIdx' = AppliedIdx /\ inIdx' \in Nat
        /\ pending_idx_apply' = FALSE /\ pending_idx_increment' \in Nat
    BY <1>m, <1>t, ApplyKeeps DEF ApplyPending
  <2>4. IndexInv(AppliedIdx)' /\ IndexInv(inIdx)'
    BY <2>1, <2>2, <2>3, IndexKept DEF MatchInv
  <2>5. lit_length' \in Nat /\ write_lit_length' \in Nat /\ lit_ending' = lit_ending
        /\ lit_ending' \in BOOLEAN
    BY <1>m, <1>t DEF litvars
  <2>6. ~IsEnd(Cached)
    BY <2>1, <2>2, CachedFacts DEF MatchInv
  <2>7. CASE readOffsetFlag' = TRUE /\ next_state' = "WRITE_TOKEN"
    <3>1. BetweenInv'
      BY <2>7, <1>m, <2>1, <2>2, <2>3, <2>4, <2>5, <2>6 DEF BetweenInv, MatchInv
    <3>2. Part2Inv'
      BY <3>1, <2>7, <2>1 DEF Part2Inv
    <3> QED BY <1>q, <1>t, <1>m, <2>1, <2>3, <2>5, <2>7, <3>2 DEF States
  <2>8. CASE readOffsetFlag' = FALSE /\ next_state' \in {"WRITE_OFFSET1", "WRITE_MATCH_LEN"}
    <3>1. MatchInv'
      BY <2>8, <1>m, <2>1, <2>2, <2>4, <2>5 DEF MatchInv
    <3>2. Part2Inv'
      BY <3>1, <2>8, <2>1 DEF Part2Inv
    <3> QED BY <1>q, <1>t, <1>m, <2>1, <2>3, <2>5, <2>8, <3>2 DEF States
  <2> QED BY <1>m, <2>7, <2>8
<1>d. recsRead >= 1 => /\ OffByte(LowHalf(Distance)) \in Bytes
                       /\ OffByte(HighHalf(Distance)) \in Bytes
  BY CachedFacts, DistanceIsNat, HalvesAreNat DEF OffByte, Bytes
<1>5. CASE WriteOffset0
  <2>1. /\ InState("WRITE_OFFSET0") /\ ApplyPending
        /\ UNCHANGED <<litvars, match_length, extra_match_len, litsRead>>
        /\ readOffsetFlag' = FALSE /\ next_state' = "WRITE_OFFSET1"
    BY <1>5 DEF WriteOffset0, mvars, Goto
  <2>2. out' \in Seq(Bytes)
    BY <1>5, <2>1, <1>s, <1>d, <1>t, EmitType DEF WriteOffset0
  <2> QED BY <2>1, <2>2, <1>t, <1>m
<1>6. CASE WriteOffset1
  <2>1. /\ InState("WRITE_OFFSET1") /\ ApplyPending
        /\ UNCHANGED <<litvars, match_length, extra_match_len, litsRead>>
        /\ \/ readOffsetFlag' = FALSE /\ next_state' = "WRITE_MATCH_LEN"
           \/ readOffsetFlag' = TRUE /\ next_state' = "WRITE_TOKEN"
    BY <1>6 DEF WriteOffset1, mvars, Goto
  <2>2. out' \in Seq(Bytes)
    BY <1>6, <2>1, <1>s, <1>d, <1>t, EmitType DEF WriteOffset1
  <2> QED BY <2>1, <2>2, <1>t, <1>m
<1>7. CASE WriteMatchLen
  <2>1. /\ InState("WRITE_MATCH_LEN") /\ ApplyPending
        /\ UNCHANGED <<litvars, extra_match_len, litsRead>>
    BY <1>7 DEF WriteMatchLen
  <2>2. /\ readOffsetFlag = FALSE /\ next_state = "WRITE_MATCH_LEN"
    BY <2>1, <1>s
  <2>3. /\ \/ readOffsetFlag' = FALSE /\ next_state' = "WRITE_MATCH_LEN"
           \/ readOffsetFlag' = TRUE /\ next_state' = "WRITE_TOKEN"
        /\ match_length' \in Nat
    BY <1>7, <2>2, <1>t, <1>l DEF WriteMatchLen, Goto
  <2>4. out' \in Seq(Bytes)
    <3>1. LenByte(LenMax) \in Bytes /\ LenByte(match_length) \in Bytes
      BY <1>t, <1>l DEF LenByte, Bytes
    <3> QED BY <1>7, <3>1, <1>t, EmitType DEF WriteMatchLen
  <2> QED BY <2>1, <2>3, <2>4, <1>t, <1>m
<1>8. CASE Finish2
  <2>1. /\ p2 = "run" /\ p2' = "done" /\ readOffsetFlag = TRUE /\ inIdx >= input_size
        /\ UNCHANGED <<input_size, p1vars, lits, recs, recsRead, litsRead>>
        /\ UNCHANGED <<next_state, readOffsetFlag, inIdx, pending_idx_apply,
                       pending_idx_increment, lit_length, write_lit_length, lit_ending,
                       match_length, extra_match_len, out>>
    BY <1>8, <1>t DEF Finish2, Busy, idxvars, litvars, mvars
  <2>2. BetweenInv'
    BY <2>1 DEF Part2Inv, BetweenInv, IndexInv, Cached, Pos, UpTo, IsMatchRec, IsEnd,
                IsSpecialEnd, IsNormalEnd
  <2>3. Part2Inv'
    BY <2>1, <2>2 DEF Part2Inv
  <2> QED BY <1>q, <1>t, <2>1, <2>3
<1> QED BY <1>1, <1>2, <1>3, <1>4, <1>5, <1>6, <1>7, <1>8 DEF Part2

-----------------------------------------------------------------------------
(* The next block, and the inductive step *)

\* Part2 has left its loop: it has read the record Part1 closed the block with.
LEMMA LoopLeft ==
    ASSUME IInv, p2 = "done"
    PROVE  /\ input_size > 0 => p1 = "done"
           /\ p1 = "done" => litsRead = Len(lits) /\ recsRead = Len(recs)
<1> USE DEF IInv
<1>1. /\ BetweenInv /\ inIdx >= input_size /\ inIdx \in Nat
      /\ input_size \in Nat /\ recsRead \in Nat /\ recsRead \in 0..Len(recs)
      /\ Len(recs) \in Nat /\ Len(lits) \in Nat /\ litsRead \in 0..Len(lits)
  <2>1. Len(recs) \in Nat /\ Len(lits) \in Nat
    BY LenProperties DEF TypeOK
  <2> QED BY <2>1, SizesAssumption DEF Part2Inv, TypeOK
<1>2. CASE recsRead = 0
  <2>1. input_size = 0
    BY <1>1, <1>2 DEF BetweenInv, IndexInv
  <2>2. p1 = "done" => lits = <<>> /\ recs = <<>>
    BY <2>1 DEF Part1Inv
  <2> QED BY <1>1, <2>1, <2>2
<1>3. CASE recsRead > 0
  <2>1. IsEnd(Cached)
    <3>1. SUFFICES ASSUME ~IsEnd(Cached) PROVE FALSE
      OBVIOUS
    <3>2. IsMatchRec(Cached) /\ Pos(recsRead) < input_size
      BY <1>1, <1>3, <3>1, CachedFacts
    <3>3. inIdx = Pos(recsRead)
      BY <1>3, <3>2, <1>1 DEF BetweenInv, IndexInv
    <3> QED BY <1>1, <3>2, <3>3
  <2>2. recsRead = Len(recs) /\ p1 = "done" /\ recs # <<>>
    BY <1>1, <1>3, <2>1, CachedFacts
  <2>3. UpTo(Len(recs)) = Len(lits)
    BY <2>2 DEF Part1Inv
  <2> QED BY <1>1, <2>2, <2>3 DEF BetweenInv
<1> QED BY <1>1, <1>2, <1>3

\* The next block finds empty FIFOs, so the invariant holds of it from the start.
LEMMA NextBlockStep == IInv /\ NextBlock => IInv'
<1> SUFFICES ASSUME IInv, NextBlock PROVE IInv'
  OBVIOUS
<1>1. litsRead = Len(lits) /\ recsRead = Len(recs)
  BY LoopLeft DEF NextBlock
<1>2. Len(lits) \in Nat /\ Len(recs) \in Nat
  BY LenProperties DEF IInv, TypeOK
<1>3. lits' = <<>> /\ recs' = <<>>
  <2>1. SubSeq(lits, Len(lits) + 1, Len(lits)) = <<>>
    BY <1>2
  <2>2. SubSeq(recs, Len(recs) + 1, Len(recs)) = <<>>
    BY <1>2
  <2> QED BY <1>1, <2>1, <2>2 DEF NextBlock
<1>4. /\ Len(lits') = 0 /\ Len(recs') = 0 /\ recsRead' = 0 /\ litsRead' = 0
      /\ out' = <<>> /\ items' = <<>>
  BY <1>3 DEF NextBlock
<1>5. TypeOK'
  <2>1. /\ lits' \in Seq(Nat) /\ recs' \in Seq(Records)
        /\ out' \in Seq(Bytes) /\ items' \in Seq(Nat \X Nat)
    BY <1>3, <1>4, EmptySeq
  <2>2. litsRead' \in 0..Len(lits') /\ recsRead' \in 0..Len(recs')
    BY <1>4
  <2>3. next_state' \in States
    BY DEF NextBlock, States
  <2>4. max_lit_limit' \in {0, 1}
    BY DEF NextBlock, IInv, TypeOK
  <2> QED BY <2>1, <2>2, <2>3, <2>4 DEF NextBlock, TypeOK
<1>6. RunsInv' /\ RecordsInv'
  BY <1>3, <1>4 DEF RunsInv, RecordsInv
<1>7. Part1Inv'
  BY <1>3 DEF NextBlock, Part1Inv
<1>8. Part2Inv'
  BY <1>4 DEF NextBlock, Part2Inv, BetweenInv, IndexInv, UpTo
<1> QED BY <1>5, <1>6, <1>7, <1>8 DEF IInv

\* A step that changes nothing keeps the invariant.
LEMMA StutterStep == IInv /\ UNCHANGED vars => IInv'
<1> SUFFICES ASSUME IInv, UNCHANGED vars PROVE IInv'
  OBVIOUS
<1>1. UNCHANGED <<input_size, p1vars, lits, litsRead, recs, recsRead, p2vars>>
  BY DEF vars
<1>2. RunsInv' /\ RecordsInv' /\ Part1Inv'
  BY <1>1, Part1Kept
<1>3. Part2Inv'
  BY <1>1, Part2Kept
<1>4. TypeOK'
  BY <1>1 DEF IInv, TypeOK, p1vars, p2vars, idxvars, litvars, mvars
<1> QED BY <1>2, <1>3, <1>4 DEF IInv

\* The invariant holds in every state of every execution.
THEOREM Invariance == Spec => []IInv
<1>1. Init => IInv
  BY InitInv
<1>2. IInv /\ [Next]_vars => IInv'
  BY Part1Step, Part2Step, NextBlockStep, StutterStep DEF Next
<1> QED BY <1>1, <1>2, PTL DEF Spec

-----------------------------------------------------------------------------
(* What follows from it *)

\* Type correctness: every register, FIFO and output keeps to its kind.
THEOREM TypeCorrect == Spec => []TypeOK
<1>1. IInv => TypeOK
  BY DEF IInv
<1> QED BY <1>1, Invariance, PTL

\* Part2 is never kept waiting for a literal, whatever the depths: Part1
\* writes the literals of a run before the record.
THEOREM LiteralFirst == Spec => []LiteralsComeFirst
<1>1. ASSUME IInv, ~readOffsetFlag, next_state = "WRITE_LITERAL"
      PROVE  litsRead < Len(lits)
  <2>1. LiteralsInv /\ recsRead >= 1
    BY <1>1 DEF IInv, Part2Inv
  <2>2. UpTo(recsRead) <= Len(lits)
    BY <1>1, <2>1, CachedFacts DEF IInv, RunsInv, UpTo
  <2>3. Len(lits) \in Nat /\ litsRead \in Nat /\ write_lit_length \in Nat
    BY <1>1, LenProperties DEF IInv, TypeOK
  <2> QED BY <2>1, <2>2, <2>3 DEF LiteralsInv
<1>2. IInv => LiteralsComeFirst
  BY <1>1 DEF LiteralsComeFirst
<1> QED BY <1>2, Invariance, PTL

\* Part2, which counts input positions and never sees Part1's end, does not
\* stop before Part1 has.
THEOREM StopsLast == Spec => []Part2StopsLast
<1>1. IInv => Part2StopsLast
  BY LoopLeft DEF Part2StopsLast
<1> QED BY <1>1, Invariance, PTL

\* Nothing of a block is left in the FIFOs for the next one.
THEOREM NothingLeft == Spec => []NothingLeftBehind
<1>1. IInv => NothingLeftBehind
  BY LoopLeft DEF NothingLeftBehind
<1> QED BY <1>1, Invariance, PTL

\* A literal FIFO as deep as the literal limit rules out the circular wait of
\* the two processes, for every input and every depth of the record FIFO.
THEOREM DeepFifoNeverBlocks ==
    ASSUME LitDepth >= MaxLitCount
    PROVE  Spec => []NoCircularWait
<1>1. ASSUME IInv, Waiting1, Waiting2
      PROVE  p1 = "done" /\ p2 = "done"
  <2> USE <1>1 DEF IInv
  <2>1. /\ Len(recs) \in Nat /\ Len(lits) \in Nat /\ recsRead \in 0..Len(recs)
        /\ litsRead \in 0..Len(lits) /\ input_size \in Nat
        /\ LitDepth \in Nat /\ RecDepth \in Nat /\ RecDepth >= 1 /\ MaxLitCount \in Nat
        /\ lit_count \in Nat
    <3>1. Len(recs) \in Nat /\ Len(lits) \in Nat
      BY LenProperties DEF TypeOK
    <3> QED BY <3>1, SizesAssumption, DepthAssumption, LimitAssumption DEF TypeOK
  <2>2. ~(~readOffsetFlag /\ next_state = "WRITE_LITERAL" /\ litsRead = Len(lits))
    <3>1. SUFFICES ASSUME ~readOffsetFlag, next_state = "WRITE_LITERAL", litsRead = Len(lits)
                   PROVE  FALSE
      OBVIOUS
    <3>2. LiteralsInv /\ recsRead >= 1
      BY <3>1 DEF Part2Inv
    <3>3. UpTo(recsRead) <= Len(lits) /\ write_lit_length \in Nat
      BY <3>2, CachedFacts DEF RunsInv, UpTo, TypeOK
    <3> QED BY <3>1, <3>2, <3>3, <2>1 DEF LiteralsInv
  <2>3. CASE p2 = "done"
    <3>1. input_size > 0 => p1 = "done"
      BY <2>3, LoopLeft
    <3>2. p1 # "done" => input_size > 0
      BY DEF Waiting1, Part1Inv
    <3> QED BY <2>3, <3>1, <3>2
  <2>4. CASE Busy /\ readOffsetFlag /\ recsRead = Len(recs)
    <3>1. BetweenInv /\ inIdx < input_size /\ RecRoom
      BY <2>4, <2>1 DEF Busy, Part2Inv, RecRoom
    <3>2. p1 # "done"
      <4>1. SUFFICES ASSUME p1 = "done" PROVE FALSE
        OBVIOUS
      <4>2. recs # <<>> /\ IsEnd(recs[Len(recs)])
        BY <3>1, <4>1, <2>1 DEF Part1Inv, TypeOK
      <4>3. recsRead > 0 /\ IsEnd(Cached)
        BY <4>2, <2>1, <2>4, EmptySeq DEF Cached, TypeOK
      <4> QED BY <3>1, <4>3, <2>1 DEF BetweenInv, IndexInv, TypeOK
    <3>3. p1 = "loop" /\ lit_count < MaxLitCount /\ ~LitRoom
      BY <3>1, <3>2 DEF Waiting1
    <3>4. lit_count = Len(lits) - UpTo(Len(recs)) /\ litsRead = UpTo(Len(recs))
      BY <3>1, <3>3, <2>4 DEF Part1Inv, BetweenInv
    <3> QED BY <3>3, <3>4, <2>1 DEF LitRoom
  <2> QED BY <2>2, <2>3, <2>4 DEF Waiting2
<1>2. IInv => NoCircularWait
  BY <1>1 DEF NoCircularWait
<1> QED BY <1>2, Invariance, PTL

-----------------------------------------------------------------------------
(* Where the literals come from *)

\* The literals from one count to another lie in an interval of the input.
InRun(ls, from, upto, low, high) ==
    \A x \in 1..Len(ls) : from < x /\ x <= upto => low <= ls[x] /\ ls[x] < high

\* Each run lies behind the record before it and in front of its own end; the
\* run being collected lies behind the last record and in front of i.
PlacesInv ==
    /\ \A k \in 1..Len(recs) : InRun(lits, UpTo(k - 1), recs[k].upto, Pos(k - 1), recs[k].pos)
    /\ p1 = "loop" => /\ Pos(Len(recs)) <= i
                      /\ InRun(lits, UpTo(Len(recs)), Len(lits), Pos(Len(recs)), i)

\* No more literals are to be written than the record in hand has.
LeftInv == ~readOffsetFlag /\ next_state \in {"WRITE_LIT_LEN", "WRITE_LITERAL"}
              => write_lit_length <= Cached.lit

LInv == IInv /\ PlacesInv /\ LeftInv

LEMMA EncoderTypes ==
    ASSUME IInv
    PROVE  /\ i \in Nat /\ lits \in Seq(Nat) /\ recs \in Seq(Records)
           /\ Len(lits) \in Nat /\ Len(recs) \in Nat /\ litsRead \in 0..Len(lits)
           /\ \A k \in 0..Len(recs) : UpTo(k) \in Nat /\ Pos(k) \in Nat
           /\ \A k \in 1..Len(recs) : /\ recs[k].upto = UpTo(k) /\ recs[k].pos = Pos(k)
                                      /\ UpTo(k) <= Len(lits)
<1>1. i \in Nat /\ lits \in Seq(Nat) /\ recs \in Seq(Records) /\ litsRead \in 0..Len(lits)
  BY DEF IInv, TypeOK
<1>2. Len(lits) \in Nat /\ Len(recs) \in Nat
  BY <1>1, LenProperties
<1>3. ASSUME NEW k \in 1..Len(recs)
      PROVE  recs[k] \in Records /\ recs[k].upto = UpTo(k) /\ recs[k].pos = Pos(k) /\ k # 0
             /\ recs[k].upto <= Len(lits)
  <2>1. k # 0 /\ recs[k] \in Records
    BY <1>1, <1>2, ElementOfSeq
  <2> QED BY <2>1 DEF UpTo, Pos, IInv, RunsInv
<1>4. ASSUME NEW k \in 0..Len(recs) PROVE UpTo(k) \in Nat /\ Pos(k) \in Nat
  <2>1. CASE k = 0
    BY <2>1 DEF UpTo, Pos
  <2>2. CASE k # 0
    <3>1. k \in 1..Len(recs)
      BY <1>2, <2>2
    <3> QED BY <1>3, <3>1 DEF Records
  <2> QED BY <2>1, <2>2
<1> QED BY <1>1, <1>2, <1>3, <1>4

\* Counts and positions of the records read do not change when one is added.
LEMMA OldRecords ==
    ASSUME IInv, NEW r \in Records, recs' = Append(recs, r)
    PROVE  /\ Len(recs') = Len(recs) + 1 /\ recs'[Len(recs) + 1] = r
           /\ \A k \in 1..Len(recs) : recs'[k] = recs[k]
           /\ \A k \in 0..Len(recs) : UpTo(k)' = UpTo(k) /\ Pos(k)' = Pos(k)
<1>1. /\ Len(recs) \in Nat /\ Len(recs') = Len(recs) + 1 /\ recs'[Len(recs) + 1] = r
      /\ \A k \in 1..Len(recs) : recs'[k] = recs[k]
  BY AppendRecord, EncoderTypes
<1>2. ASSUME NEW k \in 0..Len(recs) PROVE UpTo(k)' = UpTo(k) /\ Pos(k)' = Pos(k)
  <2>1. k = 0 \/ k \in 1..Len(recs)
    BY <1>1
  <2> QED BY <1>1, <2>1 DEF UpTo, Pos
<1> QED BY <1>1, <1>2

\* A record closes the run being collected.
LEMMA PlacesRecord ==
    ASSUME IInv, PlacesInv, p1 = "loop", NEW r \in Records, recs' = Append(recs, r), lits' = lits,
           r.upto = Len(lits), r.pos \in Nat, r.pos >= i, i' = r.pos
    PROVE  PlacesInv'
<1> DEFINE n == Len(recs)
<1>1. /\ Len(recs') = n + 1 /\ recs'[n + 1] = r /\ \A k \in 1..n : recs'[k] = recs[k]
      /\ \A k \in 0..n : UpTo(k)' = UpTo(k) /\ Pos(k)' = Pos(k)
  BY OldRecords
<1>2. /\ n \in Nat /\ i \in Nat /\ Len(lits) \in Nat /\ lits \in Seq(Nat) /\ n \in 0..n
      /\ UpTo(n) \in Nat /\ Pos(n) \in Nat
  BY EncoderTypes
<1>3. ASSUME NEW k \in 1..n + 1
      PROVE  InRun(lits, UpTo(k - 1)', recs'[k].upto, Pos(k - 1)', recs'[k].pos)
  <2>1. CASE k \in 1..n
    <3>1. k - 1 \in 0..n
      BY <1>2, <2>1
    <3> QED BY <1>1, <2>1, <3>1 DEF PlacesInv
  <2>2. CASE k = n + 1
    <3>1. InRun(lits, UpTo(n), Len(lits), Pos(n), i)
      BY DEF PlacesInv
    <3>2. \A x \in 1..Len(lits) : lits[x] \in Nat
      BY <1>2, ElementOfSeq
    <3>3. InRun(lits, UpTo(n), Len(lits), Pos(n), r.pos)
      BY <1>2, <3>1, <3>2 DEF InRun
    <3>4. k - 1 = n
      BY <1>2, <2>2
    <3> QED BY <1>1, <1>2, <2>2, <3>3, <3>4
  <2> QED BY <1>2, <2>1, <2>2
<1>4. InRun(lits, r.upto, Len(lits), r.pos, i')
  BY <1>2 DEF InRun
<1>5. Pos(Len(recs))' = r.pos /\ UpTo(Len(recs))' = r.upto
  <2>1. n + 1 # 0
    BY <1>2
  <2> QED BY <1>1, <2>1 DEF Pos, UpTo
<1> QED BY <1>1, <1>3, <1>4, <1>5 DEF PlacesInv

LEMMA Part1Places ==
    ASSUME IInv, PlacesInv, Part1 PROVE PlacesInv'
<1> DEFINE n == Len(recs)
<1>1. /\ n \in Nat /\ i \in Nat /\ Len(lits) \in Nat /\ lits \in Seq(Nat) /\ n \in 0..n
      /\ UpTo(n) \in Nat /\ Pos(n) \in Nat /\ \A x \in 1..Len(lits) : lits[x] \in Nat
  BY EncoderTypes, ElementOfSeq
<1>2. CASE Return1 \/ FirstRead
  <2>1. lits' = <<>> /\ recs' = <<>> /\ i' = 0 /\ Len(recs') = 0
    BY <1>2 DEF Return1, FirstRead, IInv, Part1Inv
  <2>2. UpTo(Len(recs))' = 0 /\ Pos(Len(recs))' = 0
    BY <2>1 DEF UpTo, Pos
  <2> QED BY <2>1, <2>2 DEF PlacesInv, InRun
<1>3. CASE DropItem
  <2>1. lits' = lits /\ recs' = recs /\ p1 = "loop" /\ Iterate
    BY <1>3 DEF DropItem, Iterate
  <2>2. i' \in Nat /\ i' >= i
    BY <2>1, IterateFacts, OfferType
  <2>3. Pos(n) <= i /\ InRun(lits, UpTo(n), Len(lits), Pos(n), i)
    BY <2>1 DEF PlacesInv
  <2>4. Pos(n) <= i' /\ InRun(lits, UpTo(n), Len(lits), Pos(n), i')
    BY <1>1, <2>2, <2>3 DEF InRun
  <2>5. \A k : UpTo(k)' = UpTo(k) /\ Pos(k)' = Pos(k)
    BY <2>1 DEF UpTo, Pos
  <2>6. UpTo(Len(recs))' = UpTo(n) /\ Pos(Len(recs))' = Pos(n)
    BY <2>1 DEF UpTo, Pos
  <2> QED BY <2>1, <2>4, <2>5, <2>6 DEF PlacesInv
<1>4. CASE EmitLiteral
  <2>1. lits' = Append(lits, i) /\ recs' = recs /\ p1 = "loop" /\ Iterate /\ nextEncodedValue.len = 0
    BY <1>4 DEF EmitLiteral, Iterate
  <2>2. i' = i + 1
    BY <2>1, IterateFacts, OfferType
  <2>3. PICK t : t = Append(lits, i)
    OBVIOUS
  <2>4. Len(t) = Len(lits) + 1 /\ t[Len(lits) + 1] = i /\ \A x \in 1..Len(lits) : t[x] = lits[x]
    BY <1>1, <2>3, AppendProperties
  <2>5. ASSUME NEW from, NEW upto \in Nat, NEW low, NEW high, upto <= Len(lits),
               InRun(lits, from, upto, low, high)
        PROVE  InRun(t, from, upto, low, high)
    BY <1>1, <2>4, <2>5 DEF InRun
  <2>6. ASSUME NEW k \in 1..n PROVE InRun(t, UpTo(k - 1), recs[k].upto, Pos(k - 1), recs[k].pos)
    <3>1. recs[k].upto \in Nat /\ recs[k].upto <= Len(lits)
      BY EncoderTypes
    <3> QED BY <2>5, <3>1 DEF PlacesInv
  <2>7. Pos(n) <= i + 1 /\ InRun(t, UpTo(n), Len(t), Pos(n), i + 1)
    <3>1. Pos(n) <= i /\ InRun(lits, UpTo(n), Len(lits), Pos(n), i)
      BY <2>1 DEF PlacesInv
    <3> QED BY <1>1, <2>4, <3>1 DEF InRun
  <2>8. (\A k : UpTo(k)' = UpTo(k) /\ Pos(k)' = Pos(k)) /\ UpTo(Len(recs))' = UpTo(n) /\ Pos(Len(recs))' = Pos(n)
    BY <2>1 DEF UpTo, Pos
  <2> QED BY <2>1, <2>2, <2>3, <2>6, <2>7, <2>8 DEF PlacesInv
<1>5. CASE EmitRecord
  <2> DEFINE item == nextEncodedValue
             r == Record(lit_count, item.len - MinMatch, item.off, Len(lits), i')
  <2>1. Iterate /\ item.len > 0 /\ lits' = lits /\ recs' = Append(recs, r) /\ p1 = "loop"
    BY <1>5 DEF EmitRecord, Iterate
  <2>2. /\ item.len \in Nat /\ item.off \in Nat /\ i' = i + item.len /\ i' \in Nat
        /\ item.len - MinMatch \in Nat /\ lit_count \in Nat
    <3>1. item.len - MinMatch \in 0..MaxMatch - MinMatch
      BY <2>1, IterateFacts, OfferType
    <3> QED BY <2>1, <3>1, IterateFacts, OfferType DEF IInv, TypeOK
  <2>3. r \in Records /\ r.upto = Len(lits) /\ r.pos = i' /\ r.pos \in Nat /\ r.pos >= i
    BY <1>1, <2>2 DEF Record, Records
  <2> HIDE DEF r
  <2> QED BY <2>1, <2>3, PlacesRecord
<1>6. CASE Finish1
  <2>1. lits' = lits /\ i' = i /\ p1 = "loop" /\ p1' = "done" /\ lit_count \in Nat
    BY <1>6 DEF Finish1, IInv, TypeOK
  <2>2. CASE recs' = recs
    BY <2>1, <2>2 DEF PlacesInv, UpTo, Pos
  <2>3. CASE recs' = Append(recs, LastRecord)
    <3> DEFINE r == LastRecord
    <3>1. r \in Records /\ r.upto = Len(lits) /\ r.pos = i
      BY <1>1, <2>1 DEF LastRecord, Record, Records, EndMark
    <3> HIDE DEF r
    <3>2. r.pos \in Nat /\ r.pos >= i /\ i' = r.pos
      BY <1>1, <2>1, <3>1
    <3>3. recs' = Append(recs, r)
      BY <2>3 DEF r
    <3> QED BY <2>1, <3>1, <3>2, <3>3, PlacesRecord
  <2> QED BY <1>6, <2>2, <2>3 DEF Finish1
<1> QED BY <1>2, <1>3, <1>4, <1>5, <1>6 DEF Part1

\* What Part1 writes does not change the record in hand.
LEMMA Part1Left ==
    ASSUME IInv, LeftInv, Part1 PROVE LeftInv'
<1>1. /\ UNCHANGED <<recsRead, readOffsetFlag, next_state, write_lit_length>>
      /\ recs' = recs \/ \E r : recs' = Append(recs, r)
  BY DEF Part1, Return1, FirstRead, DropItem, EmitRecord, EmitLiteral, Finish1, Iterate, p2vars, litvars
<1>2. ~readOffsetFlag => recsRead \in 1..Len(recs)
  BY EncoderTypes DEF IInv, TypeOK, Part2Inv
<1>3. ~readOffsetFlag => Cached' = Cached
  <2> SUFFICES ASSUME ~readOffsetFlag PROVE recs'[recsRead] = recs[recsRead]
    BY <1>1 DEF Cached
  <2>1. ASSUME NEW r, recs' = Append(recs, r) PROVE recs'[recsRead] = recs[recsRead]
    BY <1>2, <2>1, EncoderTypes
  <2> QED BY <1>1, <2>1
<1> QED BY <1>1, <1>3 DEF LeftInv

LEMMA Part2Left ==
    ASSUME IInv, LeftInv, Part2 PROVE PlacesInv => PlacesInv' /\ LeftInv'
<1>1. UNCHANGED <<p1, i, lits, recs>>
  BY DEF Part2, ReadRecord, WriteToken, WriteLitLen, WriteLiteral, WriteOffset0, WriteOffset1, WriteMatchLen,
         Finish2, InState, p1vars
<1>2. PlacesInv => PlacesInv'
  BY <1>1 DEF PlacesInv, UpTo, Pos
<1>3. write_lit_length \in Nat
  BY DEF IInv, TypeOK
<1>4. LeftInv'
  <2>1. CASE ReadRecord
    <3>1. next_state = "WRITE_TOKEN" /\ next_state' = next_state
      BY <2>1 DEF ReadRecord, IInv, Part2Inv, BetweenInv
    <3> QED BY <3>1 DEF LeftInv
  <2>2. CASE WriteToken
    <3>1. write_lit_length' = Cached.lit /\ recsRead' = recsRead /\ ~readOffsetFlag /\ recs' = recs
      BY <2>2 DEF WriteToken, InState
    <3>2. Cached.lit \in Nat /\ Cached' = Cached
      <4>1. recsRead >= 1
        BY <3>1 DEF IInv, Part2Inv
      <4> QED BY <3>1, <4>1, CachedFacts DEF Cached
    <3> QED BY <3>1, <3>2 DEF LeftInv
  <2>3. CASE WriteLitLen
    BY <1>1, <2>3 DEF WriteLitLen, InState, LeftInv, Cached
  <2>4. CASE WriteLiteral
    <3>1. /\ write_lit_length' = write_lit_length - 1 /\ recsRead' = recsRead /\ ~readOffsetFlag
          /\ next_state = "WRITE_LITERAL"
      BY <2>4 DEF WriteLiteral, InState
    <3>2. write_lit_length <= Cached.lit /\ Cached.lit \in Nat /\ Cached' = Cached
      <4>1. recsRead >= 1
        BY <3>1 DEF IInv, Part2Inv
      <4> QED BY <1>1, <3>1, <4>1, CachedFacts DEF Cached, LeftInv
    <3> QED BY <1>3, <3>1, <3>2 DEF LeftInv
  <2>5. CASE WriteOffset0 \/ WriteOffset1 \/ WriteMatchLen
    <3>1. next_state' \in {"WRITE_OFFSET1", "WRITE_MATCH_LEN", "WRITE_TOKEN"}
      BY <2>5 DEF WriteOffset0, WriteOffset1, WriteMatchLen, InState, Goto
    <3> QED BY <3>1 DEF LeftInv
  <2>6. CASE Finish2
    BY <1>1, <2>6 DEF Finish2, LeftInv, litvars, Cached
  <2> QED BY <2>1, <2>2, <2>3, <2>4, <2>5, <2>6 DEF Part2
<1> QED BY <1>2, <1>4

LEMMA LiteralsNext == LInv /\ [Next]_vars => LInv'
<1> SUFFICES ASSUME LInv, [Next]_vars PROVE LInv'
  OBVIOUS
<1>1. IInv /\ PlacesInv /\ LeftInv
  BY DEF LInv
<1>2. IInv'
  BY <1>1, Part1Step, Part2Step, NextBlockStep, StutterStep DEF Next
<1>3. PlacesInv' /\ LeftInv'
  <2>1. CASE Part1
    BY <1>1, <2>1, Part1Places, Part1Left
  <2>2. CASE Part2
    BY <1>1, <2>2, Part2Left
  <2>3. CASE NextBlock
    <3>1. litsRead = Len(lits) /\ recsRead = Len(recs) /\ Len(recs) \in Nat
      BY <1>1, <2>3, LoopLeft, EncoderTypes DEF NextBlock
    <3>2. recs' = <<>>
      BY <2>3, <3>1 DEF NextBlock
    <3>3. Len(recs') = 0 /\ readOffsetFlag' = TRUE /\ p1' = "start"
      BY <2>3, <3>2 DEF NextBlock
    <3> QED BY <3>3 DEF PlacesInv, LeftInv
  <2>4. CASE UNCHANGED vars
    BY <1>1, <2>4 DEF vars, p1vars, p2vars, litvars, PlacesInv, LeftInv, UpTo, Pos, Cached
  <2> QED BY <2>1, <2>2, <2>3, <2>4 DEF Next
<1> QED BY <1>2, <1>3 DEF LInv

\* Each literal Part2 writes lies between the end of the record before and the
\* end of the record in hand: it is one of that record's own.
THEOREM OwnLiterals == Spec => []LiteralsOfTheRun
<1>1. Init => LInv
  <2>1. Init => Len(recs) = 0 /\ readOffsetFlag = TRUE /\ p1 = "start"
    BY DEF Init
  <2> QED BY <2>1, InitInv DEF LInv, PlacesInv, LeftInv
<1>2. LInv => LiteralsOfTheRun
  <2> SUFFICES ASSUME LInv, ~readOffsetFlag, next_state = "WRITE_LITERAL", litsRead < Len(lits)
               PROVE  /\ lits[litsRead + 1] < Cached.pos
                      /\ recsRead > 1 => lits[litsRead + 1] >= recs[recsRead - 1].pos
    BY DEF LiteralsOfTheRun
  <2>1. IInv /\ PlacesInv /\ write_lit_length <= Cached.lit
    BY DEF LInv, LeftInv
  <2>2. recsRead >= 1 /\ write_lit_length >= 1 /\ litsRead + write_lit_length = UpTo(recsRead)
    BY <2>1 DEF IInv, Part2Inv, LiteralsInv
  <2>3. /\ recsRead \in 1..Len(recs) /\ UpTo(recsRead) = UpTo(recsRead - 1) + Cached.lit
        /\ UpTo(recsRead) \in Nat /\ UpTo(recsRead - 1) \in Nat /\ Cached.lit \in Nat
    BY <2>1, <2>2, CachedFacts
  <2>4. /\ litsRead \in Nat /\ Len(lits) \in Nat /\ write_lit_length \in Nat
        /\ recs[recsRead].upto = UpTo(recsRead) /\ lits \in Seq(Nat)
        /\ Pos(recsRead - 1) \in Nat
    <3>1. Len(lits) \in Nat /\ Len(recs) \in Nat /\ litsRead \in 0..Len(lits) /\ lits \in Seq(Nat)
          /\ recs[recsRead].upto = UpTo(recsRead)
      BY <2>1, <2>3, EncoderTypes
    <3>2. recsRead - 1 \in 0..Len(recs)
      BY <2>3, <3>1
    <3>3. Pos(recsRead - 1) \in Nat
      BY <2>1, <3>2, EncoderTypes
    <3>4. write_lit_length \in Nat
      BY <2>1 DEF IInv, TypeOK
    <3> QED BY <3>1, <3>3, <3>4
  <2>5. PICK x : x = litsRead + 1
    OBVIOUS
  <2>6. x \in 1..Len(lits) /\ UpTo(recsRead - 1) < x /\ x <= UpTo(recsRead)
    BY <2>1, <2>2, <2>3, <2>4, <2>5
  <2>7. Pos(recsRead - 1) <= lits[x] /\ lits[x] < recs[recsRead].pos
    BY <2>1, <2>3, <2>4, <2>6 DEF PlacesInv, InRun
  <2>8. lits[x] \in Nat
    BY <2>4, <2>6, ElementOfSeq
  <2>9. recsRead > 1 => lits[x] >= recs[recsRead - 1].pos
    <3> SUFFICES ASSUME recsRead > 1 PROVE lits[x] >= recs[recsRead - 1].pos
      OBVIOUS
    <3>1. recsRead - 1 # 0
      BY <2>3
    <3>2. Pos(recsRead - 1) = recs[recsRead - 1].pos
      BY <3>1 DEF Pos
    <3> QED BY <2>4, <2>7, <2>8, <3>2
  <2> QED BY <2>5, <2>7, <2>9 DEF Cached
<1> QED BY <1>1, <1>2, LiteralsNext, PTL DEF Spec

-----------------------------------------------------------------------------
(* Induction *)

\* A set of naturals has a least element.
LEMMA LeastElement ==
    ASSUME NEW T, T \subseteq Nat, T # {}
    PROVE  \E x \in T : \A y \in T : x <= y
<1>1. PICK x \in T : \A y \in T : ~(<<y, x>> \in OpToRel(<, Nat))
  BY NatLessThanWellFounded, WFMin
<1>2. OpToRel(<, Nat) = {ss \in Nat \X Nat : ss[1] < ss[2]}
  BY DEF OpToRel
<1>3. ASSUME NEW y \in T, y < x PROVE <<y, x>> \in OpToRel(<, Nat)
  BY <1>2, <1>3
<1>4. \A y \in T : ~(y < x)
  BY <1>1, <1>3
<1>5. \A y \in T : x <= y
  BY <1>4
<1> QED BY <1>5

\* Induction over the naturals, stated of a set.
LEMMA SetInduction ==
    ASSUME NEW S, 0 \in S, \A n \in Nat : n \in S => n + 1 \in S
    PROVE  Nat \subseteq S
<1> DEFINE T == Nat \ S
<1>1. SUFFICES ASSUME T # {} PROVE FALSE
  OBVIOUS
<1>2. PICK x \in T : \A y \in T : x <= y
  BY <1>1, LeastElement
<1>3. x - 1 \in Nat /\ x - 1 \in S /\ (x - 1) + 1 = x
  BY <1>2
<1> QED BY <1>2, <1>3

-----------------------------------------------------------------------------
(* What the reference decoder finds at a place *)

\* One step of the extension at p, given the extension behind it.
ExtensionStep(o, p, f) ==
    IF ~Is(o, p, "len") THEN [val |-> 0, next |-> Len(o) + 2]
    ELSE IF o[p][2] < LenMax THEN [val |-> o[p][2], next |-> p + 1]
    ELSE [val |-> LenMax + f[p + 1].val, next |-> f[p + 1].next]

\* The function that Extension is defined by, on the last places of the output.
IsExtension(o, first, f) == f = [p \in first..Len(o) + 1 |-> ExtensionStep(o, p, f)]

\* The values of the extensions exist, from the last place to the first.
LEMMA ExtensionsExist ==
    ASSUME NEW o \in Seq(Bytes)
    PROVE  \E f : IsExtension(o, 1, f)
<1> DEFINE n == Len(o)
           S == {m \in Nat : m <= n + 1 => \E f : IsExtension(o, n + 2 - m, f)}
<1>0. n \in Nat
  BY LenProperties
<1>1. 0 \in S
  <2> DEFINE f == [p \in n + 2..n + 1 |-> 0]
  <2>1. f = [p \in n + 2..n + 1 |-> ExtensionStep(o, p, f)]
    BY <1>0
  <2> HIDE DEF f
  <2>2. IsExtension(o, n + 2 - 0, f)
    BY <1>0, <2>1 DEF IsExtension
  <2> QED BY <2>2
<1>2. ASSUME NEW m \in Nat, m \in S PROVE m + 1 \in S
  <2> SUFFICES ASSUME m + 1 <= n + 1 PROVE \E f : IsExtension(o, n + 2 - (m + 1), f)
    OBVIOUS
  <2>1. PICK f : IsExtension(o, n + 2 - m, f)
    BY <1>0, <1>2
  <2>2. PICK x : x = n + 2 - (m + 1)
    OBVIOUS
  <2>3. x \in 1..n + 1 /\ n + 2 - m = x + 1 /\ x \in Nat
    BY <1>0, <2>2
  <2>4. f = [p \in x + 1..n + 1 |-> ExtensionStep(o, p, f)]
    BY <2>1, <2>3 DEF IsExtension
  <2> DEFINE g == [p \in x..n + 1 |-> IF p = x THEN ExtensionStep(o, x, f) ELSE f[p]]
  <2>5. ASSUME NEW p \in x..n + 1 PROVE g[p] = ExtensionStep(o, p, g)
    <3>1. ASSUME Is(o, p, "len") PROVE p + 1 \in x + 1..n + 1 /\ p + 1 # x
      BY <1>0, <2>3, <3>1 DEF Is
    <3>2. Is(o, p, "len") => g[p + 1] = f[p + 1]
      <4>1. Is(o, p, "len") => p + 1 \in x..n + 1 /\ p + 1 # x
        BY <2>3, <3>1
      <4> QED BY <4>1
    <3>3. ExtensionStep(o, p, g) = ExtensionStep(o, p, f)
      BY <3>2, Zenon DEF ExtensionStep
    <3>4. CASE p = x
      BY <3>3, <3>4
    <3>5. CASE p # x
      <4>1. p \in x + 1..n + 1
        BY <2>3, <3>5
      <4>2. f[p] = ExtensionStep(o, p, f)
        BY <2>4, <4>1
      <4> QED BY <3>3, <3>5, <4>2
    <3> QED BY <3>4, <3>5
  <2>6. g = [p \in x..n + 1 |-> g[p]]
    OBVIOUS
  <2> HIDE DEF g
  <2>7. g = [p \in x..n + 1 |-> ExtensionStep(o, p, g)]
    BY <2>5, <2>6
  <2> QED BY <2>2, <2>7 DEF IsExtension
<1> HIDE DEF S
<1>3. n + 1 \in S
  BY <1>0, <1>1, <1>2, SetInduction
<1>4. n + 2 - (n + 1) = 1
  BY <1>0
<1> QED BY <1>0, <1>3, <1>4 DEF S

\* The equation that defines Extension.
LEMMA ExtensionIs ==
    ASSUME NEW o \in Seq(Bytes)
    PROVE  \A p \in 1..Len(o) + 1 : Extension(o)[p] = ExtensionStep(o, p, Extension(o))
<1> DEFINE e == CHOOSE ext : ext = [p \in 1..Len(o) + 1 |->
                    IF ~Is(o, p, "len") THEN [val |-> 0, next |-> Len(o) + 2]
                    ELSE IF o[p][2] < LenMax THEN [val |-> o[p][2], next |-> p + 1]
                    ELSE [val |-> LenMax + ext[p + 1].val, next |-> ext[p + 1].next]]
<1>1. IsExtension(o, 1, e)
  BY ExtensionsExist, Zenon DEF IsExtension, ExtensionStep
<1>2. Extension(o) = e
  BY DEF Extension
<1> HIDE DEF e
<1>3. e = [p \in 1..Len(o) + 1 |-> ExtensionStep(o, p, e)]
  BY <1>1 DEF IsExtension
<1>4. \A p \in 1..Len(o) + 1 : e[p] = ExtensionStep(o, p, e)
  <2> DEFINE x(p) == ExtensionStep(o, p, e)
  <2> HIDE DEF x
  <2>1. e = [p \in 1..Len(o) + 1 |-> x(p)]
    BY <1>3 DEF x
  <2> QED BY <2>1 DEF x
<1> QED BY <1>2, <1>4

\* What a length byte carries.
LEMMA SymbolTypes ==
    ASSUME NEW o \in Seq(Bytes), NEW p \in 1..Len(o)
    PROVE  o[p][2] \in Nat /\ o[p][3] \in Nat
<1>1. o[p] \in Bytes
  BY ElementOfSeq
<1> QED BY <1>1 DEF Bytes

\* An extension is a natural, and what follows lies behind it.
LEMMA ExtensionRange ==
    ASSUME NEW o \in Seq(Bytes), NEW p \in 1..Len(o) + 1
    PROVE  /\ Extension(o)[p].val \in Nat /\ Extension(o)[p].next \in Nat
           /\ Extension(o)[p].next > p
<1> DEFINE n == Len(o)
           e == Extension(o)
           P(q) == e[q].val \in Nat /\ e[q].next \in Nat /\ e[q].next > q
           S == {m \in Nat : m <= n => P(n + 1 - m)}
<1>0. n \in Nat /\ LenMax \in Nat
  BY LenProperties, FormatAssumption
<1>1. \A q \in 1..n + 1 : e[q] = ExtensionStep(o, q, e)
  BY ExtensionIs
<1> HIDE DEF e
<1>2. 0 \in S
  <2>1. ~Is(o, n + 1, "len")
    BY <1>0 DEF Is
  <2>2. e[n + 1] = [val |-> 0, next |-> n + 2]
    <3>1. n + 1 \in 1..n + 1
      BY <1>0
    <3>2. e[n + 1] = ExtensionStep(o, n + 1, e)
      BY <1>1, <3>1
    <3> QED BY <2>1, <3>2 DEF ExtensionStep
  <2> QED BY <1>0, <2>2
<1>3. ASSUME NEW m \in Nat, m \in S PROVE m + 1 \in S
  <2> SUFFICES ASSUME m + 1 <= n PROVE P(n + 1 - (m + 1))
    OBVIOUS
  <2>1. PICK q : q = n + 1 - (m + 1)
    OBVIOUS
  <2>2. q \in 1..n /\ q \in 1..n + 1 /\ n + 1 - m = q + 1
    BY <1>0, <2>1
  <2>3. P(q + 1)
    BY <1>0, <1>3, <2>2
  <2>4. o[q][2] \in Nat
    BY <2>2, SymbolTypes
  <2>5. P(q)
    <3> DEFINE v == o[q][2]  f == e[q + 1]
    <3>1. e[q] = ExtensionStep(o, q, e)
      BY <1>1, <2>2
    <3>2. \/ e[q] = [val |-> 0, next |-> n + 2]
          \/ e[q] = [val |-> v, next |-> q + 1]
          \/ e[q] = [val |-> LenMax + f.val, next |-> f.next]
      BY <3>1 DEF ExtensionStep
    <3>3. v \in Nat /\ f.val \in Nat /\ f.next \in Nat /\ f.next > q + 1
      BY <2>3, <2>4
    <3> HIDE DEF v, f
    <3>4. CASE e[q] = [val |-> 0, next |-> n + 2]
      BY <1>0, <2>2, <3>4
    <3>5. CASE e[q] = [val |-> v, next |-> q + 1]
      BY <2>2, <3>3, <3>5
    <3>6. CASE e[q] = [val |-> LenMax + f.val, next |-> f.next]
      BY <1>0, <2>2, <3>3, <3>6
    <3> QED BY <3>2, <3>4, <3>5, <3>6
  <2> QED BY <2>1, <2>5
<1> HIDE DEF S
<1>4. n + 1 - p \in S /\ n + 1 - p <= n /\ n + 1 - (n + 1 - p) = p
  <2>1. n + 1 - p \in Nat
    BY <1>0
  <2> QED BY <1>0, <1>2, <1>3, <2>1, SetInduction
<1>5. P(p)
  BY <1>4 DEF S
<1> QED BY <1>5 DEF e

\* A length is a natural, and what follows it is not in front of it.
LEMMA LengthRange ==
    ASSUME NEW o \in Seq(Bytes), NEW m \in Nat, NEW p \in Nat, p >= 1
    PROVE  /\ Length(o, m, p).val \in Nat /\ Length(o, m, p).next \in Nat
           /\ Length(o, m, p).next >= p \/ Length(o, m, p).next > Len(o)
<1>1. Len(o) \in Nat /\ TokenMax \in Nat
  BY LenProperties, FormatAssumption
<1>2. CASE m < TokenMax
  BY <1>2 DEF Length
<1>3. CASE ~(m < TokenMax) /\ p > Len(o)
  BY <1>1, <1>3 DEF Length
<1>4. CASE ~(m < TokenMax) /\ ~(p > Len(o))
  <2>1. p \in 1..Len(o) + 1
    BY <1>1, <1>4
  <2>2. /\ Extension(o)[p].val \in Nat /\ Extension(o)[p].next \in Nat
        /\ Extension(o)[p].next > p
    BY <2>1, ExtensionRange
  <2> QED BY <1>1, <1>4, <2>2 DEF Length
<1> QED BY <1>2, <1>3, <1>4

\* The decoder goes forward, sequence by sequence.
LEMMA SequenceAdvances ==
    ASSUME NEW o \in Seq(Bytes), NEW p \in 1..Len(o) + 1
    PROVE  /\ SequenceAt(o, p).next \in Nat
           /\ SequenceAt(o, p).next > Len(o) \/ SequenceAt(o, p).next > p
<1> DEFINE n    == Len(o)
           bad  == [items |-> Malformed, next |-> n + 1]
           ll   == Length(o, o[p][2], p + 1)
           off  == ll.next + ll.val
           ml   == Length(o, o[p][3], off + 2)
           dist == o[off][2] + OffBase * o[off + 1][2]
           chars == Literals(o, ll.next, ll.val)
           two  == Append(chars, <<ml.val + MinMatch, dist>>)
           A == off > n + 1 \/ \E q \in ll.next..off - 1 : ~Is(o, q, "lit")
           B == ~(Is(o, off, "off") /\ Is(o, off + 1, "off")) \/ ml.next > n
           s == SequenceAt(o, p)
<1>0. n \in Nat
  BY LenProperties
<1>1. s = IF ~Is(o, p, "token") THEN bad
          ELSE IF A THEN bad
          ELSE IF off = n + 1 THEN [items |-> chars, next |-> off]
          ELSE IF B THEN bad
          ELSE [items |-> two, next |-> ml.next]
  BY Zenon DEF SequenceAt
<1>2. bad.next = n + 1
  OBVIOUS
<1>3. ASSUME Is(o, p, "token") PROVE ll.val \in Nat /\ ll.next \in Nat /\ (ll.next > n \/ ll.next > p)
  <2>1. p \in 1..n /\ p + 1 \in Nat /\ p + 1 >= 1 /\ p \in Nat
    BY <1>0, <1>3 DEF Is
  <2>2. o[p][2] \in Nat
    BY <2>1, SymbolTypes
  <2>3. ll.val \in Nat /\ ll.next \in Nat /\ (ll.next >= p + 1 \/ ll.next > n)
    BY <2>1, <2>2, LengthRange
  <2> HIDE DEF ll
  <2> QED BY <1>0, <2>1, <2>3
<1>4. ASSUME Is(o, p, "token") PROVE ml.next \in Nat /\ (ml.next > n \/ ml.next > p)
  <2>1. p \in 1..n
    BY <1>0, <1>4 DEF Is
  <2>2. o[p][3] \in Nat
    BY <2>1, SymbolTypes
  <2>3. off \in Nat /\ (off > n \/ off > p)
    <3> HIDE DEF ll
    <3> QED BY <1>0, <1>3, <1>4
  <2> HIDE DEF off
  <2>4. off + 2 \in Nat /\ off + 2 >= 1
    BY <2>3
  <2>5. ml.next \in Nat /\ (ml.next >= off + 2 \/ ml.next > n)
    BY <2>2, <2>4, LengthRange
  <2> HIDE DEF ml
  <2> QED BY <1>0, <2>1, <2>3, <2>5
<1> HIDE DEF two, ml, s, bad, A, B, off, chars
<1>5. CASE ~Is(o, p, "token")
  BY <1>0, <1>1, <1>2, <1>5 DEF s
<1>6. CASE Is(o, p, "token")
  <2>1. CASE A
    BY <1>0, <1>1, <1>2, <1>6, <2>1 DEF s
  <2>2. CASE ~A /\ off = n + 1
    BY <1>0, <1>1, <1>6, <2>2 DEF s
  <2>3. CASE ~A /\ off # n + 1 /\ B
    BY <1>0, <1>1, <1>2, <1>6, <2>3 DEF s
  <2>4. CASE ~A /\ off # n + 1 /\ ~B
    BY <1>0, <1>1, <1>4, <1>6, <2>4 DEF s
  <2> QED BY <2>1, <2>2, <2>3, <2>4
<1> QED BY <1>5, <1>6

\* One step of the decoder at p, given what it makes of the rest.
DecodeStep(o, p, f) ==
    IF SequenceAt(o, p).next > Len(o) THEN SequenceAt(o, p).items
    ELSE SequenceAt(o, p).items \o f[SequenceAt(o, p).next]

IsDecoding(o, first, f) == f = [p \in first..Len(o) + 1 |-> DecodeStep(o, p, f)]

\* So do the decodings.
LEMMA DecodingsExist ==
    ASSUME NEW o \in Seq(Bytes)
    PROVE  \E f : IsDecoding(o, 1, f)
<1> DEFINE n == Len(o)
           S == {m \in Nat : m <= n + 1 => \E f : IsDecoding(o, n + 2 - m, f)}
<1>0. n \in Nat
  BY LenProperties
<1>1. 0 \in S
  <2> DEFINE f == [p \in n + 2..n + 1 |-> 0]
  <2>1. f = [p \in n + 2..n + 1 |-> DecodeStep(o, p, f)]
    BY <1>0
  <2> HIDE DEF f
  <2>2. IsDecoding(o, n + 2 - 0, f)
    BY <1>0, <2>1 DEF IsDecoding
  <2> QED BY <2>2
<1>2. ASSUME NEW m \in Nat, m \in S PROVE m + 1 \in S
  <2> SUFFICES ASSUME m + 1 <= n + 1 PROVE \E f : IsDecoding(o, n + 2 - (m + 1), f)
    OBVIOUS
  <2>1. PICK f : IsDecoding(o, n + 2 - m, f)
    BY <1>0, <1>2
  <2>2. PICK x : x = n + 2 - (m + 1)
    OBVIOUS
  <2>3. x \in 1..n + 1 /\ n + 2 - m = x + 1 /\ x \in Nat
    BY <1>0, <2>2
  <2>4. f = [p \in x + 1..n + 1 |-> DecodeStep(o, p, f)]
    BY <2>1, <2>3 DEF IsDecoding
  <2> DEFINE g == [p \in x..n + 1 |-> IF p = x THEN DecodeStep(o, x, f) ELSE f[p]]
  <2>5. ASSUME NEW p \in x..n + 1 PROVE g[p] = DecodeStep(o, p, g)
    <3> DEFINE next == SequenceAt(o, p).next
    <3>1. ASSUME ~(next > n) PROVE next \in x..n + 1 /\ next # x
      <4>1. p \in 1..n + 1
        BY <1>0, <2>3
      <4>2. next \in Nat /\ (next > n \/ next > p)
        BY <4>1, SequenceAdvances
      <4> HIDE DEF next
      <4> QED BY <1>0, <2>3, <3>1, <4>2
    <3>2. ~(next > n) => g[next] = f[next]
      BY <3>1
    <3>3. DecodeStep(o, p, g) = DecodeStep(o, p, f)
      <4> HIDE DEF g
      <4>1. CASE next > n
        BY <4>1 DEF DecodeStep
      <4>2. CASE ~(next > n)
        BY <3>2, <4>2 DEF DecodeStep
      <4> QED BY <4>1, <4>2
    <3>4. CASE p = x
      BY <3>3, <3>4
    <3>5. CASE p # x
      <4>1. p \in x + 1..n + 1
        BY <2>3, <3>5
      <4>2. f[p] = DecodeStep(o, p, f)
        BY <2>4, <4>1
      <4> QED BY <3>3, <3>5, <4>2
    <3> QED BY <3>4, <3>5
  <2>6. g = [p \in x..n + 1 |-> g[p]]
    OBVIOUS
  <2> HIDE DEF g
  <2>7. g = [p \in x..n + 1 |-> DecodeStep(o, p, g)]
    BY <2>5, <2>6
  <2> QED BY <2>2, <2>7 DEF IsDecoding
<1> HIDE DEF S
<1>3. n + 1 \in S
  BY <1>0, <1>1, <1>2, SetInduction
<1>4. n + 2 - (n + 1) = 1
  BY <1>0
<1> QED BY <1>0, <1>3, <1>4 DEF S

\* The equation that defines Decode.
LEMMA DecodeIs ==
    ASSUME NEW o \in Seq(Bytes)
    PROVE  \E f : Decode(o) = f[1] /\ \A p \in 1..Len(o) + 1 : f[p] = DecodeStep(o, p, f)
<1> DEFINE f == CHOOSE from : from = [p \in 1..Len(o) + 1 |->
                    IF SequenceAt(o, p).next > Len(o) THEN SequenceAt(o, p).items
                    ELSE SequenceAt(o, p).items \o from[SequenceAt(o, p).next]]
<1>1. IsDecoding(o, 1, f)
  BY DecodingsExist, Zenon DEF IsDecoding, DecodeStep
<1>2. Decode(o) = f[1]
  BY DEF Decode
<1> HIDE DEF f
<1>3. f = [p \in 1..Len(o) + 1 |-> DecodeStep(o, p, f)]
  BY <1>1 DEF IsDecoding
<1>4. \A p \in 1..Len(o) + 1 : f[p] = DecodeStep(o, p, f)
  <2> DEFINE x(p) == DecodeStep(o, p, f)
  <2> HIDE DEF x
  <2>1. f = [p \in 1..Len(o) + 1 |-> x(p)]
    BY <1>3 DEF x
  <2> QED BY <2>1 DEF x
<1> QED BY <1>2, <1>4

-----------------------------------------------------------------------------
(* What a well-formed sequence decodes to *)

\* From p to before q stand the extension bytes of the length m, if it has any.
Spelt(o, p, q, m) ==
    IF m < TokenMax THEN q = p
    ELSE /\ q > p
         /\ \A j \in p..q - 2 : o[j] = LenByte(LenMax)
         /\ \E v \in Nat : /\ v < LenMax /\ o[q - 1] = LenByte(v)
                          /\ m = TokenMax + LenMax * (q - 1 - p) + v

\* Multiples, for steps that treat a product as a unit.
LEMMA Multiples ==
    ASSUME NEW a \in Nat, NEW k \in Nat
    PROVE  a * k \in Nat /\ a * (k + 1) = a * k + a /\ a * 0 = 0
OBVIOUS

\* The decoder reads an extension as it was written.
LEMMA SpeltIsRead ==
    ASSUME NEW o \in Seq(Bytes), NEW m \in Nat, NEW p \in 1..Len(o) + 1, NEW q \in 1..Len(o) + 1,
           Spelt(o, p, q, m)
    PROVE  Length(o, Nibble(m), p) = [val |-> m, next |-> q]
<1>0. Len(o) \in Nat /\ TokenMax \in Nat /\ LenMax \in Nat
  BY LenProperties, FormatAssumption
<1>1. CASE m < TokenMax
  BY <1>0, <1>1 DEF Spelt, Length, Nibble
<1>2. CASE ~(m < TokenMax)
  <2> DEFINE e == Extension(o)
  <2>1. PICK v \in Nat : /\ v < LenMax /\ o[q - 1] = LenByte(v)
                         /\ m = TokenMax + LenMax * (q - 1 - p) + v
    BY <1>2 DEF Spelt
  <2>2. q > p /\ \A j \in p..q - 2 : o[j] = LenByte(LenMax)
    BY <1>2 DEF Spelt
  <2> DEFINE P(d) == e[q - 1 - d] = [val |-> LenMax * d + v, next |-> q]
             S == {d \in Nat : d <= q - 1 - p => P(d)}
  <2>3. 0 \in S
    <3>1. q - 1 \in 1..Len(o) /\ q - 1 \in 1..Len(o) + 1 /\ q - 1 - 0 = q - 1 /\ (q - 1) + 1 = q
      BY <1>0, <2>2
    <3>2. e[q - 1] = ExtensionStep(o, q - 1, e)
      BY <3>1, ExtensionIs
    <3>3. Is(o, q - 1, "len") /\ o[q - 1][2] = v
      BY <2>1, <3>1 DEF Is, LenByte
    <3>4. e[q - 1] = [val |-> v, next |-> q]
      BY <2>1, <3>1, <3>2, <3>3 DEF ExtensionStep
    <3>5. LenMax * 0 + v = v
      BY <1>0
    <3> QED BY <3>1, <3>4, <3>5
  <2>4. ASSUME NEW d \in Nat, d \in S PROVE d + 1 \in S
    <3> SUFFICES ASSUME d + 1 <= q - 1 - p PROVE P(d + 1)
      OBVIOUS
    <3>1. PICK x : x = q - 1 - (d + 1)
      OBVIOUS
    <3>2. x \in p..q - 2 /\ x \in 1..Len(o) /\ x \in 1..Len(o) + 1 /\ x + 1 = q - 1 - d
      BY <1>0, <3>1
    <3>3. e[x + 1] = [val |-> LenMax * d + v, next |-> q]
      BY <1>0, <2>4, <3>2
    <3>4. e[x] = ExtensionStep(o, x, e)
      BY <3>2, ExtensionIs
    <3>5. Is(o, x, "len") /\ o[x][2] = LenMax
      BY <2>2, <3>2 DEF Is, LenByte
    <3>6. e[x] = [val |-> LenMax + e[x + 1].val, next |-> e[x + 1].next]
      BY <1>0, <3>4, <3>5 DEF ExtensionStep
    <3> DEFINE a == LenMax * d  b == LenMax * (d + 1)
    <3>7. a \in Nat /\ b = a + LenMax
      BY <1>0, Multiples
    <3>8. e[x + 1] = [val |-> a + v, next |-> q]
      BY <3>3
    <3> HIDE DEF a, b
    <3>9. LenMax + (a + v) = b + v
      BY <1>0, <3>7
    <3>10. e[x] = [val |-> b + v, next |-> q]
      BY <3>6, <3>8, <3>9
    <3> QED BY <3>1, <3>10 DEF b
  <2> HIDE DEF S
  <2>5. q - 1 - p \in Nat /\ q - 1 - p <= q - 1 - p /\ q - 1 - (q - 1 - p) = p
    BY <1>0, <2>2
  <2>6. q - 1 - p \in S
    BY <2>3, <2>4, <2>5, SetInduction
  <2>7. P(q - 1 - p)
    BY <2>5, <2>6 DEF S
  <2>8. e[p] = [val |-> LenMax * (q - 1 - p) + v, next |-> q]
    BY <2>5, <2>7
  <2> DEFINE a == LenMax * (q - 1 - p)
  <2>9. a \in Nat
    BY <1>0, <2>5, Multiples
  <2>10. m = TokenMax + (a + v) /\ e[p] = [val |-> a + v, next |-> q]
    <3>1. m = TokenMax + a + v
      BY <2>1
    <3> HIDE DEF a
    <3> QED BY <1>0, <2>8, <2>9, <3>1 DEF a
  <2> HIDE DEF a
  <2>11. Nibble(m) = TokenMax /\ ~(TokenMax < TokenMax) /\ ~(p > Len(o))
    BY <1>0, <1>2, <2>2 DEF Nibble
  <2>12. Length(o, Nibble(m), p) = [val |-> TokenMax + e[p].val, next |-> e[p].next]
    BY <2>11, Zenon DEF Length
  <2> QED BY <2>10, <2>12
<1> QED BY <1>1, <1>2

-----------------------------------------------------------------------------
(* The sequence of a record *)

Dist(r) == (r.off + 1) % (OffBase * OffBase)

\* From t to before b: the token of record r and the extension of its literals.
HeadAt(o, t, r, b) ==
    /\ b \in Nat /\ b > t
    /\ o[t] = Token(Nibble(r.lit), Nibble(r.len))
    /\ Spelt(o, t + 1, b, r.lit)

\* From b on: n literals of ls behind its first u.
Chars(o, b, ls, u, n) == \A j \in 1..n : o[b + j - 1] = Literal(ls[u + j])

\* From g to before e: the distance of record r and the extension of its match.
TailAt(o, g, r, e) ==
    /\ e \in Nat /\ e >= g + 2
    /\ o[g] = OffByte(LowHalf(Dist(r)))
    /\ o[g + 1] = OffByte(HighHalf(Dist(r)))
    /\ Spelt(o, g + 2, e, r.len)

\* From t to before e: the sequence of record r, its literals behind the first u.
Whole(o, ls, t, r, u, e) ==
    \E b : /\ HeadAt(o, t, r, b)
           /\ Chars(o, b, ls, u, r.lit)
           /\ e <= Len(o) + 1
           /\ IF IsEnd(r) THEN e = b + r.lit ELSE TailAt(o, b + r.lit, r, e)

\* The literals as the decoder should return them.
CharItems(ls, u, n) == [j \in 1..n |-> <<0, ls[u + j]>>]

\* The decoder finds the literals of a sequence.
LEMMA CharsAreRead ==
    ASSUME NEW o \in Seq(Bytes), NEW b \in Nat, b >= 1, NEW n \in Nat, b + n <= Len(o) + 1,
           NEW ls, NEW u, Chars(o, b, ls, u, n)
    PROVE  /\ Literals(o, b, n) = CharItems(ls, u, n)
           /\ \A q \in b..b + n - 1 : Is(o, q, "lit")
<1>0. Len(o) \in Nat
  BY LenProperties
<1>1. \A j \in 1..n : o[b + j - 1] = <<"lit", ls[u + j], 0>>
  BY DEF Chars, Literal
<1>2. Literals(o, b, n) = CharItems(ls, u, n)
  <2>1. \A j \in 1..n : <<0, o[b + j - 1][2]>> = <<0, ls[u + j]>>
    BY <1>1
  <2> QED BY <2>1 DEF Literals, CharItems
<1>3. ASSUME NEW q \in b..b + n - 1 PROVE Is(o, q, "lit")
  <2>1. PICK j : j = q - b + 1
    OBVIOUS
  <2>2. j \in 1..n /\ q = b + j - 1 /\ q \in 1..Len(o)
    BY <1>0, <2>1
  <2>3. o[q] = <<"lit", ls[u + j], 0>>
    BY <1>1, <2>2
  <2> QED BY <2>2, <2>3 DEF Is
<1> QED BY <1>2, <1>3

\* Two bytes hold the distance.
Fits(r) == r.off + 1 < OffBase * OffBase

\* The two bytes of a distance that fits them give the distance.
LEMMA DistanceIsRead ==
    ASSUME NEW r \in Records, Fits(r)
    PROVE  LowHalf(Dist(r)) + OffBase * HighHalf(Dist(r)) = r.off + 1
<1> DEFINE B == OffBase  d == r.off + 1  h == d \div B
<1>1. B \in Nat /\ B > 0 /\ d \in Nat /\ d < B * B
  BY FormatAssumption DEF Records, Fits
<1> HIDE DEF B, d
<1>2. B * B \in Nat
  BY <1>1
<1>3. d % (B * B) = d
  <2> DEFINE m == B * B
  <2>1. m \in Nat /\ d < m
    BY <1>1, <1>2
  <2> HIDE DEF m
  <2>2. d % m = d
    BY <1>1, <2>1
  <2> QED BY <2>2 DEF m
<1>4. h \in Nat /\ d % B \in Nat /\ d = B * h + (d % B)
  BY <1>1
<1>5. h < B
  <2> SUFFICES ASSUME ~(h < B) PROVE FALSE
    OBVIOUS
  <2>1. PICK k \in Nat : h = B + k
    <3>1. h - B \in Nat /\ h = B + (h - B)
      BY <1>1, <1>4
    <3> QED BY <3>1
  <2>2. B * (B + k) = B * B + B * k /\ B * k \in Nat
    BY <1>1
  <2>3. B * h = B * B + B * k
    BY <2>1, <2>2
  <2> HIDE DEF h
  <2> QED BY <1>1, <1>2, <1>4, <2>2, <2>3
<1>6. h % B = h
  <2> HIDE DEF h
  <2> QED BY <1>1, <1>4, <1>5
<1>7. Dist(r) = d
  BY <1>3 DEF Dist, d, B
<1>8. LowHalf(d) = d % B /\ HighHalf(d) = h
  BY <1>6 DEF LowHalf, HighHalf, B
<1>9. B * h + (d % B) = (d % B) + B * h
  <2>1. B * h \in Nat
    BY <1>1, <1>4
  <2> HIDE DEF h
  <2> QED BY <1>4, <2>1
<1> QED BY <1>4, <1>7, <1>8, <1>9 DEF B, d

\* How the decoder takes the sequence at p apart.
Parts(o, p, ll, off) ==
    /\ off = Len(o) + 1 =>
           SequenceAt(o, p) = [items |-> Literals(o, ll.next, ll.val), next |-> off]
    /\ \A ml : /\ off # Len(o) + 1 /\ ml = Length(o, o[p][3], off + 2)
               /\ Is(o, off, "off") /\ Is(o, off + 1, "off") /\ ~(ml.next > Len(o))
         => SequenceAt(o, p) =
               [items |-> Append(Literals(o, ll.next, ll.val),
                                 <<ml.val + MinMatch, o[off][2] + OffBase * o[off + 1][2]>>),
                next |-> ml.next]

\* What SequenceAt says of a place whose parts are known.
LEMMA SequenceParts ==
    ASSUME NEW o, NEW p, NEW ll, ll = Length(o, o[p][2], p + 1), NEW off, off = ll.next + ll.val,
           Is(o, p, "token"), ~(off > Len(o) + 1), \A q \in ll.next..off - 1 : Is(o, q, "lit")
    PROVE  Parts(o, p, ll, off)
<1> DEFINE A == off > Len(o) + 1 \/ \E q \in ll.next..off - 1 : ~Is(o, q, "lit")
           bad == [items |-> Malformed, next |-> Len(o) + 1]
           chars == Literals(o, ll.next, ll.val)
           ml == Length(o, o[p][3], off + 2)
           B == ~(Is(o, off, "off") /\ Is(o, off + 1, "off")) \/ ml.next > Len(o)
           two == [items |-> Append(chars, <<ml.val + MinMatch, o[off][2] + OffBase * o[off + 1][2]>>),
                   next |-> ml.next]
<1>1. SequenceAt(o, p) = IF ~Is(o, p, "token") THEN bad
                         ELSE IF A THEN bad
                         ELSE IF off = Len(o) + 1 THEN [items |-> chars, next |-> off]
                         ELSE IF B THEN bad ELSE two
  BY Zenon DEF SequenceAt
<1>2. ~A
  OBVIOUS
<1> HIDE DEF A, bad, chars, B, two
<1>3. SequenceAt(o, p) = IF off = Len(o) + 1 THEN [items |-> chars, next |-> off]
                         ELSE IF B THEN bad ELSE two
  BY <1>1, <1>2
<1>4. off = Len(o) + 1 => SequenceAt(o, p) = [items |-> chars, next |-> off]
  BY <1>3
<1>5. ASSUME off # Len(o) + 1, Is(o, off, "off"), Is(o, off + 1, "off"), ~(ml.next > Len(o))
      PROVE  SequenceAt(o, p) = two
  BY <1>3, <1>5 DEF B
<1> QED BY <1>4, <1>5, Zenon DEF chars, two, Parts

HeadRead(o, t, r, b, ls, u) ==
    /\ Is(o, t, "token")
    /\ Length(o, o[t][2], t + 1) = [val |-> r.lit, next |-> b]
    /\ o[t][3] = Nibble(r.len)
    /\ Literals(o, b, r.lit) = CharItems(ls, u, r.lit)
    /\ \A q \in b..b + r.lit - 1 : Is(o, q, "lit")

\* The head of a sequence tells where its literals are.
LEMMA HeadIsRead ==
    ASSUME NEW o \in Seq(Bytes), NEW r \in Records, NEW t \in Nat, t >= 1, NEW b, HeadAt(o, t, r, b),
           NEW ls, NEW u, Chars(o, b, ls, u, r.lit), b + r.lit <= Len(o) + 1
    PROVE  HeadRead(o, t, r, b, ls, u)
<1>0. Len(o) \in Nat /\ r.lit \in Nat /\ b \in Nat /\ b > t
  BY LenProperties DEF HeadAt, Records
<1>1. t \in 1..Len(o) /\ t + 1 \in 1..Len(o) + 1 /\ b \in 1..Len(o) + 1
  BY <1>0
<1>2. o[t] = <<"token", Nibble(r.lit), Nibble(r.len)>> /\ Spelt(o, t + 1, b, r.lit)
  BY DEF HeadAt, Token
<1>3. Length(o, Nibble(r.lit), t + 1) = [val |-> r.lit, next |-> b]
  BY <1>0, <1>1, <1>2, SpeltIsRead
<1>4. Is(o, t, "token") /\ o[t][2] = Nibble(r.lit) /\ o[t][3] = Nibble(r.len)
  BY <1>1, <1>2 DEF Is
<1>5. Literals(o, b, r.lit) = CharItems(ls, u, r.lit) /\ \A q \in b..b + r.lit - 1 : Is(o, q, "lit")
  BY <1>0, CharsAreRead
<1> QED BY <1>3, <1>4, <1>5 DEF HeadRead

\* The last sequence of a block decodes to its literals.
LEMMA LastIsRead ==
    ASSUME NEW o \in Seq(Bytes), NEW r \in Records, NEW t \in Nat, t >= 1, IsEnd(r),
           NEW ls, NEW u, Whole(o, ls, t, r, u, Len(o) + 1)
    PROVE  SequenceAt(o, t) = [items |-> CharItems(ls, u, r.lit), next |-> Len(o) + 1]
<1>1. PICK b : HeadAt(o, t, r, b) /\ Chars(o, b, ls, u, r.lit) /\ Len(o) + 1 = b + r.lit
  BY DEF Whole
<1>0. Len(o) \in Nat /\ r.lit \in Nat /\ b \in Nat
  BY <1>1, LenProperties DEF HeadAt, Records
<1>2. PICK ll : ll = [val |-> r.lit, next |-> b]
  OBVIOUS
<1>3. /\ Is(o, t, "token") /\ ll = Length(o, o[t][2], t + 1)
      /\ Literals(o, b, r.lit) = CharItems(ls, u, r.lit)
      /\ \A q \in b..b + r.lit - 1 : Is(o, q, "lit")
  <2>1. b + r.lit <= Len(o) + 1
    BY <1>0, <1>1
  <2>2. HeadRead(o, t, r, b, ls, u)
    BY <1>1, <2>1, HeadIsRead
  <2> QED BY <1>2, <2>2 DEF HeadRead
<1>4. ll.val = r.lit /\ ll.next = b /\ ll.next + ll.val = Len(o) + 1
  BY <1>1, <1>2
<1>5. PICK off : off = ll.next + ll.val
  OBVIOUS
<1>6. off = Len(o) + 1 /\ ~(off > Len(o) + 1) /\ off = b + r.lit
  BY <1>0, <1>4, <1>5
<1>7. SequenceAt(o, t) = [items |-> Literals(o, ll.next, ll.val), next |-> off]
  <2>1. \A q \in ll.next..off - 1 : Is(o, q, "lit")
    <3>0. ll.next = b /\ off = b + r.lit
      BY <1>4, <1>6
    <3>1. ll.next..off - 1 = b..b + r.lit - 1
      <4>1. b + r.lit - 1 = off - 1
        BY <1>0, <3>0
      <4> QED BY <3>0, <4>1, Zenon
    <3> QED BY <1>3, <3>1, Zenon
  <2>2. Parts(o, t, ll, off)
    BY <1>3, <1>5, <1>6, <2>1, SequenceParts, Zenon
  <2> QED BY <1>6, <2>2, Zenon DEF Parts
<1> QED BY <1>3, <1>4, <1>6, <1>7

\* What the decoder takes from the sequence of r at t: its literals and its match.
ReadAs(o, t, r, ls, u, e) ==
    SequenceAt(o, t) = [items |-> Append(CharItems(ls, u, r.lit), <<r.len + MinMatch, r.off + 1>>), next |-> e]

\* Any other decodes to its literals and its match.
LEMMA MatchIsRead ==
    ASSUME NEW o \in Seq(Bytes), NEW r \in Records, NEW t \in Nat, t >= 1, ~IsEnd(r), Fits(r),
           NEW ls, NEW u, NEW e, Whole(o, ls, t, r, u, e), e <= Len(o)
    PROVE  ReadAs(o, t, r, ls, u, e)
<1>1. PICK b : HeadAt(o, t, r, b) /\ Chars(o, b, ls, u, r.lit) /\ TailAt(o, b + r.lit, r, e)
  BY DEF Whole
<1>0. /\ Len(o) \in Nat /\ r.lit \in Nat /\ r.len \in Nat /\ b \in Nat /\ b > t
      /\ e \in Nat /\ e >= b + r.lit + 2
  BY <1>1, LenProperties DEF HeadAt, TailAt, Records
<1>2. PICK ll : ll = [val |-> r.lit, next |-> b]
  OBVIOUS
<1>3. /\ Is(o, t, "token") /\ ll = Length(o, o[t][2], t + 1) /\ o[t][3] = Nibble(r.len)
      /\ Literals(o, b, r.lit) = CharItems(ls, u, r.lit)
      /\ \A q \in b..b + r.lit - 1 : Is(o, q, "lit")
  <2>1. b + r.lit <= Len(o) + 1
    BY <1>0
  <2>2. HeadRead(o, t, r, b, ls, u)
    BY <1>1, <2>1, HeadIsRead
  <2> QED BY <1>2, <2>2 DEF HeadRead
<1>4. PICK off : off = ll.next + ll.val
  OBVIOUS
<1>5. /\ ll.val = r.lit /\ ll.next = b /\ off = b + r.lit /\ off \in 1..Len(o) /\ off + 1 \in 1..Len(o)
      /\ off # Len(o) + 1 /\ ~(off > Len(o) + 1) /\ off + 2 \in 1..Len(o) + 1 /\ e \in 1..Len(o) + 1
  BY <1>0, <1>2, <1>4
<1>6. PICK ml : ml = [val |-> r.len, next |-> e]
  OBVIOUS
<1>7. ml = Length(o, o[t][3], off + 2) /\ ~(ml.next > Len(o))
  <2>1. Spelt(o, off + 2, e, r.len)
    BY <1>1, <1>5 DEF TailAt
  <2>2. Length(o, Nibble(r.len), off + 2) = ml
    BY <1>0, <1>5, <1>6, <2>1, SpeltIsRead
  <2> QED BY <1>0, <1>3, <1>6, <2>2
<1>8. /\ Is(o, off, "off") /\ Is(o, off + 1, "off")
      /\ o[off][2] = LowHalf(Dist(r)) /\ o[off + 1][2] = HighHalf(Dist(r))
  BY <1>1, <1>5 DEF TailAt, OffByte, Is
<1>9. o[off][2] + OffBase * o[off + 1][2] = r.off + 1
  BY <1>8, DistanceIsRead
<1>10. SequenceAt(o, t) = [items |-> Append(Literals(o, ll.next, ll.val),
                                            <<ml.val + MinMatch, o[off][2] + OffBase * o[off + 1][2]>>),
                           next |-> ml.next]
  <2>1. \A q \in ll.next..off - 1 : Is(o, q, "lit")
    <3>0. ll.next = b /\ off = b + r.lit
      BY <1>5
    <3>1. ll.next..off - 1 = b..b + r.lit - 1
      <4>1. b + r.lit - 1 = off - 1
        BY <1>0, <3>0
      <4> QED BY <3>0, <4>1, Zenon
    <3> QED BY <1>3, <3>1, Zenon
  <2>2. Parts(o, t, ll, off)
    BY <1>3, <1>4, <1>5, <2>1, SequenceParts, Zenon
  <2> QED BY <1>5, <1>7, <1>8, <2>2, Zenon DEF Parts
<1>11. ml.val = r.len /\ ml.next = e
  BY <1>6
<1>12. Literals(o, ll.next, ll.val) = CharItems(ls, u, r.lit)
  BY <1>3, <1>5
<1> QED BY <1>9, <1>10, <1>11, <1>12, Zenon DEF ReadAs

-----------------------------------------------------------------------------
(* The items of a block that drops none *)

\* The items its of the k-th record r: its literals of ls, and its match.
RecordItems(its, ls, r, k, from) ==
    /\ \A x \in from + 1..r.upto : its[x + (k - 1)] = <<0, ls[x]>>
    /\ IsMatchRec(r) => its[r.upto + k] = <<r.len + MinMatch, r.off + 1>>

\* As long as no item was dropped, the literals and records are those of the
\* items, the last record being the end of the block.
ItemsInv ==
    /\ p1 = "done" /\ input_size > 0 => max_lit_limit = lit_count_flag
    /\ lit_count_flag = 0 /\ (p1 = "done" => input_size > 0) =>
         /\ Len(items) = Len(lits) + Len(recs) - (IF p1 = "done" THEN 1 ELSE 0)
         /\ \A k \in 1..Len(recs) : RecordItems(items, lits, recs[k], k, UpTo(k - 1))
         /\ p1 = "loop" => \A x \in UpTo(Len(recs)) + 1..Len(lits) : items[x + Len(recs)] = <<0, lits[x]>>

Agree(s, t, n) == \A x \in 1..n : t[x] = s[x]

\* What is added behind does not change the items of a record.
LEMMA RecordItemsKept ==
    ASSUME NEW its, NEW its2, NEW ls, NEW ls2, NEW r \in Records, NEW k \in Nat, k >= 1, NEW from \in Nat,
           NEW n \in Nat, NEW m \in Nat,
           Agree(its, its2, n), Agree(ls, ls2, m),
           r.upto <= m, r.upto + (k - 1) <= n, IsMatchRec(r) => r.upto + k <= n,
           RecordItems(its, ls, r, k, from)
    PROVE  RecordItems(its2, ls2, r, k, from)
<1>1. r.upto \in Nat
  BY DEF Records
<1>2. ASSUME NEW x \in from + 1..r.upto PROVE its2[x + (k - 1)] = <<0, ls2[x]>>
  <2>1. x \in 1..m /\ x + (k - 1) \in 1..n
    BY <1>1
  <2> QED BY <2>1 DEF RecordItems, Agree
<1>3. ASSUME IsMatchRec(r) PROVE its2[r.upto + k] = <<r.len + MinMatch, r.off + 1>>
  <2>1. r.upto + k \in 1..n
    BY <1>1, <1>3
  <2> QED BY <1>3, <2>1 DEF RecordItems, Agree
<1> QED BY <1>2, <1>3 DEF RecordItems, Agree

\* What a step that drops nothing starts from.
LEMMA ItemsFacts ==
    ASSUME IInv, ItemsInv, p1 = "loop", lit_count_flag = 0
    PROVE  /\ items \in Seq(Nat \X Nat) /\ Len(items) = Len(lits) + Len(recs)
           /\ \A k \in 1..Len(recs) :
                 /\ recs[k] \in Records /\ RecordItems(items, lits, recs[k], k, UpTo(k - 1))
                 /\ recs[k].upto <= Len(lits) /\ recs[k].upto + k <= Len(items) /\ UpTo(k - 1) \in Nat
                 /\ recs[k].upto + (k - 1) <= Len(items)
           /\ \A x \in UpTo(Len(recs)) + 1..Len(lits) : items[x + Len(recs)] = <<0, lits[x]>>
<1>1. /\ Len(items) = Len(lits) + Len(recs) - 0 /\ Len(lits) \in Nat /\ Len(recs) \in Nat
      /\ items \in Seq(Nat \X Nat)
  BY EncoderTypes DEF ItemsInv, IInv, TypeOK
<1>2. ASSUME NEW k \in 1..Len(recs)
      PROVE  /\ recs[k] \in Records /\ RecordItems(items, lits, recs[k], k, UpTo(k - 1))
             /\ recs[k].upto <= Len(lits) /\ recs[k].upto + k <= Len(items) /\ UpTo(k - 1) \in Nat
             /\ recs[k].upto + (k - 1) <= Len(items)
  <2>1. recs[k] \in Records /\ recs[k].upto <= Len(lits)
    BY EncoderTypes, ElementOfSeq DEF IInv, RunsInv
  <2>2. k - 1 \in 0..Len(recs)
    BY <1>1
  <2>3. UpTo(k - 1) \in Nat /\ recs[k].upto \in Nat
    BY <2>1, <2>2, EncoderTypes DEF Records
  <2>4. RecordItems(items, lits, recs[k], k, UpTo(k - 1))
    BY DEF ItemsInv
  <2>5. recs[k].upto + k <= Len(items) /\ recs[k].upto + (k - 1) <= Len(items)
    <3>1. PICK u \in Nat : u = recs[k].upto
      BY <2>3
    <3>2. k \in Nat /\ k <= Len(recs) /\ u <= Len(lits)
      BY <1>1, <2>1, <3>1
    <3>3. u + k <= Len(items) /\ u + (k - 1) <= Len(items)
      BY <1>1, <3>2
    <3> QED BY <3>1, <3>3
  <2> QED BY <2>1, <2>3, <2>4, <2>5
<1>3. \A x \in UpTo(Len(recs)) + 1..Len(lits) : items[x + Len(recs)] = <<0, lits[x]>>
  BY DEF ItemsInv
<1> QED BY <1>1, <1>2, <1>3

\* Every action of lz4CompressPart1 keeps the literals and records those of the items.
LEMMA Part1Items ==
    ASSUME IInv, ItemsInv, Part1 PROVE ItemsInv'
<1> DEFINE n == Len(recs)  its == items
<1>1. /\ n \in Nat /\ i \in Nat /\ Len(lits) \in Nat /\ lits \in Seq(Nat) /\ UpTo(n) \in Nat
      /\ lit_count_flag \in {0, 1}
  <2>1. n \in 0..n
    BY EncoderTypes
  <2> QED BY <2>1, EncoderTypes DEF IInv, TypeOK
<1>2. CASE Return1
  <2>1. p1' = "done" /\ ~(input_size' > 0)
    BY <1>2 DEF Return1
  <2> QED BY <2>1 DEF ItemsInv
<1>3. CASE FirstRead
  <2>1. p1 = "start" /\ p1' = "loop" /\ lits' = <<>> /\ recs' = <<>> /\ items' = items /\ lits' = lits /\ recs' = recs
        /\ lit_count_flag' = 0 /\ lit_count_flag = 0
    BY <1>3 DEF FirstRead, IInv, Part1Inv
  <2>2. Len(lits') = 0 /\ Len(recs') = 0 /\ Len(items') = 0
    BY <2>1 DEF ItemsInv
  <2>3. UpTo(Len(recs))' = 0
    BY <2>2 DEF UpTo
  <2> QED BY <2>1, <2>2, <2>3 DEF ItemsInv
<1>4. CASE DropItem
  BY <1>4 DEF DropItem, Iterate, ItemsInv
<1>5. CASE EmitLiteral
  <2>1. /\ lits' = Append(lits, i) /\ recs' = recs /\ p1 = "loop" /\ p1' = "loop" /\ Iterate
        /\ nextEncodedValue.len = 0 /\ lit_count_flag' = lit_count_flag
    BY <1>5 DEF EmitLiteral, Iterate
  <2>2. items' = Append(items, <<0, i>>)
    BY <2>1 DEF Iterate
  <2> SUFFICES ASSUME lit_count_flag = 0 PROVE ItemsInv'
    BY <2>1 DEF ItemsInv
  <2>3. PICK ls, is2 : ls = Append(lits, i) /\ is2 = Append(items, <<0, i>>)
    OBVIOUS
  <2>4. items \in Seq(Nat \X Nat) /\ Len(items) \in Nat /\ Len(items) = Len(lits) + n
    BY <2>1, ItemsFacts, LenProperties
  <2>5. /\ Len(ls) = Len(lits) + 1 /\ ls[Len(lits) + 1] = i /\ \A x \in 1..Len(lits) : ls[x] = lits[x]
        /\ Len(is2) = Len(items) + 1 /\ is2[Len(items) + 1] = <<0, i>> /\ \A x \in 1..Len(items) : is2[x] = items[x]
    <3>1. <<0, i>> \in Nat \X Nat
      BY <1>1
    <3>2. Len(ls) = Len(lits) + 1 /\ ls[Len(lits) + 1] = i /\ \A x \in 1..Len(lits) : ls[x] = lits[x]
      BY <1>1, <2>3, AppendProperties
    <3> DEFINE e == <<0, i>>
    <3>3. e \in Nat \X Nat /\ is2 = Append(items, e)
      BY <2>3, <3>1
    <3> HIDE DEF e
    <3>4. Len(is2) = Len(items) + 1 /\ is2[Len(items) + 1] = e /\ \A x \in 1..Len(items) : is2[x] = items[x]
      BY <2>4, <3>3, AppendProperties
    <3> QED BY <3>2, <3>4 DEF e
  <2>6. ASSUME NEW k \in 1..n PROVE RecordItems(is2, ls, recs[k], k, UpTo(k - 1))
    <3>1. /\ recs[k] \in Records /\ RecordItems(items, lits, recs[k], k, UpTo(k - 1))
          /\ recs[k].upto <= Len(lits) /\ recs[k].upto + k <= Len(items) /\ UpTo(k - 1) \in Nat
          /\ recs[k].upto + (k - 1) <= Len(items)
      BY <2>1, ItemsFacts
    <3>2. k \in Nat /\ k >= 1
      BY <1>1
    <3>3. Agree(items, is2, Len(items)) /\ Agree(lits, ls, Len(lits))
      BY <2>5 DEF Agree
    <3> QED BY <1>1, <2>4, <3>1, <3>2, <3>3, RecordItemsKept
  <2>7. ASSUME NEW x \in UpTo(n) + 1..Len(ls) PROVE is2[x + n] = <<0, ls[x]>>
    <3>1. CASE x = Len(lits) + 1
      <4>1. x + n = Len(items) + 1
        BY <1>1, <2>4, <3>1
      <4> QED BY <2>5, <3>1, <4>1
    <3>2. CASE x # Len(lits) + 1
      <4>1. x \in UpTo(n) + 1..Len(lits) /\ x \in 1..Len(lits)
        BY <1>1, <2>5, <3>2
      <4>2. x + n \in 1..Len(items)
        BY <1>1, <2>4, <4>1
      <4>3. items[x + n] = <<0, lits[x]>>
        BY <2>1, <4>1, ItemsFacts
      <4> QED BY <2>5, <4>1, <4>2, <4>3
    <3> QED BY <3>1, <3>2
  <2>8. \A k : UpTo(k)' = UpTo(k)
    BY <2>1 DEF UpTo
  <2>9. Len(is2) = Len(ls) + n - 0
    BY <1>1, <2>4, <2>5
  <2>10. UpTo(Len(recs))' = UpTo(n)
    BY <2>1 DEF UpTo
  <2> QED BY <2>1, <2>2, <2>3, <2>6, <2>7, <2>8, <2>9, <2>10 DEF ItemsInv
<1>6. CASE EmitRecord
  <2> DEFINE item == nextEncodedValue
             e == <<item.len, item.off + 1>>
  <2>1. /\ Iterate /\ item.len > 0 /\ lits' = lits /\ p1 = "loop" /\ p1' = "loop" /\ lit_count_flag' = lit_count_flag
        /\ recs' = Append(recs, Record(lit_count, item.len - MinMatch, item.off, Len(lits), i'))
        /\ items' = Append(items, e)
    BY <1>6 DEF EmitRecord, Iterate
  <2> SUFFICES ASSUME lit_count_flag = 0 PROVE ItemsInv'
    BY <2>1 DEF ItemsInv
  <2>2. /\ item.len \in Nat /\ item.off \in Nat /\ i' \in Nat
        /\ item.len - MinMatch \in Nat /\ lit_count \in Nat
    <3>1. item.len - MinMatch \in 0..MaxMatch - MinMatch
      BY <2>1, IterateFacts, OfferType
    <3> QED BY <2>1, <3>1, IterateFacts, OfferType DEF IInv, TypeOK
  <2>3. PICK r : r = Record(lit_count, item.len - MinMatch, item.off, Len(lits), i')
    OBVIOUS
  <2>4. /\ r \in Records /\ r.upto = Len(lits) /\ r.off = item.off /\ r.len + MinMatch = item.len
        /\ recs' = Append(recs, r)
    <3>1. r.len = item.len - MinMatch /\ r \in Records /\ r.upto = Len(lits) /\ r.off = item.off
      BY <1>1, <2>2, <2>3 DEF Record, Records
    <3> QED BY <2>1, <2>2, <2>3, <3>1 DEF MinMatch
  <2>5. /\ Len(recs') = n + 1 /\ recs'[n + 1] = r /\ \A k \in 1..n : recs'[k] = recs[k]
        /\ \A k \in 0..n : UpTo(k)' = UpTo(k)
    BY <2>4, OldRecords
  <2>6. items \in Seq(Nat \X Nat) /\ Len(items) \in Nat /\ Len(items) = Len(lits) + n
    BY <2>1, ItemsFacts, LenProperties
  <2>7. PICK is2 : is2 = Append(items, e)
    OBVIOUS
  <2>8. Len(is2) = Len(items) + 1 /\ is2[Len(items) + 1] = e /\ \A x \in 1..Len(items) : is2[x] = items[x]
    <3>1. e \in Nat \X Nat
      BY <2>2
    <3> HIDE DEF e
    <3> QED BY <2>6, <2>7, <3>1, AppendProperties
  <2>9. ASSUME NEW k \in 1..n + 1 PROVE RecordItems(is2, lits, recs'[k], k, UpTo(k - 1)')
    <3>1. CASE k \in 1..n
      <4>1. /\ recs[k] \in Records /\ RecordItems(items, lits, recs[k], k, UpTo(k - 1))
            /\ recs[k].upto <= Len(lits) /\ recs[k].upto + k <= Len(items) /\ UpTo(k - 1) \in Nat
            /\ recs[k].upto + (k - 1) <= Len(items)
        BY <2>1, <3>1, ItemsFacts
      <4>2. k \in Nat /\ k >= 1 /\ k - 1 \in 0..n
        BY <1>1, <3>1
      <4>3. RecordItems(is2, lits, recs[k], k, UpTo(k - 1))
        <5>1. Agree(items, is2, Len(items)) /\ Agree(lits, lits, Len(lits))
          BY <2>8 DEF Agree
        <5> QED BY <1>1, <2>6, <4>1, <4>2, <5>1, RecordItemsKept
      <4> QED BY <2>5, <3>1, <4>2, <4>3
    <3>2. CASE k = n + 1
      <4>1. k - 1 = n /\ n \in 0..n /\ recs'[k] = r
        BY <1>1, <2>5, <3>2
      <4>2. UpTo(k - 1)' = UpTo(n)
        BY <2>5, <4>1
      <4>3. ASSUME NEW x \in UpTo(n) + 1..r.upto PROVE is2[x + (k - 1)] = <<0, lits[x]>>
        <5>1. x \in UpTo(n) + 1..Len(lits) /\ x + n \in 1..Len(items)
          BY <1>1, <2>4, <2>6
        <5>2. items[x + n] = <<0, lits[x]>>
          BY <2>1, <5>1, ItemsFacts
        <5> QED BY <2>8, <4>1, <5>1, <5>2
      <4>4. is2[r.upto + k] = <<r.len + MinMatch, r.off + 1>>
        <5>1. r.upto + k = Len(items) + 1
          BY <1>1, <2>4, <2>6, <3>2
        <5> QED BY <2>4, <2>8, <5>1
      <4>5. RecordItems(is2, lits, r, k, UpTo(n))
        BY <4>3, <4>4 DEF RecordItems
      <4> QED BY <4>1, <4>2, <4>5
    <3> QED BY <1>1, <3>1, <3>2
  <2>10. UpTo(Len(recs))' = Len(lits)
    <3>1. n + 1 # 0
      BY <1>1
    <3> QED BY <2>4, <2>5, <3>1 DEF UpTo
  <2>11. Len(is2) = Len(lits) + (n + 1) - 0 /\ Len(lits) + 1..Len(lits) = {}
    BY <1>1, <2>6, <2>8
  <2> QED BY <2>1, <2>5, <2>7, <2>9, <2>10, <2>11 DEF ItemsInv
<1>7. CASE Finish1
  <2>1. /\ lits' = lits /\ items' = items /\ p1 = "loop" /\ p1' = "done" /\ input_size' = input_size
        /\ max_lit_limit' = lit_count_flag' /\ i >= input_size
    BY <1>7 DEF Finish1
  <2>2. lit_count >= 1 /\ lit_count \in Nat
    <3>1. i <= input_size /\ (i = input_size => lit_count >= 1) /\ input_size \in Nat
      BY <2>1, SizesAssumption DEF IInv, Part1Inv, TypeOK
    <3> QED BY <1>1, <2>1, <3>1 DEF IInv, TypeOK
  <2>3. recs' = Append(recs, LastRecord) /\ (lit_count_flag' = 0 => lit_count_flag = 0)
    BY <1>7, <2>2 DEF Finish1
  <2> SUFFICES ASSUME lit_count_flag = 0 PROVE ItemsInv'
    BY <2>1, <2>3 DEF ItemsInv
  <2>4. PICK r : r = LastRecord
    OBVIOUS
  <2>5. r \in Records /\ r.upto = Len(lits) /\ IsEnd(r) /\ recs' = Append(recs, r)
    BY <1>1, <2>2, <2>3, <2>4 DEF LastRecord, Record, Records, EndMark, IsEnd, IsSpecialEnd, IsNormalEnd
  <2>6. /\ Len(recs') = n + 1 /\ recs'[n + 1] = r /\ \A k \in 1..n : recs'[k] = recs[k]
        /\ \A k \in 0..n : UpTo(k)' = UpTo(k)
    BY <2>5, OldRecords
  <2>7. Len(items) \in Nat /\ Len(items) = Len(lits) + n
    BY <2>1, ItemsFacts, LenProperties
  <2>8. ~IsMatchRec(r)
    <3>1. r.len \in Nat /\ r.off \in Nat /\ (r.len = 777 \/ r.off = 0)
      BY <2>5 DEF IsEnd, IsSpecialEnd, IsNormalEnd, EndMark, Records
    <3>2. MaxMatch \in Int /\ MaxMatch - MinMatch <= 251
      BY LimitAssumption DEF MinMatch
    <3> QED BY <3>1, <3>2 DEF IsMatchRec, MinMatch
  <2>9. ASSUME NEW k \in 1..n + 1 PROVE RecordItems(items, lits, recs'[k], k, UpTo(k - 1)')
    <3>1. CASE k \in 1..n
      <4>1. RecordItems(items, lits, recs[k], k, UpTo(k - 1)) /\ k - 1 \in 0..n
        <5>1. RecordItems(items, lits, recs[k], k, UpTo(k - 1))
          BY <2>1, <3>1, ItemsFacts
        <5> QED BY <1>1, <3>1, <5>1
      <4> QED BY <2>6, <3>1, <4>1
    <3>2. CASE k = n + 1
      <4>1. k - 1 = n /\ n \in 0..n /\ recs'[k] = r
        BY <1>1, <2>6, <3>2
      <4>2. UpTo(k - 1)' = UpTo(n)
        BY <2>6, <4>1
      <4>3. \A x \in UpTo(n) + 1..Len(lits) : items[x + n] = <<0, lits[x]>>
        BY <2>1, ItemsFacts
      <4>4. RecordItems(items, lits, r, k, UpTo(n))
        BY <2>5, <2>8, <4>1, <4>3 DEF RecordItems
      <4> QED BY <4>1, <4>2, <4>4
    <3> QED BY <1>1, <3>1, <3>2
  <2>10. Len(items) = Len(lits) + (n + 1) - 1
    BY <1>1, <2>7
  <2> QED BY <2>1, <2>6, <2>9, <2>10 DEF ItemsInv
<1> QED BY <1>2, <1>3, <1>4, <1>5, <1>6, <1>7 DEF Part1

-----------------------------------------------------------------------------
(* A sequence while it is written *)

\* All of the length m is written from p on, but for rest.
Half(o, p, m, rest) ==
    /\ m >= TokenMax /\ p <= Len(o) + 1
    /\ \A j \in p..Len(o) : o[j] = LenByte(LenMax)
    /\ m = TokenMax + LenMax * (Len(o) + 1 - p) + rest

InHead(o, t, r, rest) ==
    /\ t <= Len(o) /\ o[t] = Token(Nibble(r.lit), Nibble(r.len))
    /\ Half(o, t + 1, r.lit, rest)

\* All but the last `left' literals of r are written.
InChars(o, ls, t, r, u, left) ==
    \E b : /\ HeadAt(o, t, r, b)
           /\ Chars(o, b, ls, u, r.lit - left)
           /\ Len(o) + 1 = b + (r.lit - left)

AtOffset1(o, ls, t, r, u) ==
    \E b : /\ HeadAt(o, t, r, b)
           /\ Chars(o, b, ls, u, r.lit)
           /\ Len(o) = b + r.lit
           /\ o[b + r.lit] = OffByte(LowHalf(Dist(r)))

InTail(o, ls, t, r, u, rest) ==
    \E b : /\ HeadAt(o, t, r, b)
           /\ Chars(o, b, ls, u, r.lit)
           /\ b + r.lit + 1 <= Len(o)
           /\ o[b + r.lit] = OffByte(LowHalf(Dist(r)))
           /\ o[b + r.lit + 1] = OffByte(HighHalf(Dist(r)))
           /\ Half(o, b + r.lit + 2, r.len, rest)

\* What is written does not change.
LEMMA SpeltKept ==
    ASSUME NEW o, NEW o2, NEW n \in Nat, Agree(o, o2, n), NEW m, NEW p \in Nat, p >= 1, NEW q \in Nat, q <= n + 1,
           Spelt(o, p, q, m)
    PROVE  Spelt(o2, p, q, m)
<1>1. CASE m < TokenMax
  BY <1>1 DEF Spelt
<1>2. CASE ~(m < TokenMax)
  <2>1. q > p /\ \A j \in p..q - 2 : o[j] = LenByte(LenMax)
    BY <1>2 DEF Spelt
  <2>2. \A j \in p..q - 2 : o2[j] = LenByte(LenMax)
    BY <2>1 DEF Agree
  <2>3. o2[q - 1] = o[q - 1]
    BY <2>1 DEF Agree
  <2> QED BY <1>2, <2>1, <2>2, <2>3, Zenon DEF Spelt
<1> QED BY <1>1, <1>2

\* So does the head of a sequence.
LEMMA HeadKept ==
    ASSUME NEW o, NEW o2, NEW n \in Nat, Agree(o, o2, n), NEW r, NEW t \in Nat, t >= 1, NEW b, b <= n + 1,
           HeadAt(o, t, r, b)
    PROVE  HeadAt(o2, t, r, b)
<1>1. /\ b \in Nat /\ b > t /\ o[t] = Token(Nibble(r.lit), Nibble(r.len)) /\ Spelt(o, t + 1, b, r.lit)
  BY DEF HeadAt
<1>2. t \in 1..n /\ t + 1 \in Nat /\ t + 1 >= 1
  BY <1>1
<1>3. Spelt(o2, t + 1, b, r.lit) /\ o2[t] = o[t]
  <2>1. Spelt(o2, t + 1, b, r.lit)
    BY <1>1, <1>2, SpeltKept
  <2> QED BY <1>2, <2>1 DEF Agree
<1> QED BY <1>1, <1>3 DEF HeadAt

\* And its literals.
LEMMA CharsKept ==
    ASSUME NEW o, NEW o2, NEW n \in Nat, Agree(o, o2, n), NEW ls, NEW ls2, NEW m \in Nat, Agree(ls, ls2, m),
           NEW b \in Nat, b >= 1, NEW u \in Nat, NEW k \in Nat, b + k <= n + 1, u + k <= m,
           Chars(o, b, ls, u, k)
    PROVE  Chars(o2, b, ls2, u, k)
<1>1. ASSUME NEW j \in 1..k PROVE o2[b + j - 1] = Literal(ls2[u + j])
  <2>1. b + j - 1 \in 1..n /\ u + j \in 1..m
    OBVIOUS
  <2>2. o2[b + j - 1] = o[b + j - 1] /\ ls2[u + j] = ls[u + j]
    BY <2>1 DEF Agree
  <2> QED BY <2>2 DEF Chars
<1> QED BY <1>1 DEF Chars

\* And its distance and match length.
LEMMA TailKept ==
    ASSUME NEW o, NEW o2, NEW n \in Nat, Agree(o, o2, n), NEW r, NEW g \in Nat, g >= 1, NEW e, e <= n + 1,
           TailAt(o, g, r, e)
    PROVE  TailAt(o2, g, r, e)
<1>1. e \in Nat /\ e >= g + 2 /\ Spelt(o, g + 2, e, r.len)
  BY DEF TailAt
<1>2. g \in 1..n /\ g + 1 \in 1..n /\ g + 2 \in Nat /\ g + 2 >= 1
  BY <1>1
<1>3. Spelt(o2, g + 2, e, r.len)
  BY <1>1, <1>2, SpeltKept
<1>4. o2[g] = o[g] /\ o2[g + 1] = o[g + 1]
  BY <1>2 DEF Agree
<1> QED BY <1>1, <1>3, <1>4 DEF TailAt

\* And a whole sequence.
LEMMA WholeKept ==
    ASSUME NEW o, NEW o2, Len(o) \in Nat, Len(o2) \in Nat, Len(o2) >= Len(o), Agree(o, o2, Len(o)),
           NEW ls, NEW ls2, NEW m \in Nat, Agree(ls, ls2, m), NEW r \in Records, NEW t \in Nat, t >= 1,
           NEW u \in Nat, u + r.lit <= m, NEW e \in Nat, Whole(o, ls, t, r, u, e)
    PROVE  Whole(o2, ls2, t, r, u, e)
<1>1. PICK b : /\ HeadAt(o, t, r, b) /\ Chars(o, b, ls, u, r.lit) /\ e <= Len(o) + 1
               /\ IF IsEnd(r) THEN e = b + r.lit ELSE TailAt(o, b + r.lit, r, e)
  BY DEF Whole
<1>2. /\ b \in Nat /\ b >= 1 /\ r.lit \in Nat /\ b + r.lit <= Len(o) + 1 /\ b <= Len(o) + 1
      /\ b + r.lit \in Nat /\ b + r.lit >= 1
  <2>1. b \in Nat /\ b > t /\ r.lit \in Nat
    BY <1>1 DEF HeadAt, Records
  <2>2. e >= b + r.lit
    BY <1>1, <2>1 DEF TailAt
  <2> QED BY <1>1, <2>1, <2>2
<1>3. HeadAt(o2, t, r, b)
  BY <1>1, <1>2, HeadKept
<1>4. Chars(o2, b, ls2, u, r.lit)
  BY <1>1, <1>2, CharsKept
<1>5. ~IsEnd(r) => TailAt(o2, b + r.lit, r, e)
  BY <1>1, <1>2, TailKept
<1>6. e <= Len(o2) + 1
  BY <1>1
<1> QED BY <1>1, <1>3, <1>4, <1>5, <1>6, Zenon DEF Whole

\* One byte is written.
Wrote(o, o2, x) ==
    /\ Len(o) \in Nat /\ Len(o2) = Len(o) + 1
    /\ o2[Len(o) + 1] = x /\ Agree(o, o2, Len(o))

\* A length byte that leaves the rest for more.
LEMMA HalfMore ==
    ASSUME NEW o, NEW o2, Wrote(o, o2, LenByte(LenMax)), NEW m \in Nat, NEW p \in Nat, p >= 1,
           NEW rest \in Nat, rest >= LenMax, Half(o, p, m, rest)
    PROVE  Half(o2, p, m, rest - LenMax)
<1> DEFINE k == Len(o) + 1 - p
<1>0. LenMax \in Nat /\ TokenMax \in Nat /\ Len(o) \in Nat
  BY FormatAssumption DEF Wrote
<1>1. /\ m >= TokenMax /\ p <= Len(o) + 1
      /\ \A j \in p..Len(o) : o[j] = LenByte(LenMax)
      /\ m = TokenMax + LenMax * k + rest
  BY DEF Half
<1>2. k \in Nat /\ Len(o2) + 1 - p = k + 1 /\ p <= Len(o2) + 1
  BY <1>0, <1>1 DEF Wrote
<1>3. ASSUME NEW j \in p..Len(o2) PROVE o2[j] = LenByte(LenMax)
  <2>1. CASE j = Len(o) + 1
    BY <2>1 DEF Wrote
  <2>2. CASE j # Len(o) + 1
    <3>1. j \in p..Len(o) /\ j \in 1..Len(o)
      BY <1>0, <2>2 DEF Wrote
    <3>2. o2[j] = o[j]
      BY <3>1 DEF Wrote, Agree
    <3> QED BY <1>1, <3>1, <3>2
  <2> QED BY <2>1, <2>2
<1> HIDE DEF k
<1>4. m = TokenMax + LenMax * (k + 1) + (rest - LenMax)
  <2> DEFINE a == LenMax * k  c == LenMax * (k + 1)
  <2>1. a \in Nat /\ c = a + LenMax
    BY <1>0, <1>2, Multiples
  <2>2. m = TokenMax + a + rest
    BY <1>1
  <2> HIDE DEF a, c
  <2>3. m = TokenMax + c + (rest - LenMax)
    BY <1>0, <2>1, <2>2
  <2> QED BY <2>3 DEF c
<1> QED BY <1>1, <1>2, <1>3, <1>4 DEF Half

\* The last length byte.
LEMMA HalfLast ==
    ASSUME NEW o, NEW o2, NEW m \in Nat, NEW p \in Nat, p >= 1,
           NEW rest \in Nat, rest < LenMax, Half(o, p, m, rest), Wrote(o, o2, LenByte(rest))
    PROVE  Spelt(o2, p, Len(o2) + 1, m)
<1> DEFINE q == Len(o2) + 1
<1>0. LenMax \in Nat /\ TokenMax \in Nat /\ Len(o) \in Nat
  BY FormatAssumption DEF Wrote
<1>1. /\ m >= TokenMax /\ p <= Len(o) + 1
      /\ \A j \in p..Len(o) : o[j] = LenByte(LenMax)
      /\ m = TokenMax + LenMax * (Len(o) + 1 - p) + rest
  BY DEF Half
<1>2. q > p /\ q - 1 = Len(o) + 1 /\ q - 2 = Len(o) /\ ~(m < TokenMax)
  BY <1>0, <1>1 DEF Wrote
<1> HIDE DEF q
<1>3. ASSUME NEW j \in p..q - 2 PROVE o2[j] = LenByte(LenMax)
  <2>1. j \in p..Len(o) /\ j \in 1..Len(o)
    BY <1>0, <1>2
  <2>2. o2[j] = o[j]
    BY <2>1 DEF Wrote, Agree
  <2> QED BY <1>1, <2>1, <2>2
<1>4. o2[q - 1] = LenByte(rest) /\ m = TokenMax + LenMax * (q - 1 - p) + rest
  BY <1>1, <1>2 DEF Wrote
<1>5. Spelt(o2, p, q, m)
  BY <1>2, <1>3, <1>4 DEF Spelt
<1> QED BY <1>5 DEF q

\* Nothing is written of an extension yet.
LEMMA HalfNone ==
    ASSUME NEW o, Len(o) \in Nat, NEW m \in Nat, Extended(m)
    PROVE  Half(o, Len(o) + 1, m, m - Nibble(m))
<1>0. LenMax \in Nat /\ TokenMax \in Nat /\ m >= TokenMax /\ Nibble(m) = TokenMax
  BY FormatAssumption DEF Extended, Nibble
<1>1. Len(o) + 1 - (Len(o) + 1) = 0 /\ LenMax * 0 = 0
  BY <1>0
<1>2. m = TokenMax + LenMax * (Len(o) + 1 - (Len(o) + 1)) + (m - Nibble(m))
  BY <1>0, <1>1
<1>3. \A j \in Len(o) + 1..Len(o) : o[j] = LenByte(LenMax)
  OBVIOUS
<1> QED BY <1>0, <1>2, <1>3 DEF Half

\* After the token come the extension bytes of the literals, or the literals.
LEMMA AfterToken ==
    ASSUME NEW o, NEW o2, NEW r \in Records, NEW t \in Nat, t >= 1, Len(o) + 1 = t, NEW ls, NEW u \in Nat,
           Wrote(o, o2, Token(Nibble(r.lit), Nibble(r.len)))
    PROVE  /\ Extended(r.lit) => InHead(o2, t, r, r.lit - Nibble(r.lit))
           /\ ~Extended(r.lit) => InChars(o2, ls, t, r, u, r.lit)
<1>0. r.lit \in Nat /\ Len(o2) = t /\ Len(o2) \in Nat /\ o2[t] = Token(Nibble(r.lit), Nibble(r.len))
  BY DEF Wrote, Records
<1>1. ASSUME Extended(r.lit) PROVE InHead(o2, t, r, r.lit - Nibble(r.lit))
  BY <1>0, <1>1, HalfNone DEF InHead
<1>2. ASSUME ~Extended(r.lit) PROVE InChars(o2, ls, t, r, u, r.lit)
  <2>1. Spelt(o2, t + 1, t + 1, r.lit)
    BY <1>0, <1>2, FormatAssumption DEF Extended, Spelt
  <2>2. HeadAt(o2, t, r, t + 1)
    BY <1>0, <2>1 DEF HeadAt
  <2>3. r.lit - r.lit = 0 /\ Len(o2) + 1 = t + 1 + 0
    BY <1>0
  <2>4. Chars(o2, t + 1, ls, u, 0)
    BY DEF Chars
  <2> QED BY <2>2, <2>3, <2>4 DEF InChars
<1> QED BY <1>1, <1>2

\* After an extension byte comes another, or the literals.
LEMMA AfterLitLen ==
    ASSUME NEW o, NEW o2, NEW r \in Records, NEW t \in Nat, t >= 1, NEW ls, NEW u \in Nat,
           NEW rest \in Nat, InHead(o, t, r, rest)
    PROVE  /\ rest >= LenMax /\ Wrote(o, o2, LenByte(LenMax)) => InHead(o2, t, r, rest - LenMax)
           /\ ~(rest >= LenMax) /\ Wrote(o, o2, LenByte(rest)) => InChars(o2, ls, t, r, u, r.lit)
<1>0. r.lit \in Nat /\ t + 1 \in Nat /\ t + 1 >= 1 /\ LenMax \in Nat
  BY FormatAssumption DEF Records
<1>1. t <= Len(o) /\ o[t] = Token(Nibble(r.lit), Nibble(r.len)) /\ Half(o, t + 1, r.lit, rest)
  BY DEF InHead
<1>2. ASSUME NEW x, Wrote(o, o2, x) PROVE t <= Len(o2) /\ o2[t] = o[t] /\ Len(o2) \in Nat
  BY <1>1, <1>2 DEF Wrote, Agree
<1>3. ASSUME rest >= LenMax, Wrote(o, o2, LenByte(LenMax)) PROVE InHead(o2, t, r, rest - LenMax)
  BY <1>0, <1>1, <1>2, <1>3, HalfMore DEF InHead
<1>4. ASSUME ~(rest >= LenMax), Wrote(o, o2, LenByte(rest)) PROVE InChars(o2, ls, t, r, u, r.lit)
  <2>1. Spelt(o2, t + 1, Len(o2) + 1, r.lit)
    BY <1>0, <1>1, <1>4, HalfLast
  <2>2. Len(o2) + 1 > t /\ Len(o2) + 1 \in Nat /\ o2[t] = o[t] /\ Len(o2) \in Nat
    BY <1>2, <1>4
  <2>3. HeadAt(o2, t, r, Len(o2) + 1)
    BY <1>1, <2>1, <2>2 DEF HeadAt
  <2>4. r.lit - r.lit = 0 /\ Len(o2) + 1 = Len(o2) + 1 + 0
    BY <1>0, <2>2
  <2>5. Chars(o2, Len(o2) + 1, ls, u, 0)
    BY DEF Chars
  <2> QED BY <2>3, <2>4, <2>5 DEF InChars
<1> QED BY <1>3, <1>4

\* After a literal one less is left.
LEMMA AfterChar ==
    ASSUME NEW o, NEW o2, NEW r \in Records, NEW t \in Nat, t >= 1, NEW ls, NEW u \in Nat,
           NEW left \in Nat, left >= 1, left <= r.lit, InChars(o, ls, t, r, u, left),
           Wrote(o, o2, Literal(ls[u + (r.lit - left) + 1]))
    PROVE  InChars(o2, ls, t, r, u, left - 1)
<1>1. PICK b : /\ HeadAt(o, t, r, b) /\ Chars(o, b, ls, u, r.lit - left) /\ Len(o) + 1 = b + (r.lit - left)
  BY DEF InChars
<1> DEFINE n == r.lit - left
<1>2. /\ n \in Nat /\ b \in Nat /\ b > t /\ r.lit - (left - 1) = n + 1 /\ Len(o) \in Nat /\ Len(o) + 1 = b + n
      /\ Len(o2) = Len(o) + 1 /\ Agree(o, o2, Len(o)) /\ o2[Len(o) + 1] = Literal(ls[u + n + 1])
  <2>1. r.lit \in Nat /\ b \in Nat /\ b > t
    BY <1>1 DEF HeadAt, Records
  <2> QED BY <1>1, <2>1 DEF Wrote
<1>3. Chars(o, b, ls, u, n)
  BY <1>1
<1> HIDE DEF n
<1>4. HeadAt(o2, t, r, b)
  <2>1. b <= Len(o) + 1
    BY <1>2
  <2> QED BY <1>1, <1>2, <2>1, HeadKept
<1>5. ASSUME NEW j \in 1..n + 1 PROVE o2[b + j - 1] = Literal(ls[u + j])
  <2>1. CASE j = n + 1
    <3>1. b + j - 1 = Len(o) + 1 /\ u + j = u + n + 1
      BY <1>2, <2>1
    <3> QED BY <1>2, <3>1
  <2>2. CASE j # n + 1
    <3>1. j \in 1..n /\ b + j - 1 \in 1..Len(o)
      BY <1>2, <2>2
    <3>2. o2[b + j - 1] = o[b + j - 1]
      BY <1>2, <3>1 DEF Agree
    <3> QED BY <1>3, <3>1, <3>2 DEF Chars
  <2> QED BY <2>1, <2>2
<1>6. Chars(o2, b, ls, u, r.lit - (left - 1))
  BY <1>2, <1>5 DEF Chars
<1>7. Len(o2) + 1 = b + (r.lit - (left - 1))
  BY <1>2
<1> QED BY <1>4, <1>6, <1>7 DEF InChars

\* After the last literal the last sequence of a block is whole.
LEMMA AllChars ==
    ASSUME NEW o, NEW r \in Records, NEW t \in Nat, NEW ls, NEW u \in Nat, InChars(o, ls, t, r, u, 0)
    PROVE  /\ \E b : HeadAt(o, t, r, b) /\ Chars(o, b, ls, u, r.lit) /\ Len(o) + 1 = b + r.lit
           /\ IsEnd(r) => Whole(o, ls, t, r, u, Len(o) + 1)
<1>1. r.lit - 0 = r.lit
  BY DEF Records
<1>2. PICK b : HeadAt(o, t, r, b) /\ Chars(o, b, ls, u, r.lit) /\ Len(o) + 1 = b + r.lit
  BY <1>1 DEF InChars
<1>3. Len(o) + 1 <= Len(o) + 1
  <2>1. b + r.lit \in Int
    BY <1>2 DEF HeadAt, Records
  <2>2. \A x \in Int : x <= x
    OBVIOUS
  <2> QED BY <1>2, <2>1, <2>2
<1>4. IsEnd(r) => Whole(o, ls, t, r, u, Len(o) + 1)
  BY <1>2, <1>3 DEF Whole
<1> QED BY <1>2, <1>4

\* After the low half of the distance comes the high half.
LEMMA AfterOffset0 ==
    ASSUME NEW o, NEW o2, NEW r \in Records, NEW t \in Nat, t >= 1, NEW ls, NEW u \in Nat,
           InChars(o, ls, t, r, u, 0), Wrote(o, o2, OffByte(LowHalf(Dist(r))))
    PROVE  AtOffset1(o2, ls, t, r, u)
<1>1. PICK b : HeadAt(o, t, r, b) /\ Chars(o, b, ls, u, r.lit) /\ Len(o) + 1 = b + r.lit
  BY AllChars
<1>2. /\ b \in Nat /\ b >= 1 /\ r.lit \in Nat /\ Len(o) \in Nat /\ Len(o2) = Len(o) + 1 /\ Agree(o, o2, Len(o))
      /\ o2[Len(o) + 1] = OffByte(LowHalf(Dist(r)))
  BY <1>1 DEF HeadAt, Records, Wrote
<1>3. HeadAt(o2, t, r, b)
  <2>1. b <= Len(o) + 1
    BY <1>1, <1>2
  <2> QED BY <1>1, <1>2, <2>1, HeadKept
<1>4. Chars(o2, b, ls, u, r.lit)
  <2>1. Agree(ls, ls, u + r.lit) /\ u + r.lit \in Nat /\ b + r.lit <= Len(o) + 1 /\ u + r.lit <= u + r.lit
    BY <1>1, <1>2 DEF Agree
  <2> QED BY <1>1, <1>2, <2>1, CharsKept
<1>5. Len(o2) = b + r.lit /\ o2[b + r.lit] = OffByte(LowHalf(Dist(r)))
  BY <1>1, <1>2
<1> QED BY <1>3, <1>4, <1>5 DEF AtOffset1

\* After the distance the sequence is whole, or the extension bytes of the match come.
LEMMA AfterOffset1 ==
    ASSUME NEW o, NEW o2, NEW r \in Records, NEW t \in Nat, t >= 1, NEW ls, NEW u \in Nat, ~IsEnd(r),
           AtOffset1(o, ls, t, r, u), Wrote(o, o2, OffByte(HighHalf(Dist(r))))
    PROVE  /\ ~Extended(r.len) => Whole(o2, ls, t, r, u, Len(o2) + 1)
           /\ Extended(r.len) => InTail(o2, ls, t, r, u, r.len - Nibble(r.len))
<1>1. PICK b : /\ HeadAt(o, t, r, b) /\ Chars(o, b, ls, u, r.lit) /\ Len(o) = b + r.lit
               /\ o[b + r.lit] = OffByte(LowHalf(Dist(r)))
  BY DEF AtOffset1
<1>2. /\ b \in Nat /\ b >= 1 /\ r.lit \in Nat /\ r.len \in Nat /\ Len(o) \in Nat /\ Len(o2) = Len(o) + 1
      /\ Agree(o, o2, Len(o)) /\ o2[Len(o) + 1] = OffByte(HighHalf(Dist(r)))
  BY <1>1 DEF HeadAt, Records, Wrote
<1>3. HeadAt(o2, t, r, b)
  <2>1. b <= Len(o) + 1
    BY <1>1, <1>2
  <2> QED BY <1>1, <1>2, <2>1, HeadKept
<1>4. Chars(o2, b, ls, u, r.lit)
  <2>1. Agree(ls, ls, u + r.lit) /\ u + r.lit \in Nat /\ b + r.lit <= Len(o) + 1 /\ u + r.lit <= u + r.lit
    BY <1>1, <1>2 DEF Agree
  <2> QED BY <1>1, <1>2, <2>1, CharsKept
<1>5. PICK g : g = b + r.lit
  OBVIOUS
<1>6. /\ g \in Nat /\ g = Len(o) /\ g \in 1..Len(o) /\ o2[g] = OffByte(LowHalf(Dist(r)))
      /\ o2[g + 1] = OffByte(HighHalf(Dist(r))) /\ g + 2 = Len(o2) + 1 /\ g + 1 <= Len(o2)
  BY <1>1, <1>2, <1>5 DEF Agree
<1>7. ASSUME ~Extended(r.len) PROVE Whole(o2, ls, t, r, u, Len(o2) + 1)
  <2>1. Spelt(o2, g + 2, Len(o2) + 1, r.len)
    BY <1>2, <1>6, <1>7, FormatAssumption DEF Extended, Spelt
  <2>2. TailAt(o2, g, r, Len(o2) + 1) /\ Len(o2) + 1 <= Len(o2) + 1
    BY <1>2, <1>6, <2>1 DEF TailAt
  <2> QED BY <1>3, <1>4, <1>5, <2>2 DEF Whole
<1>8. ASSUME Extended(r.len) PROVE InTail(o2, ls, t, r, u, r.len - Nibble(r.len))
  <2>1. Half(o2, g + 2, r.len, r.len - Nibble(r.len))
    BY <1>2, <1>6, <1>8, HalfNone
  <2> QED BY <1>3, <1>4, <1>5, <1>6, <2>1 DEF InTail
<1> QED BY <1>7, <1>8

\* After an extension byte comes another, or the sequence is whole.
LEMMA AfterMatchLen ==
    ASSUME NEW o, NEW o2, NEW r \in Records, NEW t \in Nat, t >= 1, NEW ls, NEW u \in Nat, ~IsEnd(r),
           NEW rest \in Nat, InTail(o, ls, t, r, u, rest)
    PROVE  /\ rest >= LenMax /\ Wrote(o, o2, LenByte(LenMax)) => InTail(o2, ls, t, r, u, rest - LenMax)
           /\ ~(rest >= LenMax) /\ Wrote(o, o2, LenByte(rest)) => Whole(o2, ls, t, r, u, Len(o2) + 1)
<1>1. PICK b : /\ HeadAt(o, t, r, b) /\ Chars(o, b, ls, u, r.lit) /\ b + r.lit + 1 <= Len(o)
               /\ o[b + r.lit] = OffByte(LowHalf(Dist(r)))
               /\ o[b + r.lit + 1] = OffByte(HighHalf(Dist(r)))
               /\ Half(o, b + r.lit + 2, r.len, rest)
  BY DEF InTail
<1>2. b \in Nat /\ b >= 1 /\ r.lit \in Nat /\ r.len \in Nat /\ LenMax \in Nat
  BY <1>1, FormatAssumption DEF HeadAt, Records
<1>3. PICK g : g = b + r.lit
  OBVIOUS
<1>4. g \in Nat /\ g >= 1 /\ g + 2 \in Nat /\ g + 2 >= 1 /\ g + 1 <= Len(o)
  BY <1>1, <1>2, <1>3
<1>5. ASSUME NEW x, Wrote(o, o2, x)
      PROVE  /\ HeadAt(o2, t, r, b) /\ Chars(o2, b, ls, u, r.lit) /\ g + 1 <= Len(o2) /\ Len(o2) \in Nat
             /\ o2[g] = OffByte(LowHalf(Dist(r))) /\ o2[g + 1] = OffByte(HighHalf(Dist(r)))
  <2>1. Len(o) \in Nat /\ Len(o2) = Len(o) + 1 /\ Agree(o, o2, Len(o))
    BY <1>5 DEF Wrote
  <2>2. HeadAt(o2, t, r, b)
    <3>1. b <= Len(o) + 1
      BY <1>2, <1>3, <1>4, <2>1
    <3> QED BY <1>1, <2>1, <3>1, HeadKept
  <2>3. Chars(o2, b, ls, u, r.lit)
    <3>1. Agree(ls, ls, u + r.lit) /\ u + r.lit \in Nat /\ b + r.lit <= Len(o) + 1 /\ u + r.lit <= u + r.lit
      <4>1. g <= Len(o) + 1
        BY <1>4, <2>1
      <4>2. u + r.lit \in Nat /\ u + r.lit <= u + r.lit
        BY <1>2
      <4>3. Agree(ls, ls, u + r.lit)
        BY DEF Agree
      <4> QED BY <1>3, <4>1, <4>2, <4>3
    <3> QED BY <1>1, <1>2, <2>1, <3>1, CharsKept
  <2>4. g \in 1..Len(o) /\ g + 1 \in 1..Len(o)
    BY <1>4, <2>1
  <2>5. o2[g] = o[g] /\ o2[g + 1] = o[g + 1]
    BY <2>1, <2>4 DEF Agree
  <2> QED BY <1>1, <1>3, <1>4, <2>1, <2>2, <2>3, <2>5
<1>6. ASSUME rest >= LenMax, Wrote(o, o2, LenByte(LenMax)) PROVE InTail(o2, ls, t, r, u, rest - LenMax)
  <2>1. Half(o2, g + 2, r.len, rest - LenMax)
    BY <1>1, <1>2, <1>3, <1>4, <1>6, HalfMore
  <2> QED BY <1>3, <1>5, <1>6, <2>1 DEF InTail
<1>7. ASSUME ~(rest >= LenMax), Wrote(o, o2, LenByte(rest)) PROVE Whole(o2, ls, t, r, u, Len(o2) + 1)
  <2>1. Spelt(o2, g + 2, Len(o2) + 1, r.len)
    BY <1>1, <1>2, <1>3, <1>4, <1>7, HalfLast
  <2>2. TailAt(o2, g, r, Len(o2) + 1) /\ Len(o2) + 1 <= Len(o2) + 1
    BY <1>4, <1>5, <1>7, <2>1 DEF TailAt
  <2> QED BY <1>3, <1>5, <1>7, <2>2 DEF Whole
<1> QED BY <1>6, <1>7

\* A literal written behind those of the records does not disturb a sequence.
LEMMA LiteralsAdded ==
    ASSUME NEW o, Len(o) \in Nat, NEW r \in Records, NEW t \in Nat, t >= 1, NEW ls, NEW ls2, NEW m \in Nat,
           Agree(ls, ls2, m), NEW u \in Nat, u + r.lit <= m, NEW left \in Nat, left <= r.lit, NEW rest
    PROVE  /\ InChars(o, ls, t, r, u, left) => InChars(o, ls2, t, r, u, left)
           /\ AtOffset1(o, ls, t, r, u) => AtOffset1(o, ls2, t, r, u)
           /\ InTail(o, ls, t, r, u, rest) => InTail(o, ls2, t, r, u, rest)
<1>0. r.lit \in Nat
  BY DEF Records
<1>1. ASSUME NEW b, NEW n \in Nat, n <= r.lit, Chars(o, b, ls, u, n) PROVE Chars(o, b, ls2, u, n)
  <2>1. ASSUME NEW j \in 1..n PROVE ls2[u + j] = ls[u + j]
    <3>1. u + j \in 1..m
      BY <1>0, <1>1
    <3> QED BY <3>1 DEF Agree
  <2> QED BY <1>1, <2>1 DEF Chars
<1>2. r.lit - left \in Nat /\ r.lit - left <= r.lit /\ r.lit <= r.lit
  BY <1>0
<1>3. InChars(o, ls, t, r, u, left) => InChars(o, ls2, t, r, u, left)
  BY <1>1, <1>2 DEF InChars
<1>4. AtOffset1(o, ls, t, r, u) => AtOffset1(o, ls2, t, r, u)
  BY <1>0, <1>1, <1>2 DEF AtOffset1
<1>5. InTail(o, ls, t, r, u, rest) => InTail(o, ls2, t, r, u, rest)
  BY <1>0, <1>1, <1>2 DEF InTail
<1> QED BY <1>3, <1>4, <1>5

-----------------------------------------------------------------------------
(* The output of a block that is not cut short *)

\* The literals that the first k records of rs cover.
Ahead(rs, k) == IF k = 0 THEN 0 ELSE rs[k].upto

\* The first n records of rs lie in the output from at[0] to before at[n].
Placed(at, n, o, ls, rs) ==
    /\ at \in [Nat -> Nat] /\ at[0] = 1
    /\ \A k \in 1..n : /\ at[k] >= 1
                       /\ Whole(o, ls, at[k - 1], rs[k], Ahead(rs, k - 1), at[k])

\* The number of sequences that are written.
Done == IF readOffsetFlag THEN recsRead ELSE recsRead - 1

\* How far Part2 is with the record in hand, whose sequence begins at t.
Progress(t) ==
    /\ readOffsetFlag \/ next_state = "WRITE_TOKEN" => Len(out) + 1 = t
    /\ ~readOffsetFlag =>
         /\ next_state = "WRITE_LIT_LEN" => InHead(out, t, Cached, lit_length)
         /\ next_state = "WRITE_LITERAL" => InChars(out, lits, t, Cached, Ahead(recs, recsRead - 1), write_lit_length)
         /\ next_state = "WRITE_OFFSET0" => InChars(out, lits, t, Cached, Ahead(recs, recsRead - 1), 0)
         /\ next_state = "WRITE_OFFSET1" => AtOffset1(out, lits, t, Cached, Ahead(recs, recsRead - 1))
         /\ next_state = "WRITE_MATCH_LEN" => InTail(out, lits, t, Cached, Ahead(recs, recsRead - 1), match_length)

\* The registers that were set with the token.
RegistersInv ==
    ~readOffsetFlag =>
        /\ next_state = "WRITE_LIT_LEN" => write_lit_length = Cached.lit
        /\ next_state \notin {"WRITE_TOKEN", "WRITE_MATCH_LEN"} =>
              /\ match_length = Cached.len - Nibble(Cached.len)
              /\ extra_match_len = Extended(Cached.len)

OutInv == Len(out) < input_size => \E at : Placed(at, Done, out, lits, recs) /\ Progress(at[Done])

BInv == LInv /\ ItemsInv /\ RegistersInv /\ OutInv

\* What is placed stays so when output, literals and records grow.
LEMMA PlacedKept ==
    ASSUME IInv, NEW at, NEW n \in 0..Len(recs), Placed(at, n, out, lits, recs),
           NEW o2, Len(o2) \in Nat, Len(o2) >= Len(out), Agree(out, o2, Len(out)),
           NEW ls2, Agree(lits, ls2, Len(lits)), NEW rs2, Agree(recs, rs2, Len(recs))
    PROVE  Placed(at, n, o2, ls2, rs2)
<1>0. Len(out) \in Nat /\ Len(recs) \in Nat /\ Len(lits) \in Nat /\ recs \in Seq(Records) /\ n \in Nat
  <2>1. out \in Seq(Bytes)
    BY DEF IInv, TypeOK
  <2> QED BY <2>1, LenProperties, EncoderTypes
<1>1. ASSUME NEW k \in 1..n
      PROVE  at[k] >= 1 /\ Whole(o2, ls2, at[k - 1], rs2[k], Ahead(rs2, k - 1), at[k])
  <2>1. k \in 1..Len(recs) /\ k - 1 \in 0..Len(recs) /\ k - 1 \in Nat /\ k \in Nat
    BY <1>0
  <2>2. rs2[k] = recs[k] /\ Ahead(rs2, k - 1) = Ahead(recs, k - 1) /\ recs[k] \in Records
    <3>1. k - 1 # 0 => k - 1 \in 1..Len(recs)
      BY <2>1
    <3>2. Ahead(rs2, k - 1) = Ahead(recs, k - 1)
      BY <3>1 DEF Ahead, Agree
    <3> QED BY <1>0, <2>1, <3>2, ElementOfSeq DEF Agree
  <2>3. Ahead(recs, k - 1) \in Nat /\ Ahead(recs, k - 1) + recs[k].lit <= Len(lits)
    <3>1. Ahead(recs, k - 1) = UpTo(k - 1)
      BY DEF Ahead, UpTo
    <3>2. UpTo(k - 1) \in Nat
      BY <2>1, EncoderTypes
    <3>3. recs[k].upto = UpTo(k - 1) + recs[k].lit /\ recs[k].upto <= Len(lits)
      BY <2>1 DEF IInv, RunsInv
    <3> QED BY <3>1, <3>2, <3>3
  <2>4. at[k] \in Nat /\ at[k - 1] \in Nat /\ at[k] >= 1 /\ at[k - 1] >= 1
    <3>1. k - 1 # 0 => k - 1 \in 1..n
      BY <1>0
    <3> QED BY <2>1, <3>1 DEF Placed
  <2>5. Whole(out, lits, at[k - 1], recs[k], Ahead(recs, k - 1), at[k])
    BY DEF Placed
  <2>6. Whole(o2, ls2, at[k - 1], recs[k], Ahead(recs, k - 1), at[k])
    BY <1>0, <2>2, <2>3, <2>4, <2>5, WholeKept
  <2> QED BY <2>2, <2>4, <2>6
<1> QED BY <1>1 DEF Placed

\* One more sequence is placed behind the others.
LEMMA PlacedMore ==
    ASSUME NEW at, NEW n \in Nat, NEW o, NEW ls, NEW rs, Placed(at, n, o, ls, rs), NEW e \in Nat, e >= 1,
           Whole(o, ls, at[n], rs[n + 1], Ahead(rs, n), e)
    PROVE  \E at2 : Placed(at2, n + 1, o, ls, rs) /\ at2[n + 1] = e
<1> DEFINE at2 == [at EXCEPT ![n + 1] = e]
<1>1. at \in [Nat -> Nat] /\ at[0] = 1
  BY DEF Placed
<1>2. at2 \in [Nat -> Nat] /\ at2[n + 1] = e /\ \A k \in 0..n : at2[k] = at[k]
  BY <1>1
<1> HIDE DEF at2
<1>3. ASSUME NEW k \in 1..n + 1
      PROVE  at2[k] >= 1 /\ Whole(o, ls, at2[k - 1], rs[k], Ahead(rs, k - 1), at2[k])
  <2>1. CASE k = n + 1
    <3>1. k - 1 = n /\ n \in 0..n
      BY <2>1
    <3> QED BY <1>2, <2>1, <3>1
  <2>2. CASE k # n + 1
    <3>1. k \in 1..n /\ k \in 0..n /\ k - 1 \in 0..n
      BY <2>2
    <3> QED BY <1>2, <3>1 DEF Placed
  <2> QED BY <2>1, <2>2
<1>4. at2[0] = 1
  BY <1>1, <1>2
<1>5. Placed(at2, n + 1, o, ls, rs)
  BY <1>2, <1>3, <1>4 DEF Placed
<1> QED BY <1>2, <1>5

\* Part1 adds behind and leaves Part2's registers alone.
LEMMA Part1Adds ==
    ASSUME IInv, Part1
    PROVE  /\ UNCHANGED <<input_size, recsRead, readOffsetFlag, next_state, lit_length, write_lit_length,
                          match_length, extra_match_len, out>>
           /\ Agree(lits, lits', Len(lits)) /\ Agree(recs, recs', Len(recs))
<1>1. /\ UNCHANGED <<input_size, recsRead, readOffsetFlag, next_state, lit_length, write_lit_length,
                     match_length, extra_match_len, out>>
      /\ recs' = recs \/ \E r : recs' = Append(recs, r)
      /\ lits' = lits \/ lits' = Append(lits, i)
  BY DEF Part1, Return1, FirstRead, DropItem, EmitRecord, EmitLiteral, Finish1, Iterate, p2vars, litvars, mvars
<1>2. Agree(lits, lits', Len(lits))
  <2>1. CASE lits' = lits
    BY <2>1 DEF Agree
  <2>2. CASE lits' = Append(lits, i)
    BY <2>2, EncoderTypes DEF Agree
  <2> QED BY <1>1, <2>1, <2>2
<1>3. Agree(recs, recs', Len(recs))
  <2>1. CASE recs' = recs
    BY <2>1 DEF Agree
  <2>2. ASSUME NEW r, recs' = Append(recs, r) PROVE Agree(recs, recs', Len(recs))
    BY <2>2, EncoderTypes DEF Agree
  <2> QED BY <1>1, <2>1, <2>2
<1> QED BY <1>1, <1>2, <1>3

\* The record in hand and the literals of its run.
LEMMA HandFacts ==
    ASSUME IInv, recsRead >= 1
    PROVE  /\ recsRead \in 1..Len(recs) /\ recsRead - 1 \in 0..Len(recs) /\ recsRead \in Nat /\ recsRead - 1 \in Nat
           /\ Cached \in Records
           /\ Ahead(recs, recsRead - 1) \in Nat /\ Ahead(recs, recsRead - 1) = UpTo(recsRead - 1)
           /\ Ahead(recs, recsRead - 1) + Cached.lit = UpTo(recsRead)
           /\ Ahead(recs, recsRead - 1) + Cached.lit <= Len(lits)
           /\ IsMatchRec(Cached) => ~IsEnd(Cached)
<1>1. /\ recsRead \in 1..Len(recs) /\ Len(recs) \in Nat /\ UpTo(recsRead - 1) \in Nat
      /\ UpTo(recsRead) = UpTo(recsRead - 1) + Cached.lit /\ (IsMatchRec(Cached) => ~IsEnd(Cached))
  BY CachedFacts
<1>2. Ahead(recs, recsRead - 1) = UpTo(recsRead - 1)
  BY DEF Ahead, UpTo
<1>3. UpTo(recsRead) <= Len(lits)
  BY <1>1, EncoderTypes
<1>4. Cached \in Records
  BY <1>1, CachedType DEF IInv
<1> QED BY <1>1, <1>2, <1>3, <1>4

\* What Part1 adds behind does not disturb what Part2 has written.
LEMMA Part1Out ==
    ASSUME IInv, LeftInv, RegistersInv, OutInv, Part1
    PROVE  RegistersInv' /\ OutInv'
<1>1. /\ UNCHANGED <<input_size, recsRead, readOffsetFlag, next_state, lit_length, write_lit_length,
                     match_length, extra_match_len, out>>
      /\ Agree(lits, lits', Len(lits)) /\ Agree(recs, recs', Len(recs))
  BY Part1Adds
<1>2. ~readOffsetFlag => recsRead >= 1
  BY DEF IInv, Part2Inv
<1>3. ~readOffsetFlag => Cached' = Cached
  BY <1>1, <1>2, HandFacts DEF Agree, Cached
<1>4. ~readOffsetFlag => Ahead(recs', recsRead - 1) = Ahead(recs, recsRead - 1)
  <2> SUFFICES ASSUME ~readOffsetFlag, recsRead - 1 # 0 PROVE recs'[recsRead - 1] = recs[recsRead - 1]
    BY DEF Ahead
  <2>1. recsRead - 1 \in 1..Len(recs)
    BY <1>2, HandFacts
  <2> QED BY <1>1, <2>1 DEF Agree
<1>5. RegistersInv'
  BY <1>1, <1>3 DEF RegistersInv
<1>6. OutInv'
  <2> SUFFICES ASSUME Len(out) < input_size
               PROVE  \E at : Placed(at, Done, out, lits', recs') /\ Progress(at[Done])'
    BY <1>1 DEF OutInv, Done
  <2>1. PICK at : Placed(at, Done, out, lits, recs) /\ Progress(at[Done])
    BY DEF OutInv
  <2>2. Done \in 0..Len(recs) /\ Len(out) \in Nat /\ at[Done] \in Nat
    <3>1. readOffsetFlag \in BOOLEAN /\ recsRead \in 0..Len(recs) /\ out \in Seq(Bytes)
      BY DEF IInv, TypeOK
    <3>2. Done \in 0..Len(recs) /\ Len(out) \in Nat /\ Len(recs) \in Nat
      BY <1>2, <3>1, LenProperties, HandFacts, EncoderTypes DEF Done
    <3> QED BY <2>1, <3>2 DEF Placed
  <2>3. Placed(at, Done, out, lits', recs')
    <3>1. Agree(out, out, Len(out)) /\ Len(out) >= Len(out)
      BY <2>2 DEF Agree
    <3> QED BY <1>1, <2>1, <2>2, <3>1, PlacedKept
  <2>4. at[Done] >= 1
    <3>1. CASE Done = 0
      BY <2>1, <3>1 DEF Placed
    <3>2. CASE Done # 0
      <4>1. Done \in 1..Done
        BY <2>2, <3>2
      <4> QED BY <2>1, <4>1 DEF Placed
    <3> QED BY <3>1, <3>2
  <2>5. Progress(at[Done])'
    <3>1. CASE readOffsetFlag
      <4>1. PICK t : t = at[Done]
        OBVIOUS
      <4>2. Progress(t)'
        BY <1>1, <2>1, <3>1, <4>1 DEF Progress
      <4> QED BY <1>1, <4>1, <4>2 DEF Done
    <3>2. CASE ~readOffsetFlag
      <4>0. PICK t, u, r : t = at[Done] /\ u = Ahead(recs, recsRead - 1) /\ r = Cached
        OBVIOUS
      <4>1. /\ r \in Records /\ u \in Nat /\ u + r.lit <= Len(lits) /\ Len(lits) \in Nat /\ t \in Nat /\ t >= 1
            /\ r.lit \in Nat
        BY <1>2, <2>2, <2>4, <3>2, <4>0, HandFacts, EncoderTypes DEF Records
      <4>2. Progress(t)
        BY <2>1, <4>0
      <4>3. ASSUME NEW left \in Nat, left <= r.lit
            PROVE  /\ InChars(out, lits, t, r, u, left) => InChars(out, lits', t, r, u, left)
                   /\ AtOffset1(out, lits, t, r, u) => AtOffset1(out, lits', t, r, u)
                   /\ InTail(out, lits, t, r, u, match_length) => InTail(out, lits', t, r, u, match_length)
        BY <1>1, <2>2, <4>1, <4>3, LiteralsAdded
      <4>4. 0 \in Nat /\ 0 <= r.lit
        BY <4>1
      <4>5. next_state = "WRITE_LITERAL" => write_lit_length \in Nat /\ write_lit_length <= r.lit
        BY <3>2, <4>0 DEF LeftInv, IInv, TypeOK
      <4>6. Cached' = r /\ Ahead(recs', recsRead') = Ahead(recs', recsRead) /\ Ahead(recs', recsRead - 1) = u
        BY <1>1, <1>3, <1>4, <3>2, <4>0
      <4>7. /\ next_state = "WRITE_LITERAL" => InChars(out, lits', t, r, u, write_lit_length)
            /\ next_state = "WRITE_OFFSET0" => InChars(out, lits', t, r, u, 0)
            /\ next_state = "WRITE_OFFSET1" => AtOffset1(out, lits', t, r, u)
            /\ next_state = "WRITE_MATCH_LEN" => InTail(out, lits', t, r, u, match_length)
            /\ next_state = "WRITE_LIT_LEN" => InHead(out, t, r, lit_length)
            /\ next_state = "WRITE_TOKEN" => Len(out) + 1 = t
        BY <3>2, <4>0, <4>2, <4>3, <4>4, <4>5 DEF Progress
      <4>8. Progress(t)'
        BY <1>1, <3>2, <4>6, <4>7 DEF Progress
      <4> QED BY <1>1, <4>0, <4>8 DEF Done
    <3> QED BY <3>1, <3>2
  <2> QED BY <2>3, <2>5
<1> QED BY <1>5, <1>6

\* A byte that is written and not thrown away.
LEMMA EmitWrote ==
    ASSUME IInv, NEW x, Emit(x), Len(out') < input_size
    PROVE  Wrote(out, out', x) /\ Len(out) < input_size /\ Len(out') \in Nat
<1>1. out \in Seq(Bytes) /\ Len(out) \in Nat /\ input_size \in Nat
  BY SizesAssumption, LenProperties DEF IInv, TypeOK
<1>2. Len(out) < input_size
  BY <1>1 DEF Emit
<1>3. out' = Append(out, x)
  BY <1>2 DEF Emit
<1>4. Len(out') = Len(out) + 1 /\ out'[Len(out) + 1] = x /\ \A k \in 1..Len(out) : out'[k] = out[k]
  BY <1>1, <1>3
<1> QED BY <1>1, <1>2, <1>4 DEF Wrote, Agree

\* While it has a record in hand, Part2 has written all before and some of its sequence.
LEMMA Writing ==
    ASSUME IInv, OutInv, ~readOffsetFlag, NEW x, Emit(x), Len(out') < input_size
    PROVE  \E at : \E t \in Nat : /\ t >= 1 /\ at[recsRead - 1] = t /\ Progress(t)
                                  /\ Placed(at, recsRead - 1, out', lits, recs)
<1>1. Wrote(out, out', x) /\ Len(out) < input_size /\ Len(out') \in Nat
  BY EmitWrote
<1>2. Done = recsRead - 1 /\ recsRead - 1 \in 0..Len(recs) /\ recsRead - 1 \in Nat /\ recsRead \in Nat
  BY HandFacts DEF Done, IInv, Part2Inv
<1>3. PICK at : Placed(at, recsRead - 1, out, lits, recs) /\ Progress(at[recsRead - 1])
  BY <1>1, <1>2 DEF OutInv
<1>4. Placed(at, recsRead - 1, out', lits, recs)
  <2>1. Agree(lits, lits, Len(lits)) /\ Agree(recs, recs, Len(recs))
    BY DEF Agree
  <2>2. Len(out') >= Len(out) /\ Agree(out, out', Len(out))
    BY <1>1 DEF Wrote
  <2> QED BY <1>1, <1>2, <1>3, <2>1, <2>2, PlacedKept
<1>5. at[recsRead - 1] \in Nat /\ at[recsRead - 1] >= 1
  <2>1. CASE recsRead - 1 = 0
    BY <1>3, <2>1 DEF Placed
  <2>2. CASE recsRead - 1 # 0
    <3>1. recsRead - 1 \in 1..recsRead - 1
      BY <1>2, <2>2
    <3> QED BY <1>2, <1>3, <3>1 DEF Placed
  <2> QED BY <2>1, <2>2
<1> QED BY <1>3, <1>4, <1>5

\* Part2 stays with its record.
LEMMA GoesOn ==
    ASSUME UNCHANGED <<lits, recs, recsRead>>, readOffsetFlag' = FALSE,
           NEW at, NEW t, at[recsRead - 1] = t, Placed(at, recsRead - 1, out', lits, recs), Progress(t)'
    PROVE  OutInv'
<1>1. Done' = recsRead - 1
  BY DEF Done
<1>2. Placed(at, Done', out', lits', recs') /\ at[Done'] = t
  BY <1>1
<1> QED BY <1>2 DEF OutInv

\* Part2 is done with its record.
LEMMA Completes ==
    ASSUME IInv, ~readOffsetFlag, UNCHANGED <<lits, recs, recsRead>>, readOffsetFlag' = TRUE, Len(out') \in Nat,
           NEW at, NEW t, at[recsRead - 1] = t, Placed(at, recsRead - 1, out', lits, recs),
           Whole(out', lits, t, Cached, Ahead(recs, recsRead - 1), Len(out') + 1)
    PROVE  OutInv'
<1>1. Done' = recsRead /\ recsRead - 1 \in Nat /\ (recsRead - 1) + 1 = recsRead
  BY HandFacts DEF Done, IInv, Part2Inv
<1>2. PICK e, n : e = Len(out') + 1 /\ n = recsRead - 1
  OBVIOUS
<1>3. e \in Nat /\ e >= 1 /\ n \in Nat /\ n + 1 = recsRead
  BY <1>1, <1>2
<1>4. \E at2 : Placed(at2, n + 1, out', lits, recs) /\ at2[n + 1] = e
  <2>1. Placed(at, n, out', lits, recs) /\ Whole(out', lits, at[n], recs[n + 1], Ahead(recs, n), e)
    BY <1>2, <1>3 DEF Cached
  <2> QED BY <1>3, <2>1, PlacedMore
<1>5. PICK at2 : Placed(at2, recsRead, out', lits, recs) /\ at2[recsRead] = e
  BY <1>3, <1>4
<1>6. Progress(e)'
  BY <1>2 DEF Progress
<1> QED BY <1>1, <1>5, <1>6 DEF OutInv

\* The registers and the record in hand at a step that writes.
LEMMA InStateFacts ==
    ASSUME IInv, NEW s, InState(s)
    PROVE  /\ UNCHANGED <<input_size, lits, recs, recsRead>> /\ ~readOffsetFlag /\ next_state = s
           /\ Cached' = Cached /\ Cached \in Records /\ Ahead(recs, recsRead - 1) \in Nat
           /\ Ahead(recs, recsRead - 1)' = Ahead(recs, recsRead - 1)
           /\ lit_length \in Nat /\ write_lit_length \in Nat /\ match_length \in Nat
           /\ s \in {"WRITE_LIT_LEN", "WRITE_LITERAL"} => LiteralsInv
           /\ s \in {"WRITE_OFFSET0", "WRITE_OFFSET1", "WRITE_MATCH_LEN"} => ~IsEnd(Cached)
<1>1. /\ UNCHANGED <<input_size, lits, recs, recsRead>> /\ ~readOffsetFlag /\ next_state = s
      /\ lit_length \in Nat /\ write_lit_length \in Nat /\ match_length \in Nat
  BY DEF InState, IInv, TypeOK
<1>2. recsRead >= 1
  BY <1>1 DEF IInv, Part2Inv
<1>3. s \in {"WRITE_OFFSET0", "WRITE_OFFSET1", "WRITE_MATCH_LEN"} => ~IsEnd(Cached)
  BY <1>1, <1>2, CachedFacts DEF IInv, Part2Inv, MatchInv
<1>4. s \in {"WRITE_LIT_LEN", "WRITE_LITERAL"} => LiteralsInv
  BY <1>1 DEF IInv, Part2Inv
<1> QED BY <1>1, <1>2, <1>3, <1>4, HandFacts DEF Cached, Ahead

\* A token is written as its record says.
LEMMA TokenOut ==
    ASSUME IInv, OutInv, WriteToken PROVE RegistersInv' /\ OutInv'
<1> DEFINE b == Token(Nibble(Cached.lit), Nibble(Cached.len))
<1>1. InState("WRITE_TOKEN") /\ Emit(b) /\ readOffsetFlag' = FALSE
  BY DEF WriteToken, Goto
<1>2. /\ UNCHANGED <<input_size, lits, recs, recsRead>> /\ ~readOffsetFlag /\ next_state = "WRITE_TOKEN"
      /\ Cached' = Cached /\ Cached \in Records /\ Ahead(recs, recsRead - 1) \in Nat
      /\ Ahead(recs, recsRead - 1)' = Ahead(recs, recsRead - 1)
  BY <1>1, InStateFacts
<1>3. /\ next_state' = IF Extended(Cached.lit) THEN "WRITE_LIT_LEN"
                       ELSE IF Cached.lit > 0 THEN "WRITE_LITERAL" ELSE "WRITE_OFFSET0"
      /\ lit_length' = Cached.lit - Nibble(Cached.lit) /\ write_lit_length' = Cached.lit
      /\ match_length' = Cached.len - Nibble(Cached.len) /\ extra_match_len' = Extended(Cached.len)
      /\ Cached.lit \in Nat
  BY <1>2 DEF WriteToken, Goto, Records
<1>4. RegistersInv'
  BY <1>2, <1>3 DEF RegistersInv
<1>5. OutInv'
  <2> SUFFICES ASSUME Len(out') < input_size PROVE OutInv'
    BY <1>2 DEF OutInv
  <2>1. Wrote(out, out', b) /\ Len(out) < input_size /\ Len(out') \in Nat
    BY <1>1, EmitWrote
  <2>2. PICK at, t : /\ t \in Nat /\ t >= 1 /\ at[recsRead - 1] = t /\ Progress(t)
                     /\ Placed(at, recsRead - 1, out', lits, recs)
    BY <1>1, <1>2, Writing
  <2>3. Len(out) + 1 = t
    BY <1>2, <2>2 DEF Progress
  <2>4. PICK r, u : r = Cached /\ u = Ahead(recs, recsRead - 1)
    OBVIOUS
  <2>5. /\ Extended(r.lit) => InHead(out', t, r, r.lit - Nibble(r.lit))
        /\ ~Extended(r.lit) => InChars(out', lits, t, r, u, r.lit)
    BY <1>2, <2>1, <2>2, <2>3, <2>4, AfterToken
  <2>6. Progress(t)'
    BY <1>1, <1>2, <1>3, <2>4, <2>5 DEF Progress
  <2> QED BY <1>1, <1>2, <2>2, <2>6, GoesOn
<1> QED BY <1>4, <1>5

\* An extension byte of the literals is written.
LEMMA LitLenOut ==
    ASSUME IInv, RegistersInv, OutInv, WriteLitLen PROVE RegistersInv' /\ OutInv'
<1> DEFINE b == IF lit_length >= LenMax THEN LenByte(LenMax) ELSE LenByte(lit_length)
<1>1. /\ InState("WRITE_LIT_LEN") /\ Emit(b) /\ readOffsetFlag' = FALSE
      /\ UNCHANGED <<write_lit_length, match_length, extra_match_len>>
      /\ lit_length >= LenMax => next_state' = "WRITE_LIT_LEN" /\ lit_length' = lit_length - LenMax
      /\ ~(lit_length >= LenMax) => next_state' = "WRITE_LITERAL"
  BY DEF WriteLitLen, Goto, InState, mvars, IInv, TypeOK
<1>2. /\ UNCHANGED <<input_size, lits, recs, recsRead>> /\ ~readOffsetFlag /\ next_state = "WRITE_LIT_LEN"
      /\ Cached' = Cached /\ Cached \in Records /\ Ahead(recs, recsRead - 1) \in Nat /\ lit_length \in Nat
      /\ Ahead(recs, recsRead - 1)' = Ahead(recs, recsRead - 1)
  BY <1>1, InStateFacts
<1>3. write_lit_length = Cached.lit
  BY <1>2 DEF RegistersInv
<1>4. RegistersInv'
  BY <1>1, <1>2, <1>3 DEF RegistersInv
<1>5. OutInv'
  <2> SUFFICES ASSUME Len(out') < input_size PROVE OutInv'
    BY <1>2 DEF OutInv
  <2>1. Wrote(out, out', b) /\ Len(out) < input_size /\ Len(out') \in Nat
    BY <1>1, EmitWrote
  <2>2. PICK at, t : /\ t \in Nat /\ t >= 1 /\ at[recsRead - 1] = t /\ Progress(t)
                     /\ Placed(at, recsRead - 1, out', lits, recs)
    BY <1>1, <1>2, Writing
  <2>3. PICK r, u, rest : r = Cached /\ u = Ahead(recs, recsRead - 1) /\ rest = lit_length
    OBVIOUS
  <2>4. InHead(out, t, r, rest)
    BY <1>2, <2>2, <2>3 DEF Progress
  <2>5. /\ rest >= LenMax => InHead(out', t, r, rest - LenMax)
        /\ ~(rest >= LenMax) => InChars(out', lits, t, r, u, r.lit)
    BY <1>2, <2>1, <2>2, <2>3, <2>4, AfterLitLen
  <2>6. Progress(t)'
    BY <1>1, <1>2, <1>3, <2>3, <2>5 DEF Progress
  <2> QED BY <1>1, <1>2, <2>2, <2>6, GoesOn
<1> QED BY <1>4, <1>5

\* A literal is written.
LEMMA LiteralOut ==
    ASSUME IInv, LeftInv, RegistersInv, OutInv, WriteLiteral PROVE RegistersInv' /\ OutInv'
<1> DEFINE b == Literal(lits[litsRead + 1])
<1>1. /\ InState("WRITE_LITERAL") /\ Emit(b) /\ UNCHANGED <<match_length, extra_match_len>>
      /\ write_lit_length' = write_lit_length - 1
      /\ write_lit_length # 1 => next_state' = "WRITE_LITERAL" /\ readOffsetFlag' = FALSE
      /\ write_lit_length = 1 =>
           \/ lit_ending /\ next_state' = "WRITE_TOKEN" /\ readOffsetFlag' = TRUE
           \/ ~lit_ending /\ next_state' = "WRITE_OFFSET0" /\ readOffsetFlag' = FALSE
  BY DEF WriteLiteral, AfterLiterals, Goto, InState, mvars, IInv, TypeOK
<1>2. /\ UNCHANGED <<input_size, lits, recs, recsRead>> /\ ~readOffsetFlag /\ next_state = "WRITE_LITERAL"
      /\ Cached' = Cached /\ Cached \in Records /\ Ahead(recs, recsRead - 1) \in Nat /\ write_lit_length \in Nat
      /\ Ahead(recs, recsRead - 1)' = Ahead(recs, recsRead - 1) /\ LiteralsInv
  BY <1>1, InStateFacts
<1>3. /\ write_lit_length >= 1 /\ (lit_ending <=> IsEnd(Cached)) /\ write_lit_length <= Cached.lit
      /\ litsRead = Ahead(recs, recsRead - 1) + (Cached.lit - write_lit_length)
  <2>1. /\ write_lit_length >= 1 /\ (lit_ending <=> IsEnd(Cached)) /\ litsRead + write_lit_length = UpTo(recsRead)
        /\ write_lit_length <= Cached.lit
    BY <1>2 DEF LiteralsInv, LeftInv
  <2>2. recsRead >= 1 /\ litsRead \in Nat /\ Cached.lit \in Nat
    BY <1>2, EncoderTypes DEF IInv, Part2Inv, Records
  <2> QED BY <1>2, <2>1, <2>2, HandFacts
<1>4. RegistersInv'
  BY <1>1, <1>2, <1>3 DEF RegistersInv
<1>5. OutInv'
  <2> SUFFICES ASSUME Len(out') < input_size PROVE OutInv'
    BY <1>2 DEF OutInv
  <2>1. Wrote(out, out', b) /\ Len(out) < input_size /\ Len(out') \in Nat
    BY <1>1, EmitWrote
  <2>2. PICK at, t : /\ t \in Nat /\ t >= 1 /\ at[recsRead - 1] = t /\ Progress(t)
                     /\ Placed(at, recsRead - 1, out', lits, recs)
    BY <1>1, <1>2, Writing
  <2>3. PICK r, u, left : r = Cached /\ u = Ahead(recs, recsRead - 1) /\ left = write_lit_length
    OBVIOUS
  <2>4. InChars(out, lits, t, r, u, left)
    BY <1>2, <2>2, <2>3 DEF Progress
  <2>5. InChars(out', lits, t, r, u, left - 1)
    <3>1. b = Literal(lits[u + (r.lit - left) + 1])
      BY <1>3, <2>3
    <3>2. left \in Nat /\ left >= 1 /\ left <= r.lit /\ r \in Records /\ u \in Nat
      BY <1>2, <1>3, <2>3
    <3>3. Wrote(out, out', Literal(lits[u + (r.lit - left) + 1]))
      BY <2>1, <3>1, Zenon
    <3> QED BY <2>2, <2>4, <3>2, <3>3, AfterChar
  <2>6. CASE write_lit_length = 1 /\ IsEnd(Cached)
    <3>1. InChars(out', lits, t, r, u, 0)
      BY <2>3, <2>5, <2>6
    <3>2. Whole(out', lits, t, r, u, Len(out') + 1)
      BY <1>2, <2>2, <2>3, <2>6, <3>1, AllChars
    <3>3. readOffsetFlag' = TRUE
      BY <1>1, <1>3, <2>6
    <3> QED BY <1>2, <2>1, <2>2, <2>3, <3>2, <3>3, Completes
  <2>7. CASE ~(write_lit_length = 1 /\ IsEnd(Cached))
    <3>1. Progress(t)' /\ readOffsetFlag' = FALSE
      <4>1. CASE write_lit_length = 1
        <5>1. next_state' = "WRITE_OFFSET0" /\ readOffsetFlag' = FALSE
          BY <1>1, <1>3, <2>7, <4>1
        <5>2. InChars(out', lits, t, r, u, 0)
          BY <2>3, <2>5, <4>1
        <5> QED BY <1>2, <2>3, <5>1, <5>2 DEF Progress
      <4>2. CASE write_lit_length # 1
        BY <1>1, <1>2, <2>3, <2>5, <4>2 DEF Progress
      <4> QED BY <4>1, <4>2
    <3> QED BY <1>2, <2>2, <3>1, GoesOn
  <2> QED BY <2>6, <2>7
<1> QED BY <1>4, <1>5

\* The low half of a distance is written.
LEMMA Offset0Out ==
    ASSUME IInv, RegistersInv, OutInv, WriteOffset0 PROVE RegistersInv' /\ OutInv'
<1> DEFINE b == OffByte(LowHalf(Distance))
<1>1. /\ InState("WRITE_OFFSET0") /\ Emit(b) /\ UNCHANGED <<write_lit_length, match_length, extra_match_len>>
      /\ next_state' = "WRITE_OFFSET1" /\ readOffsetFlag' = FALSE
  BY DEF WriteOffset0, Goto, mvars, litvars
<1>2. /\ UNCHANGED <<input_size, lits, recs, recsRead>> /\ ~readOffsetFlag /\ next_state = "WRITE_OFFSET0"
      /\ Cached' = Cached /\ Cached \in Records /\ Ahead(recs, recsRead - 1) \in Nat
      /\ Ahead(recs, recsRead - 1)' = Ahead(recs, recsRead - 1)
  BY <1>1, InStateFacts
<1>3. RegistersInv'
  BY <1>1, <1>2 DEF RegistersInv
<1>4. OutInv'
  <2> SUFFICES ASSUME Len(out') < input_size PROVE OutInv'
    BY <1>2 DEF OutInv
  <2>1. Wrote(out, out', b) /\ Len(out) < input_size /\ Len(out') \in Nat
    BY <1>1, EmitWrote
  <2>2. PICK at, t : /\ t \in Nat /\ t >= 1 /\ at[recsRead - 1] = t /\ Progress(t)
                     /\ Placed(at, recsRead - 1, out', lits, recs)
    BY <1>1, <1>2, Writing
  <2>3. PICK r, u : r = Cached /\ u = Ahead(recs, recsRead - 1)
    OBVIOUS
  <2>4. InChars(out, lits, t, r, u, 0)
    BY <1>2, <2>2, <2>3 DEF Progress
  <2>5. AtOffset1(out', lits, t, r, u)
    <3>1. Wrote(out, out', OffByte(LowHalf(Dist(r))))
      BY <2>1, <2>3 DEF Dist, Distance
    <3> QED BY <1>2, <2>2, <2>3, <2>4, <3>1, AfterOffset0
  <2>6. Progress(t)'
    BY <1>1, <1>2, <2>3, <2>5 DEF Progress
  <2> QED BY <1>1, <1>2, <2>2, <2>6, GoesOn
<1> QED BY <1>3, <1>4

\* The high half of a distance is written.
LEMMA Offset1Out ==
    ASSUME IInv, RegistersInv, OutInv, WriteOffset1 PROVE RegistersInv' /\ OutInv'
<1> DEFINE b == OffByte(HighHalf(Distance))
<1>1. /\ InState("WRITE_OFFSET1") /\ Emit(b) /\ UNCHANGED <<write_lit_length, match_length, extra_match_len>>
      /\ extra_match_len => next_state' = "WRITE_MATCH_LEN" /\ readOffsetFlag' = FALSE
      /\ ~extra_match_len => next_state' = "WRITE_TOKEN" /\ readOffsetFlag' = TRUE
  BY DEF WriteOffset1, Goto, mvars, litvars
<1>2. /\ UNCHANGED <<input_size, lits, recs, recsRead>> /\ ~readOffsetFlag /\ next_state = "WRITE_OFFSET1"
      /\ Cached' = Cached /\ Cached \in Records /\ Ahead(recs, recsRead - 1) \in Nat /\ ~IsEnd(Cached)
      /\ Ahead(recs, recsRead - 1)' = Ahead(recs, recsRead - 1)
  BY <1>1, InStateFacts
<1>3. extra_match_len = Extended(Cached.len) /\ match_length = Cached.len - Nibble(Cached.len)
  BY <1>2 DEF RegistersInv
<1>4. RegistersInv'
  BY <1>1, <1>2 DEF RegistersInv
<1>5. OutInv'
  <2> SUFFICES ASSUME Len(out') < input_size PROVE OutInv'
    BY <1>2 DEF OutInv
  <2>1. Wrote(out, out', b) /\ Len(out) < input_size /\ Len(out') \in Nat
    BY <1>1, EmitWrote
  <2>2. PICK at, t : /\ t \in Nat /\ t >= 1 /\ at[recsRead - 1] = t /\ Progress(t)
                     /\ Placed(at, recsRead - 1, out', lits, recs)
    BY <1>1, <1>2, Writing
  <2>3. PICK r, u : r = Cached /\ u = Ahead(recs, recsRead - 1)
    OBVIOUS
  <2>4. AtOffset1(out, lits, t, r, u)
    BY <1>2, <2>2, <2>3 DEF Progress
  <2>5. /\ ~Extended(r.len) => Whole(out', lits, t, r, u, Len(out') + 1)
        /\ Extended(r.len) => InTail(out', lits, t, r, u, r.len - Nibble(r.len))
    <3>1. Wrote(out, out', OffByte(HighHalf(Dist(r))))
      BY <2>1, <2>3 DEF Dist, Distance
    <3> QED BY <1>2, <2>2, <2>3, <2>4, <3>1, AfterOffset1
  <2>6. CASE Extended(r.len)
    <3>1. Progress(t)' /\ readOffsetFlag' = FALSE
      BY <1>1, <1>2, <1>3, <2>3, <2>5, <2>6 DEF Progress
    <3> QED BY <1>2, <2>2, <3>1, GoesOn
  <2>7. CASE ~Extended(r.len)
    <3>1. readOffsetFlag' = TRUE
      BY <1>1, <1>3, <2>3, <2>7
    <3> QED BY <1>2, <2>1, <2>2, <2>3, <2>5, <2>7, <3>1, Completes
  <2> QED BY <2>6, <2>7
<1> QED BY <1>4, <1>5

\* An extension byte of the match is written.
LEMMA MatchLenOut ==
    ASSUME IInv, RegistersInv, OutInv, WriteMatchLen PROVE RegistersInv' /\ OutInv'
<1> DEFINE b == IF match_length >= LenMax THEN LenByte(LenMax) ELSE LenByte(match_length)
<1>1. /\ InState("WRITE_MATCH_LEN") /\ Emit(b)
      /\ match_length >= LenMax => /\ next_state' = "WRITE_MATCH_LEN" /\ readOffsetFlag' = FALSE
                                   /\ match_length' = match_length - LenMax
      /\ ~(match_length >= LenMax) => next_state' = "WRITE_TOKEN" /\ readOffsetFlag' = TRUE
  BY DEF WriteMatchLen, Goto, InState, IInv, TypeOK
<1>2. /\ UNCHANGED <<input_size, lits, recs, recsRead>> /\ ~readOffsetFlag /\ next_state = "WRITE_MATCH_LEN"
      /\ Cached' = Cached /\ Cached \in Records /\ Ahead(recs, recsRead - 1) \in Nat /\ ~IsEnd(Cached)
      /\ Ahead(recs, recsRead - 1)' = Ahead(recs, recsRead - 1) /\ match_length \in Nat
  BY <1>1, InStateFacts
<1>3. RegistersInv'
  BY <1>1, <1>2 DEF RegistersInv
<1>4. OutInv'
  <2> SUFFICES ASSUME Len(out') < input_size PROVE OutInv'
    BY <1>2 DEF OutInv
  <2>1. Wrote(out, out', b) /\ Len(out) < input_size /\ Len(out') \in Nat
    BY <1>1, EmitWrote
  <2>2. PICK at, t : /\ t \in Nat /\ t >= 1 /\ at[recsRead - 1] = t /\ Progress(t)
                     /\ Placed(at, recsRead - 1, out', lits, recs)
    BY <1>1, <1>2, Writing
  <2>3. PICK r, u, rest : r = Cached /\ u = Ahead(recs, recsRead - 1) /\ rest = match_length
    OBVIOUS
  <2>4. InTail(out, lits, t, r, u, rest)
    BY <1>2, <2>2, <2>3 DEF Progress
  <2>5. /\ rest >= LenMax => InTail(out', lits, t, r, u, rest - LenMax)
        /\ ~(rest >= LenMax) => Whole(out', lits, t, r, u, Len(out') + 1)
    BY <1>2, <2>1, <2>2, <2>3, <2>4, AfterMatchLen
  <2>6. CASE rest >= LenMax
    <3>1. Progress(t)' /\ readOffsetFlag' = FALSE
      BY <1>1, <1>2, <2>3, <2>5, <2>6 DEF Progress
    <3> QED BY <1>2, <2>2, <3>1, GoesOn
  <2>7. CASE ~(rest >= LenMax)
    <3>1. readOffsetFlag' = TRUE
      BY <1>1, <2>3, <2>7
    <3> QED BY <1>2, <2>1, <2>2, <2>3, <2>5, <2>7, <3>1, Completes
  <2> QED BY <2>6, <2>7
<1> QED BY <1>3, <1>4

\* Reading a record begins its sequence.
LEMMA ReadOut ==
    ASSUME IInv, OutInv, ReadRecord PROVE RegistersInv' /\ OutInv'
<1>1. /\ readOffsetFlag /\ readOffsetFlag' = FALSE /\ recsRead' = recsRead + 1 /\ recsRead \in Nat
      /\ UNCHANGED <<input_size, lits, recs, out, next_state>> /\ next_state = "WRITE_TOKEN"
  BY EncoderTypes DEF ReadRecord, IInv, TypeOK, Part2Inv, BetweenInv
<1>2. RegistersInv'
  BY <1>1 DEF RegistersInv
<1>3. Done' = Done /\ Done = recsRead
  BY <1>1 DEF Done
<1>4. ASSUME NEW t, Progress(t) PROVE Progress(t)'
  BY <1>1, <1>4 DEF Progress
<1>5. OutInv'
  <2> SUFFICES ASSUME Len(out) < input_size PROVE \E at : Placed(at, Done, out, lits, recs)' /\ Progress(at[Done])'
    BY <1>1 DEF OutInv
  <2>1. PICK at, t : Placed(at, recsRead, out, lits, recs) /\ t = at[recsRead] /\ Progress(t)
    BY <1>3 DEF OutInv
  <2>2. Progress(t)' /\ Placed(at, Done', out', lits', recs') /\ at[Done'] = t
    BY <1>1, <1>3, <1>4, <2>1
  <2> QED BY <2>2
<1> QED BY <1>2, <1>5

\* Every action of lz4CompressPart2 keeps what the output is.
LEMMA Part2Out ==
    ASSUME IInv, LeftInv, RegistersInv, OutInv, Part2
    PROVE  RegistersInv' /\ OutInv'
<1>1. CASE Finish2
  <2>1. UNCHANGED <<input_size, lits, recs, recsRead, readOffsetFlag, next_state, lit_length, write_lit_length,
                    match_length, extra_match_len, out>>
    BY <1>1 DEF Finish2, litvars, mvars
  <2>2. Done' = Done /\ Cached' = Cached
    BY <2>1 DEF Done, Cached
  <2>3. \A t : Progress(t)' = Progress(t)
    BY <2>1, <2>2 DEF Progress
  <2> QED BY <2>1, <2>2, <2>3 DEF RegistersInv, OutInv
<1> QED BY <1>1, TokenOut, LitLenOut, LiteralOut, Offset0Out, Offset1Out, MatchLenOut, ReadOut DEF Part2

\* The block does not change what Part2 is told of the items.
LEMMA Part2Items ==
    ASSUME ItemsInv, Part2 PROVE ItemsInv'
<1>1. UNCHANGED <<input_size, p1, lit_count_flag, max_lit_limit, lits, recs, items>>
  BY DEF Part2, ReadRecord, WriteToken, WriteLitLen, WriteLiteral, WriteOffset0, WriteOffset1, WriteMatchLen,
         Finish2, InState, p1vars
<1> QED BY <1>1 DEF ItemsInv, UpTo

\* Before anything is read and written.
LEMMA FreshOut ==
    ASSUME readOffsetFlag = TRUE, recsRead = 0, out = <<>>, NEW rs, NEW ls
    PROVE  \E at : Placed(at, Done, out, ls, rs) /\ Progress(at[Done])
<1> DEFINE at == [k \in Nat |-> 1]
<1>1. Done = 0 /\ Len(out) = 0 /\ at \in [Nat -> Nat] /\ at[0] = 1
  BY DEF Done
<1>2. Placed(at, Done, out, ls, rs)
  BY <1>1 DEF Placed
<1>3. Progress(at[Done])
  BY <1>1 DEF Progress
<1> QED BY <1>2, <1>3

\* Nothing is written, read or given yet when a block starts.
Fresh == /\ p1 = "start" /\ lit_count_flag = 0 /\ items = <<>> /\ lits = <<>> /\ recs = <<>>
         /\ recsRead = 0 /\ readOffsetFlag = TRUE /\ out = <<>>

\* The invariant holds of a block that starts.
LEMMA FreshInv == Fresh => ItemsInv /\ RegistersInv /\ OutInv
<1> SUFFICES ASSUME Fresh PROVE ItemsInv /\ RegistersInv /\ OutInv
  OBVIOUS
<1>1. Len(items) = 0 /\ Len(lits) = 0 /\ Len(recs) = 0
  BY DEF Fresh
<1>2. ItemsInv /\ RegistersInv
  BY <1>1 DEF Fresh, ItemsInv, RegistersInv
<1>3. OutInv
  BY FreshOut DEF Fresh, OutInv
<1> QED BY <1>2, <1>3

\* The output of a block is, at every moment, what Part2 has made of the records.
LEMMA BlockNext == BInv /\ [Next]_vars => BInv'
<1> SUFFICES ASSUME BInv, [Next]_vars PROVE BInv'
  OBVIOUS
<1>1. LInv /\ IInv /\ LeftInv /\ ItemsInv /\ RegistersInv /\ OutInv
  BY DEF BInv, LInv
<1>2. LInv'
  BY <1>1, LiteralsNext
<1>3. ItemsInv' /\ RegistersInv' /\ OutInv'
  <2>1. CASE Part1
    BY <1>1, <2>1, Part1Items, Part1Out
  <2>2. CASE Part2
    BY <1>1, <2>2, Part2Items, Part2Out
  <2>3. CASE NextBlock
    <3>1. litsRead = Len(lits) /\ recsRead = Len(recs) /\ Len(recs) \in Nat /\ Len(lits) \in Nat
      BY <1>1, <2>3, LoopLeft, EncoderTypes DEF NextBlock
    <3>2. recs' = <<>> /\ lits' = <<>>
      BY <2>3, <3>1 DEF NextBlock
    <3>3. Fresh'
      BY <2>3, <3>2 DEF NextBlock, Fresh
    <3> QED BY <3>3, FreshInv, PTL
  <2>4. CASE UNCHANGED vars
    <3>1. UNCHANGED <<input_size, p1, lit_count_flag, max_lit_limit, items, lits, recs, recsRead, readOffsetFlag,
                      next_state, lit_length, write_lit_length, match_length, extra_match_len, out>>
      BY <2>4 DEF vars, p1vars, p2vars, litvars, mvars
    <3>2. Done' = Done /\ Cached' = Cached
      BY <3>1 DEF Done, Cached
    <3>3. \A t : Progress(t)' = Progress(t)
      BY <3>1, <3>2 DEF Progress
    <3> QED BY <1>1, <3>1, <3>2, <3>3 DEF ItemsInv, UpTo, RegistersInv, OutInv
  <2> QED BY <2>1, <2>2, <2>3, <2>4 DEF Next
<1> QED BY <1>2, <1>3 DEF BInv

-----------------------------------------------------------------------------
(* What is stored decodes to the items *)

Items == Nat \X Nat

\* The items behind the first b.
Rest(its, b) == [j \in 1..Len(its) - b |-> its[b + j]]

\* The rest is a sequence of items.
LEMMA RestType ==
    ASSUME NEW its \in Seq(Items), NEW b \in Nat, b <= Len(its)
    PROVE  Rest(its, b) \in Seq(Items) /\ Len(Rest(its, b)) = Len(its) - b
<1> DEFINE n == Len(its) - b
<1>1. n \in Nat /\ Len(its) \in Nat
  BY LenProperties
<1>2. \A j \in 1..n : its[b + j] \in Items
  BY <1>1, ElementOfSeq
<1>3. Rest(its, b) = [j \in 1..n |-> its[b + j]]
  BY DEF Rest
<1> HIDE DEF n
<1>4. Rest(its, b) \in Seq(Items) /\ Len(Rest(its, b)) = n
  BY <1>1, <1>2, <1>3
<1> QED BY <1>4 DEF n

\* Behind nothing the rest is everything.
LEMMA RestAll ==
    ASSUME NEW its \in Seq(Items) PROVE Rest(its, 0) = its
<1>1. Rest(its, 0) \in Seq(Items) /\ Len(Rest(its, 0)) = Len(its) /\ Len(its) \in Nat
  BY RestType, LenProperties
<1>2. \A j \in 1..Len(its) : Rest(its, 0)[j] = its[j]
  BY <1>1 DEF Rest
<1> QED BY <1>1, <1>2, SeqEqual

\* w is s followed by r.
Joined(w, s, r) ==
    /\ w \in Seq(Items) /\ Len(w) = Len(s) + Len(r)
    /\ \A j \in 1..Len(s) + Len(r) : w[j] = IF j <= Len(s) THEN s[j] ELSE r[j - Len(s)]

\* Concatenation, as one predicate.
LEMMA JoinedItems ==
    ASSUME NEW s \in Seq(Items), NEW r \in Seq(Items) PROVE Joined(s \o r, s, r)
BY ConcatProperties DEF Joined

\* What stands in front of the rest.
LEMMA RestJoined ==
    ASSUME NEW its \in Seq(Items), NEW b \in Nat, NEW n \in Nat, b + n <= Len(its),
           NEW s \in Seq(Items), Len(s) = n, \A j \in 1..n : s[j] = its[b + j]
    PROVE  s \o Rest(its, b + n) = Rest(its, b)
<1>1. Len(its) \in Nat
  BY LenProperties
<1>2. PICK r1, r2 : r1 = Rest(its, b) /\ r2 = Rest(its, b + n)
  OBVIOUS
<1>3. /\ r1 \in Seq(Items) /\ Len(r1) = Len(its) - b
      /\ r2 \in Seq(Items) /\ Len(r2) = Len(its) - (b + n)
  <2>1. b <= Len(its) /\ b + n \in Nat
    BY <1>1
  <2>2. r1 \in Seq(Items) /\ Len(r1) = Len(its) - b
    BY <1>2, <2>1, RestType
  <2> DEFINE c == b + n
  <2>3. c \in Nat /\ c <= Len(its)
    BY <2>1
  <2> HIDE DEF c
  <2>4. Rest(its, c) \in Seq(Items) /\ Len(Rest(its, c)) = Len(its) - c
    BY <2>3, RestType
  <2> QED BY <1>2, <2>2, <2>4 DEF c
<1>4. /\ \A j \in 1..Len(its) - b : r1[j] = its[b + j]
      /\ \A j \in 1..Len(its) - (b + n) : r2[j] = its[(b + n) + j]
  BY <1>2 DEF Rest
<1>5. PICK w : w = s \o r2
  OBVIOUS
<1>6. /\ w \in Seq(Items) /\ Len(w) = n + Len(r2)
      /\ \A j \in 1..n + Len(r2) : w[j] = IF j <= n THEN s[j] ELSE r2[j - n]
  BY <1>3, <1>5, JoinedItems DEF Joined
<1>7. Len(w) = Len(r1)
  BY <1>1, <1>3, <1>6
<1>8. ASSUME NEW j \in 1..Len(w) PROVE w[j] = r1[j]
  <2>1. j \in 1..n + Len(r2) /\ j \in 1..Len(its) - b
    BY <1>1, <1>3, <1>6
  <2>2. CASE j <= n
    BY <1>4, <1>6, <2>1, <2>2
  <2>3. CASE ~(j <= n)
    <3>1. j - n \in 1..Len(its) - (b + n) /\ (b + n) + (j - n) = b + j
      BY <1>1, <2>1, <2>3
    <3> QED BY <1>4, <1>6, <2>1, <2>3, <3>1
  <2> QED BY <2>2, <2>3
<1>9. w = r1
  BY <1>3, <1>6, <1>7, <1>8, SeqEqual
<1> QED BY <1>2, <1>5, <1>9

\* The literals of a record as items.
LEMMA CharItemsType ==
    ASSUME NEW ls \in Seq(Nat), NEW u \in Nat, NEW n \in Nat, u + n <= Len(ls)
    PROVE  /\ CharItems(ls, u, n) \in Seq(Items) /\ Len(CharItems(ls, u, n)) = n
           /\ \A j \in 1..n : CharItems(ls, u, n)[j] = <<0, ls[u + j]>>
<1>1. \A j \in 1..n : <<0, ls[u + j]>> \in Items
  <2>1. \A j \in 1..n : u + j \in 1..Len(ls)
    BY LenProperties
  <2> QED BY <2>1, ElementOfSeq DEF Items
<1>2. CharItems(ls, u, n) \in Seq(Items)
  <2>1. PICK f : f = CharItems(ls, u, n)
    OBVIOUS
  <2>2. f = [j \in 1..n |-> f[j]] /\ \A j \in 1..n : f[j] \in Items
    BY <1>1, <2>1 DEF CharItems
  <2>3. f \in Seq(Items)
    <3>1. f \in [1..n -> Items]
      BY <2>2
    <3> QED BY <3>1, SeqDef
  <2> QED BY <2>1, <2>3
<1>3. Len(CharItems(ls, u, n)) = n
  BY DEF CharItems
<1> QED BY <1>2, <1>3 DEF CharItems

\* The literals of a record are the items they came from.
LEMMA LiteralsOfRecord ==
    ASSUME NEW its \in Seq(Items), NEW ls \in Seq(Nat), NEW r \in Records, NEW u \in Nat, r.upto = u + r.lit,
           r.upto <= Len(ls), NEW k \in Nat, k >= 1, RecordItems(its, ls, r, k, u), NEW b, b = u + (k - 1)
    PROVE  /\ CharItems(ls, u, r.lit) \in Seq(Items) /\ Len(CharItems(ls, u, r.lit)) = r.lit
           /\ \A j \in 1..r.lit : CharItems(ls, u, r.lit)[j] = its[b + j]
<1>1. r.lit \in Nat /\ u + r.lit <= Len(ls)
  BY DEF Records
<1>2. /\ CharItems(ls, u, r.lit) \in Seq(Items) /\ Len(CharItems(ls, u, r.lit)) = r.lit
      /\ \A j \in 1..r.lit : CharItems(ls, u, r.lit)[j] = <<0, ls[u + j]>>
  BY <1>1, CharItemsType
<1>3. ASSUME NEW j \in 1..r.lit PROVE its[b + j] = <<0, ls[u + j]>>
  <2>1. u + j \in u + 1..r.upto /\ (u + j) + (k - 1) = b + j
    BY <1>1
  <2>2. \A x \in u + 1..r.upto : its[x + (k - 1)] = <<0, ls[x]>>
    BY DEF RecordItems
  <2>3. its[(u + j) + (k - 1)] = <<0, ls[u + j]>>
    BY <2>1, <2>2
  <2> QED BY <2>1, <2>3
<1> QED BY <1>2, <1>3

\* The last record stands for the items left.
LEMMA LastItems ==
    ASSUME NEW its \in Seq(Items), NEW ls \in Seq(Nat), NEW r \in Records, NEW u \in Nat, r.upto = u + r.lit,
           r.upto <= Len(ls), NEW k \in Nat, k >= 1, RecordItems(its, ls, r, k, u), Len(its) = r.upto + (k - 1)
    PROVE  CharItems(ls, u, r.lit) = Rest(its, u + (k - 1))
<1>1. PICK b, c : b = u + (k - 1) /\ c = CharItems(ls, u, r.lit)
  OBVIOUS
<1>2. r.lit \in Nat /\ b \in Nat /\ Len(its) - b = r.lit /\ b <= Len(its)
  BY <1>1 DEF Records
<1>3. c \in Seq(Items) /\ Len(c) = r.lit /\ \A j \in 1..r.lit : c[j] = its[b + j]
  BY <1>1, LiteralsOfRecord
<1>4. Rest(its, b) \in Seq(Items) /\ Len(Rest(its, b)) = r.lit /\ \A j \in 1..r.lit : Rest(its, b)[j] = its[b + j]
  BY <1>2, RestType DEF Rest
<1>5. c = Rest(its, b)
  BY <1>3, <1>4, SeqEqual
<1> QED BY <1>1, <1>5

\* Any other stands for its literals, its match and what is behind them.
LEMMA MatchItemsJoined ==
    ASSUME NEW its \in Seq(Items), NEW ls \in Seq(Nat), NEW r \in Records, NEW u \in Nat, r.upto = u + r.lit,
           r.upto <= Len(ls), NEW k \in Nat, k >= 1, RecordItems(its, ls, r, k, u), r.upto + k <= Len(its),
           IsMatchRec(r)
    PROVE  Append(CharItems(ls, u, r.lit), <<r.len + MinMatch, r.off + 1>>) \o Rest(its, r.upto + k)
              = Rest(its, u + (k - 1))
<1>1. PICK b, c, e, n : /\ b = u + (k - 1) /\ c = CharItems(ls, u, r.lit)
                        /\ e = <<r.len + MinMatch, r.off + 1>> /\ n = r.lit + 1
  OBVIOUS
<1>2. r.lit \in Nat /\ b \in Nat /\ n \in Nat /\ b + n = r.upto + k /\ b + n <= Len(its) /\ Len(its) \in Nat
  <2>1. Len(its) \in Nat /\ r.lit \in Nat
    BY LenProperties DEF Records
  <2>2. b = u + (k - 1) /\ n = r.lit + 1
    BY <1>1
  <2>3. b \in Nat /\ n \in Nat
    BY <2>1, <2>2
  <2>4. b + n = r.upto + k
    BY <2>1, <2>2
  <2> QED BY <2>1, <2>3, <2>4
<1>3. c \in Seq(Items) /\ Len(c) = r.lit /\ \A j \in 1..r.lit : c[j] = its[b + j]
  BY <1>1, LiteralsOfRecord
<1>4. e \in Items
  <2>1. r.len \in Nat /\ r.off \in Nat
    BY DEF Records
  <2>2. r.len + MinMatch \in Nat /\ r.off + 1 \in Nat
    BY <2>1 DEF MinMatch
  <2> QED BY <1>1, <2>2 DEF Items
<1>5. PICK w : w = Append(c, e)
  OBVIOUS
<1>6. w \in Seq(Items) /\ Len(w) = n /\ (\A j \in 1..r.lit : w[j] = c[j]) /\ w[n] = e
  BY <1>1, <1>3, <1>4, <1>5, AppendProperties
<1>7. ASSUME NEW j \in 1..n PROVE w[j] = its[b + j]
  <2>1. CASE j \in 1..r.lit
    BY <1>3, <1>6, <2>1
  <2>2. CASE j = n
    <3>1. its[b + n] = e
      BY <1>1, <1>2 DEF RecordItems
    <3> QED BY <1>6, <2>2, <3>1
  <2> QED BY <1>1, <1>2, <2>1, <2>2
<1>8. w \o Rest(its, b + n) = Rest(its, b)
  BY <1>2, <1>6, <1>7, RestJoined
<1> QED BY <1>1, <1>2, <1>5, <1>8

\* A block that both processes have finished, that is not flagged and not cut short.
Stored == /\ p1 = "done" /\ p2 = "done" /\ input_size > 0 /\ max_lit_limit = 0
          /\ compressedSize < input_size

\* What is known of its records and items.
LEMMA StoredFacts ==
    ASSUME BInv, Stored
    PROVE  /\ out \in Seq(Bytes) /\ items \in Seq(Items) /\ lits \in Seq(Nat)
           /\ Len(out) \in Nat /\ Len(items) \in Nat /\ Len(lits) \in Nat /\ Len(recs) \in Nat /\ Len(recs) >= 1
           /\ Len(items) = Len(lits) + (Len(recs) - 1)
           /\ \E at : Placed(at, Len(recs), out, lits, recs) /\ at[Len(recs)] = Len(out) + 1
           /\ recs[Len(recs)].upto = Len(lits)
           /\ \A k \in 1..Len(recs) :
                 /\ recs[k] \in Records /\ UpTo(k - 1) \in Nat /\ recs[k].upto = UpTo(k - 1) + recs[k].lit
                 /\ UpTo(k) = recs[k].upto /\ recs[k].upto <= Len(lits) /\ Ahead(recs, k - 1) = UpTo(k - 1)
                 /\ RecordItems(items, lits, recs[k], k, UpTo(k - 1))
                 /\ IF k = Len(recs) THEN IsEnd(recs[k]) ELSE IsMatchRec(recs[k]) /\ ~IsEnd(recs[k])
<1> DEFINE n == Len(recs)
<1>1. /\ IInv /\ ItemsInv /\ OutInv /\ p1 = "done" /\ p2 = "done" /\ input_size > 0 /\ max_lit_limit = 0
      /\ Len(out) < input_size
  BY DEF BInv, LInv, Stored, compressedSize
<1>2. /\ out \in Seq(Bytes) /\ items \in Seq(Items) /\ lits \in Seq(Nat)
      /\ Len(out) \in Nat /\ Len(items) \in Nat /\ Len(lits) \in Nat /\ n \in Nat
  <2>1. out \in Seq(Bytes) /\ items \in Seq(Items) /\ lits \in Seq(Nat)
    BY <1>1 DEF IInv, TypeOK, Items
  <2> QED BY <1>1, <2>1, LenProperties, EncoderTypes
<1>3. /\ recs # <<>> /\ IsEnd(recs[n]) /\ UpTo(n) = Len(lits)
  BY <1>1, SizesAssumption DEF IInv, Part1Inv
<1>4. n >= 1
  <2>1. recs \in Seq(Records)
    BY <1>1, EncoderTypes
  <2> QED BY <1>2, <1>3, <2>1
<1>5. readOffsetFlag = TRUE /\ recsRead = n
  BY <1>1, LoopLeft DEF IInv, Part2Inv, TypeOK
<1>6. \E at : Placed(at, n, out, lits, recs) /\ at[n] = Len(out) + 1
  <2>1. Done = n
    BY <1>5 DEF Done
  <2>2. PICK at : Placed(at, n, out, lits, recs) /\ Progress(at[n])
    BY <1>1, <2>1 DEF OutInv
  <2>3. at[n] = Len(out) + 1
    BY <1>5, <2>2 DEF Progress
  <2> QED BY <2>2, <2>3
<1>7. /\ Len(items) = Len(lits) + n - 1
      /\ \A k \in 1..n : RecordItems(items, lits, recs[k], k, UpTo(k - 1))
  BY <1>1 DEF ItemsInv
<1>8. ASSUME NEW k \in 1..n
      PROVE  /\ recs[k] \in Records /\ UpTo(k - 1) \in Nat /\ recs[k].upto = UpTo(k - 1) + recs[k].lit
             /\ UpTo(k) = recs[k].upto /\ recs[k].upto <= Len(lits) /\ Ahead(recs, k - 1) = UpTo(k - 1)
             /\ RecordItems(items, lits, recs[k], k, UpTo(k - 1))
             /\ IF k = n THEN IsEnd(recs[k]) ELSE IsMatchRec(recs[k]) /\ ~IsEnd(recs[k])
  <2>1. recs[k] \in Records /\ recs[k].upto = UpTo(k - 1) + recs[k].lit /\ recs[k].upto <= Len(lits)
    BY <1>1, EncoderTypes, ElementOfSeq DEF IInv, RunsInv
  <2>2. k - 1 \in 0..n
    BY <1>2
  <2>3. UpTo(k - 1) \in Nat /\ UpTo(k) = recs[k].upto /\ Ahead(recs, k - 1) = UpTo(k - 1)
    BY <1>1, <2>2, EncoderTypes DEF Ahead, UpTo
  <2>4. ASSUME k # n PROVE IsMatchRec(recs[k]) /\ ~IsEnd(recs[k])
    <3>1. IsMatchRec(recs[k])
      BY <1>1, <2>4 DEF IInv, RecordsInv
    <3>2. recs[k].len \in Nat /\ recs[k].len <= MaxMatch - MinMatch /\ recs[k].off \in Nat /\ recs[k].off >= 1
      BY <2>1, <3>1, LimitAssumption DEF IsMatchRec, Records
    <3>3. MaxMatch \in Int /\ MaxMatch <= 255
      BY LimitAssumption DEF MinMatch
    <3>4. recs[k].len < 777 /\ recs[k].off # 0
      BY <3>2, <3>3 DEF MinMatch
    <3> QED BY <3>1, <3>4 DEF IsEnd, IsSpecialEnd, IsNormalEnd, EndMark
  <2> QED BY <1>3, <1>7, <2>1, <2>3, <2>4
<1>9. Len(items) = Len(lits) + (n - 1) /\ recs[n].upto = Len(lits)
  <2>1. n \in 1..n
    BY <1>2, <1>4
  <2> QED BY <1>2, <1>3, <1>7, <1>8, <2>1
<1> QED BY <1>2, <1>4, <1>6, <1>8, <1>9

\* A sequence has a token.
LEMMA WholeIsLong ==
    ASSUME NEW o, Len(o) \in Nat, NEW r \in Records, NEW t \in Nat, NEW ls, NEW u, NEW e, Whole(o, ls, t, r, u, e)
    PROVE  t <= Len(o)
<1>1. PICK b : /\ HeadAt(o, t, r, b) /\ e <= Len(o) + 1
               /\ IF IsEnd(r) THEN e = b + r.lit ELSE TailAt(o, b + r.lit, r, e)
  BY DEF Whole
<1>2. b \in Nat /\ b > t /\ r.lit \in Nat
  BY <1>1 DEF HeadAt, Records
<1>3. e \in Nat /\ e >= b + r.lit
  BY <1>1, <1>2 DEF TailAt
<1> QED BY <1>1, <1>2, <1>3

\* From the k-th sequence on the decoder finds the items from the k-th record on.
LEMMA DecodesFrom ==
    ASSUME BInv, Stored,
           NEW at, Placed(at, Len(recs), out, lits, recs), at[Len(recs)] = Len(out) + 1,
           NEW f, \A p \in 1..Len(out) + 1 : f[p] = DecodeStep(out, p, f), NEW k \in 1..Len(recs)
    PROVE  /\ k = Len(recs) => f[at[k - 1]] = Rest(items, UpTo(k - 1) + (k - 1))
           /\ k # Len(recs) /\ f[at[k]] = Rest(items, UpTo(k) + k) => f[at[k - 1]] = Rest(items, UpTo(k - 1) + (k - 1))
<1> DEFINE n == Len(recs)
<1>1. PICK r, u, t, e : r = recs[k] /\ u = UpTo(k - 1) /\ t = at[k - 1] /\ e = at[k]
  OBVIOUS
<1>2. /\ out \in Seq(Bytes) /\ items \in Seq(Items) /\ lits \in Seq(Nat)
      /\ Len(out) \in Nat /\ Len(items) \in Nat /\ Len(lits) \in Nat /\ n \in Nat /\ n >= 1
      /\ Len(items) = Len(lits) + (n - 1) /\ recs[n].upto = Len(lits)
  BY StoredFacts
<1>3. /\ r \in Records /\ u \in Nat /\ r.upto = u + r.lit /\ r.upto <= Len(lits) /\ UpTo(k) = r.upto
      /\ Ahead(recs, k - 1) = u /\ RecordItems(items, lits, r, k, u)
      /\ IF k = n THEN IsEnd(r) ELSE IsMatchRec(r) /\ ~IsEnd(r)
  BY <1>1, StoredFacts
<1>4. k \in Nat /\ k >= 1 /\ k <= n
  BY <1>2
<1>5. /\ t \in Nat /\ t >= 1 /\ e \in Nat /\ e >= 1 /\ Whole(out, lits, t, r, u, e)
  <2>1. at \in [Nat -> Nat] /\ at[0] = 1 /\ at[k] >= 1 /\ Whole(out, lits, at[k - 1], recs[k], Ahead(recs, k - 1), at[k])
    BY DEF Placed
  <2>2. k - 1 # 0 => at[k - 1] >= 1
    <3>1. k - 1 # 0 => k - 1 \in 1..n
      BY <1>4
    <3> QED BY <3>1 DEF Placed
  <2>3. k - 1 \in Nat
    BY <1>4
  <2> QED BY <1>1, <1>3, <1>4, <2>1, <2>2, <2>3
<1>6. t <= Len(out)
  BY <1>2, <1>3, <1>5, WholeIsLong
<1>7. f[t] = DecodeStep(out, t, f)
  BY <1>2, <1>5, <1>6
<1>8. ASSUME k = n PROVE f[t] = Rest(items, u + (k - 1))
  <2>1. SequenceAt(out, t) = [items |-> CharItems(lits, u, r.lit), next |-> Len(out) + 1]
    BY <1>1, <1>2, <1>3, <1>5, <1>8, LastIsRead
  <2>2. f[t] = CharItems(lits, u, r.lit)
    BY <1>2, <1>7, <2>1 DEF DecodeStep
  <2>3. Len(items) = r.upto + (k - 1)
    BY <1>1, <1>2, <1>8
  <2>4. CharItems(lits, u, r.lit) = Rest(items, u + (k - 1))
    BY <1>2, <1>3, <1>4, <2>3, LastItems
  <2> QED BY <2>2, <2>4
<1>9. ASSUME k # n, f[e] = Rest(items, r.upto + k) PROVE f[t] = Rest(items, u + (k - 1))
  <2>1. e <= Len(out)
    <3>1. k + 1 \in 1..n /\ (k + 1) - 1 = k
      BY <1>2, <1>4, <1>9
    <3>2. PICK r2, u2, e2 : /\ Whole(out, lits, e, r2, u2, e2) /\ r2 \in Records
      BY <1>1, <3>1, StoredFacts DEF Placed
    <3> QED BY <1>2, <1>5, <3>2, WholeIsLong
  <2>2. ReadAs(out, t, r, lits, u, e)
    <3>1. Fits(r)
      <4> DEFINE m == OffBase * OffBase
      <4>1. m \in Nat
        BY FormatAssumption
      <4>2. MaxOffset + 1 < m
        BY OffsetAssumption
      <4> HIDE DEF m
      <4>3. r.off \in Nat /\ r.off <= MaxOffset /\ MaxOffset \in Nat
        BY <1>3, <1>9, LimitAssumption DEF IsMatchRec, Records
      <4>4. r.off + 1 < m
        BY <4>1, <4>2, <4>3
      <4> QED BY <4>4 DEF m, Fits
    <3>2. out \in Seq(Bytes) /\ r \in Records /\ t \in Nat /\ t >= 1 /\ ~IsEnd(r) /\ Whole(out, lits, t, r, u, e)
      BY <1>2, <1>3, <1>5, <1>9
    <3> QED BY <2>1, <3>1, <3>2, MatchIsRead
  <2>3. f[t] = Append(CharItems(lits, u, r.lit), <<r.len + MinMatch, r.off + 1>>) \o Rest(items, r.upto + k)
    <3>1. ~(e > Len(out))
      BY <1>2, <1>5, <2>1
    <3>2. SequenceAt(out, t).next = e
          /\ SequenceAt(out, t).items = Append(CharItems(lits, u, r.lit), <<r.len + MinMatch, r.off + 1>>)
      BY <2>2 DEF ReadAs
    <3>3. f[t] = SequenceAt(out, t).items \o f[SequenceAt(out, t).next]
      BY <1>7, <3>1, <3>2, Zenon DEF DecodeStep
    <3> QED BY <1>9, <3>2, <3>3, Zenon
  <2>4. r.upto + k <= Len(items)
    <3>1. PICK w, l : w = r.upto /\ l = Len(lits)
      OBVIOUS
    <3>2. w \in Nat /\ w <= l /\ l \in Nat /\ Len(items) = l + (n - 1) /\ k < n
      BY <1>2, <1>3, <1>4, <1>9, <3>1 DEF Records
    <3>3. w + k <= l + (n - 1)
      BY <1>2, <1>4, <3>2
    <3> QED BY <3>1, <3>2, <3>3
  <2> QED BY <1>2, <1>3, <1>4, <1>9, <2>3, <2>4, MatchItemsJoined
<1> QED BY <1>1, <1>3, <1>8, <1>9

\* A block that is stored as compressed decodes to the items Part1 was given, as
\* long as every distance fits the two bytes it is written in.
LEMMA StoredIsDecoded ==
    ASSUME BInv, Stored
    PROVE  Decode(out) = items
<1> DEFINE n == Len(recs)
<1>1. /\ out \in Seq(Bytes) /\ items \in Seq(Items) /\ n \in Nat /\ n >= 1
  BY StoredFacts
<1>2. PICK at : Placed(at, n, out, lits, recs) /\ at[n] = Len(out) + 1
  BY StoredFacts
<1>3. PICK f : Decode(out) = f[1] /\ \A p \in 1..Len(out) + 1 : f[p] = DecodeStep(out, p, f)
  BY <1>1, DecodeIs
<1> DEFINE Good(k) == f[at[k - 1]] = Rest(items, UpTo(k - 1) + (k - 1))
           S == {d \in Nat : d < n => Good(n - d)}
<1>4. ASSUME NEW k \in 1..n
      PROVE  /\ k = n => f[at[k - 1]] = Rest(items, UpTo(k - 1) + (k - 1))
             /\ k # n /\ f[at[k]] = Rest(items, UpTo(k) + k) => f[at[k - 1]] = Rest(items, UpTo(k - 1) + (k - 1))
  BY <1>2, <1>3, DecodesFrom
<1>5. 0 \in S
  <2>1. n \in 1..n /\ n - 0 = n
    BY <1>1
  <2>2. Good(n)
    BY <1>4, <2>1
  <2> QED BY <2>1, <2>2
<1>6. ASSUME NEW d \in Nat, d \in S PROVE d + 1 \in S
  <2> SUFFICES ASSUME d + 1 < n PROVE Good(n - (d + 1))
    OBVIOUS
  <2>1. PICK k : k = n - (d + 1)
    OBVIOUS
  <2>2. k \in 1..n /\ k # n /\ n - d = k + 1 /\ d < n /\ (k + 1) - 1 = k
    BY <1>1, <2>1
  <2>3. Good(k + 1)
    BY <1>6, <2>2
  <2>4. f[at[k]] = Rest(items, UpTo(k) + k)
    BY <2>2, <2>3
  <2>5. Good(k)
    BY <1>4, <2>2, <2>4
  <2> QED BY <2>1, <2>5
<1>7. Good(1)
  <2>1. Nat \subseteq S
    <3> HIDE DEF S
    <3> QED BY <1>5, <1>6, SetInduction
  <2>2. n - 1 \in Nat /\ n - 1 < n /\ n - (n - 1) = 1
    BY <1>1
  <2>3. n - 1 \in S
    BY <2>1, <2>2
  <2> QED BY <2>2, <2>3
<1>8. at[0] = 1 /\ UpTo(0) = 0 /\ 1 - 1 = 0 /\ UpTo(0) + 0 = 0
  BY <1>2 DEF Placed, UpTo
<1>9. f[1] = Rest(items, 0)
  BY <1>7, <1>8
<1> QED BY <1>1, <1>3, <1>9, RestAll

\* A block that the host stores as compressed, one not flagged whose size is
\* below that of the input, is a well-formed LZ4 block and decodes to the very
\* items lz4CompressPart1 was given: nothing of it is missing or cut short.
THEOREM StoredDecodes == Spec => []StoredBlockDecodes
<1>1. Init => BInv
  <2>1. Init => Fresh
    BY DEF Init, Fresh
  <2>2. Init => LInv
    <3>1. Init => Len(recs) = 0 /\ readOffsetFlag = TRUE /\ p1 = "start"
      BY DEF Init
    <3> QED BY <3>1, InitInv DEF LInv, PlacesInv, LeftInv
  <2> QED BY <2>1, <2>2, FreshInv DEF BInv
<1>2. BInv => StoredBlockDecodes
  BY StoredIsDecoded DEF Stored, StoredBlockDecodes
<1> QED BY <1>1, <1>2, BlockNext, PTL DEF Spec
=============================================================================
