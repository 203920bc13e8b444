------------------------- MODULE Sha256DataflowProofs -------------------------
(***************************************************************************)
(* For all messages, widths of their stream, depths and even block sizes,  *)
(* however the five processes are scheduled: the block count announced is  *)
(* the number of blocks sent, a returned call leaves nothing behind, and   *)
(* the processes together implement HashFunction.                          *)
(*                                                                         *)
(* The argument has three layers.  The blocks preProcessing makes are the  *)
(* padded message cut into words, branch by branch (WordMade, WideFilled,  *)
(* PreData).  A FIFO is a window on the stream of everything that goes     *)
(* over it in the call (Window), and the windows of all FIFOs follow from  *)
(* where the five processes are (Flow).  What the digest has taken between *)
(* two counts is then the schedule of one message's blocks (DigestIs).     *)
(***************************************************************************)
EXTENDS Sha256Dataflow, SequenceTheorems, WellFoundedInduction, TLAPS

Kind == {"full", "pad", "tail_and_len", "tail", "len"}

\* A length is cut into full blocks and a rest shorter than a block.
LEMMA CutLength ==
    ASSUME NEW n \in Nat
    PROVE  /\ fullBlocks(n) \in Nat
           /\ left(n) \in 0..BlockBytes - 1
           /\ n = BlockBytes * fullBlocks(n) + left(n)
  <1>1. BlockBytes \in Nat \ {0}
    BY BlockAssumption DEF BlockBytes
  <1> DEFINE B == BlockBytes
  <1>2. ASSUME NEW b \in Nat \ {0}
        PROVE  /\ n \div b \in Nat
               /\ n % b \in 0..b - 1
               /\ n = b * (n \div b) + (n % b)
    BY <1>2
  <1>3. QED
    BY <1>1, <1>2 DEF fullBlocks, left

\* Behind the full blocks come two blocks when the tail leaves no room for the
\* length, one otherwise, whichever branch is taken.
LEMMA PaddingLength ==
    ASSUME NEW n \in Nat
    PROVE  /\ PaddingBlocks(n) \in Seq(Kind)
           /\ Len(PaddingBlocks(n)) = IF left(n) > TailRoom - 1 THEN 2 ELSE 1
  <1>1. TailRoom \in Nat /\ TailRoom > 1
    BY BlockAssumption DEF TailRoom, LEN_AT
  <1>2. left(n) \in Nat
    BY CutLength, BlockAssumption DEF BlockBytes
  <1>3. CASE left(n) = 0
    <2>1. PaddingBlocks(n) = <<"pad">>
      BY <1>3 DEF PaddingBlocks
    <2>2. QED
      BY <1>1, <1>3, <2>1 DEF Kind
  <1>4. CASE left(n) \in 1..TailRoom - 1
    <2>1. left(n) # 0 /\ ~(left(n) > TailRoom - 1)
      BY <1>1, <1>4
    <2>2. PaddingBlocks(n) = <<"tail_and_len">>
      BY <1>4, <2>1 DEF PaddingBlocks
    <2>3. QED
      BY <2>1, <2>2 DEF Kind
  <1>5. CASE left(n) > TailRoom - 1
    <2>1. left(n) # 0 /\ left(n) \notin 1..TailRoom - 1
      BY <1>1, <1>2, <1>5
    <2>2. PaddingBlocks(n) = <<"tail", "len">>
      BY <2>1 DEF PaddingBlocks
    <2>3. QED
      BY <1>5, <2>2 DEF Kind
  <1>6. QED
    BY <1>1, <1>2, <1>3, <1>4, <1>5

\* preProcessing sends as many blocks as it announces, whatever the length.
LEMMA BlocksAnnounced ==
    ASSUME NEW n \in Nat
    PROVE  blk_num(n) = Len(SentBlocks(n))
  <1> DEFINE full == [j \in 1..fullBlocks(n) |-> "full"]
  <1>1. fullBlocks(n) \in Nat
    BY CutLength
  <1>2. full \in Seq(Kind) /\ Len(full) = fullBlocks(n)
    BY <1>1 DEF Kind
  <1>3. /\ PaddingBlocks(n) \in Seq(Kind)
        /\ Len(PaddingBlocks(n)) = IF left(n) > TailRoom - 1 THEN 2 ELSE 1
    BY PaddingLength
  <1>4. Len(full \o PaddingBlocks(n)) = Len(full) + Len(PaddingBlocks(n))
    <2> HIDE DEF full
    <2>1. QED
      BY <1>2, <1>3, ConcatProperties
  <1>5. Len(SentBlocks(n)) = fullBlocks(n) + Len(PaddingBlocks(n))
    BY <1>2, <1>4 DEF SentBlocks
  <1>6. blk_num(n) = fullBlocks(n) + Len(PaddingBlocks(n))
    <2>1. CASE left(n) > TailRoom - 1
      BY <1>1, <1>3, <2>1 DEF blk_num
    <2>2. CASE ~(left(n) > TailRoom - 1)
      BY <1>1, <1>3, <2>2 DEF blk_num
    <2>3. QED
      BY <2>1, <2>2
  <1>7. QED
    BY <1>5, <1>6

-----------------------------------------------------------------------------
(* preProcessing *)

PreInv == /\ lens \in Seq(Nat) /\ msg \in Nat \ {0}
          /\ ppc \in {"nblk", "end_nblk", "fill"} => msg <= Len(lens)
          /\ ppc = "fill" => blk \in 1..Len(SentBlocks(len))

LEMMA InitPre == Init => PreInv
  <1> SUFFICES ASSUME Init PROVE PreInv
    OBVIOUS
  <1>1. AloneLens \subseteq Nat /\ MsgLens \subseteq Nat /\ MaxMessages \in Nat
    BY DataflowAssumption
  <1>2. lens \in Seq(Nat)
    <2>1. CASE lens \in BoundedSeq(MsgLens, MaxMessages)
      <3>1. PICK m \in 0..MaxMessages : lens \in [1..m -> MsgLens]
        BY <1>1, <2>1 DEF BoundedSeq, SeqOf
      <3>2. m \in Nat
        BY <1>1
      <3>3. lens = [j \in 1..m |-> lens[j]] /\ \A j \in 1..m : lens[j] \in Nat
        BY <1>1, <3>1
      <3>4. QED
        BY <3>2, <3>3
    <2>2. CASE lens \in {<<n>> : n \in AloneLens}
      <3>1. PICK n \in AloneLens : lens = <<n>>
        BY <2>2
      <3>2. n \in Nat
        BY <1>1, <3>1
      <3>3. QED
        BY <3>1, <3>2
    <2>3. QED
      BY <2>1, <2>2 DEF Init
  <1>3. QED
    BY <1>2 DEF Init, PreInv

\* At least one block is sent for a message.
LEMMA SomeBlock ==
    ASSUME NEW n \in Nat
    PROVE  Len(SentBlocks(n)) \in Nat \ {0}
  <1>1. fullBlocks(n) \in Nat
    BY CutLength
  <1>2. blk_num(n) \in Nat \ {0}
    BY <1>1 DEF blk_num
  <1>3. QED
    BY <1>2, BlocksAnnounced

LEMMA PreStep == PreInv /\ [Next]_vars => PreInv'
  <1> SUFFICES ASSUME PreInv, [Next]_vars PROVE PreInv'
    OBVIOUS
  <1>1. CASE UNCHANGED <<lens, ppc, msg, blk>>
    BY <1>1 DEF PreInv, len
  <1>2. CASE PreStart
    BY <1>2 DEF PreStart, PreInv, call, len
  <1>3. CASE PreAnnounce
    BY <1>3 DEF PreAnnounce, PreInv, call, len
  <1>4. CASE PreEndFlag
    <2>1. /\ lens' = lens /\ msg' = msg /\ blk' = 1
          /\ ppc' = IF ppc = "finish" THEN "done" ELSE "fill"
          /\ ppc \in {"end_nblk", "finish"}
      BY <1>4 DEF PreEndFlag, call
    <2>2. CASE ppc = "finish"
      BY <2>1, <2>2 DEF PreInv
    <2>3. CASE ppc = "end_nblk"
      <3>1. len \in Nat /\ len' = len
        BY <2>1, <2>3 DEF PreInv, len
      <3>2. Len(SentBlocks(len)) \in Nat \ {0}
        BY <3>1, SomeBlock
      <3>3. SentBlocks(len)' = SentBlocks(len)
        BY <3>1 DEF SentBlocks, PaddingBlocks, fullBlocks, left
      <3>4. QED
        BY <2>1, <2>3, <3>2, <3>3 DEF PreInv
    <2>4. QED
      BY <2>1, <2>2, <2>3
  <1>5. CASE PreFill
    BY <1>1, <1>5 DEF PreFill, call
  <1>6. CASE PreSend
    <2>1. ppc = "fill" /\ lens' = lens
      BY <1>6 DEF PreSend, call
    <2>2. CASE blk < Len(SentBlocks(len))
      <3>1. blk' = blk + 1 /\ ppc' = ppc /\ msg' = msg
        BY <1>6, <2>2 DEF PreSend
      <3>2. len' = len
        BY <2>1, <3>1 DEF len
      <3>3. SentBlocks(len)' = SentBlocks(len)
        BY <3>2 DEF SentBlocks, PaddingBlocks, fullBlocks, left
      <3>4. len \in Nat
        BY <2>1 DEF PreInv, len
      <3>5. Len(SentBlocks(len)) \in Nat \ {0}
        BY <3>4, SomeBlock
      <3>6. QED
        BY <2>1, <2>2, <3>1, <3>3, <3>5 DEF PreInv
    <2>3. CASE ~(blk < Len(SentBlocks(len)))
      BY <1>6, <2>1, <2>3 DEF PreSend, PreInv
    <2>4. QED
      BY <2>2, <2>3
  <1>7. CASE dupStage1 \/ dupStage2
    BY <1>1, <1>7 DEF dupStage1, dupStage2, DupReadFlag, DupPassFlag, DupReadValue, DupPassValue,
                      DupFlag, DupValue, DupOut1, DupOut2, DupFlag1, DupFlag2, call, preVars
  <1>8. CASE generateMsgSchedule
    BY <1>1, <1>8 DEF generateMsgSchedule, GenFlag, GenCount, GenBlock, GenWord, call, preVars
  <1>9. CASE sha256Digest
    BY <1>1, <1>9 DEF sha256Digest, DigestFlag, DigestCount, DigestWord, DigestEmit, DigestEndFlag,
                      call, preVars
  <1>10. CASE UNCHANGED vars
    BY <1>1, <1>10 DEF vars, call, preVars
  <1>11. QED
    BY <1>2, <1>3, <1>4, <1>5, <1>6, <1>7, <1>8, <1>9, <1>10 DEF Next, preProcessing, Finished

\* The count sent to the schedule and the digest is that of the blocks that
\* follow, for every message (preProcessing).
THEOREM AnnouncedAreSent == Spec => AnnouncedBlocksAreSent
  <1>1. PreInv /\ [Next]_vars => [msg' # msg => blk = blk_num(len)]_vars
    <2> SUFFICES ASSUME PreInv, Next, msg' # msg
                 PROVE  blk = blk_num(len)
      BY DEF vars
    <2>1. PreSend /\ ~(blk < Len(SentBlocks(len)))
      BY DEF Next, preProcessing, PreStart, PreAnnounce, PreEndFlag, PreFill, PreSend,
             dupStage1, dupStage2, DupReadFlag, DupPassFlag, DupReadValue, DupPassValue,
             DupFlag, DupValue, DupOut1, DupOut2, DupFlag1, DupFlag2,
             generateMsgSchedule, GenFlag, GenCount, GenBlock, GenWord,
             sha256Digest, DigestFlag, DigestCount, DigestWord, DigestEmit, DigestEndFlag,
             Finished, vars, preVars
    <2>2. ppc = "fill"
      BY <2>1 DEF PreSend
    <2>3. len \in Nat /\ blk \in 1..Len(SentBlocks(len))
      BY <2>2 DEF PreInv, len
    <2>4. Len(SentBlocks(len)) = blk_num(len) /\ Len(SentBlocks(len)) \in Nat
      BY <2>3, BlocksAnnounced, SomeBlock
    <2>5. QED
      BY <2>1, <2>3, <2>4
  <1>2. QED
    BY InitPre, PreStep, <1>1, PTL DEF Spec, AnnouncedBlocksAreSent

-----------------------------------------------------------------------------
(* Induction, and sums *)

LEMMA LeastElement ==
    ASSUME NEW T, T \subseteq Nat, T # {}
    PROVE  \E x \in T : \A y \in T : x <= y
<1>1. PICK x \in T : \A y \in T : ~ (<<y, x>> \in OpToRel(<, Nat))
  BY NatLessThanWellFounded, WFMin
<1>2. OpToRel(<, Nat) = {ss \in Nat \X Nat : ss[1] < ss[2]}
  BY DEF OpToRel
<1>3. ASSUME NEW y \in T, y < x PROVE <<y, x>> \in OpToRel(<, Nat)
  BY <1>2, <1>3
<1>4. \A y \in T : ~(y < x)
  BY <1>1, <1>3
<1>5. \A y \in T : x <= y
  BY <1>4
<1> QED BY <1>5

LEMMA SetInduction ==
    ASSUME NEW S, 0 \in S, \A n \in Nat : n \in S => n + 1 \in S
    PROVE  Nat \subseteq S
<1> DEFINE T == Nat \ S
<1>1. SUFFICES ASSUME T # {} PROVE FALSE
  OBVIOUS
<1>2. PICK x \in T : \A y \in T : x <= y
  BY <1>1, LeastElement
<1>3. x - 1 \in Nat /\ x - 1 \in S /\ (x - 1) + 1 = x
  BY <1>2
<1> QED BY <1>2, <1>3

\* The function that Before is defined by.
IsBefore(counts, n, f) == f = [k \in 1..n |-> IF k = 1 THEN 0 ELSE f[k - 1] + counts[k - 1]]

LEMMA SumsExist ==
    ASSUME NEW counts, NEW n \in Nat
    PROVE  \E f : IsBefore(counts, n, f)
<1> DEFINE S == {m \in Nat : \E f : IsBefore(counts, m, f)}
<1>1. 0 \in S
  <2>1. IsBefore(counts, 0, [k \in 1..0 |-> 0])
    BY DEF IsBefore
  <2> QED BY <2>1
<1>2. ASSUME NEW m \in Nat, m \in S PROVE m + 1 \in S
  <2>1. PICK f : IsBefore(counts, m, f)
    BY <1>2
  <2> DEFINE c(k) == counts[k]
             g == [k \in 1..m + 1 |-> IF k \in 1..m THEN f[k] ELSE IF k = 1 THEN 0 ELSE f[k - 1] + c(k - 1)]
  <2> HIDE DEF c
  <2>2. \A k \in 1..m : f[k] = IF k = 1 THEN 0 ELSE f[k - 1] + c(k - 1)
    BY <2>1 DEF IsBefore, c
  <2>3. \A k \in 1..m + 1 : g[k] = IF k = 1 THEN 0 ELSE g[k - 1] + c(k - 1)
    <3>1. ASSUME NEW k \in 1..m + 1 PROVE g[k] = IF k = 1 THEN 0 ELSE g[k - 1] + c(k - 1)
      <4>1. CASE k = 1
        BY <2>2, <4>1
      <4>2. CASE k # 1
        <5>1. k - 1 \in 1..m
          BY <4>2
        <5>2. g[k - 1] = f[k - 1]
          BY <5>1
        <5>3. g[k] = f[k - 1] + c(k - 1)
          BY <2>2, <4>2
        <5> QED BY <4>2, <5>2, <5>3
      <4> QED BY <4>1, <4>2
    <3> QED BY <3>1
  <2>4. g = [k \in 1..m + 1 |-> IF k = 1 THEN 0 ELSE g[k - 1] + c(k - 1)]
    <3> DEFINE h == [k \in 1..m + 1 |-> IF k = 1 THEN 0 ELSE g[k - 1] + c(k - 1)]
    <3>1. DOMAIN g = 1..m + 1 /\ g = [k \in 1..m + 1 |-> g[k]]
      OBVIOUS
    <3> HIDE DEF g
    <3> QED BY <2>3, <3>1
  <2>5. IsBefore(counts, m + 1, g)
    BY <2>4 DEF IsBefore, c
  <2> QED BY <2>5
<1> HIDE DEF S
<1>3. Nat \subseteq S
  BY <1>1, <1>2, SetInduction
<1> QED BY <1>3 DEF S

LEMMA SumsAgree ==
    ASSUME NEW counts, NEW n \in Nat, NEW m \in Nat, NEW f, IsBefore(counts, n, f), NEW g, IsBefore(counts, m, g)
    PROVE  \A k \in 1..n : k <= m => f[k] = g[k]
<1> DEFINE c(k) == counts[k]
           S == {k \in Nat : k \in 1..n /\ k <= m => f[k] = g[k]}
<1>1. /\ \A k \in 1..n : f[k] = IF k = 1 THEN 0 ELSE f[k - 1] + c(k - 1)
      /\ \A k \in 1..m : g[k] = IF k = 1 THEN 0 ELSE g[k - 1] + c(k - 1)
  BY DEF IsBefore
<1> HIDE DEF c
<1>2. 0 \in S
  OBVIOUS
<1>3. ASSUME NEW k \in Nat, k \in S PROVE k + 1 \in S
  <2> SUFFICES ASSUME k + 1 \in 1..n, k + 1 <= m PROVE f[k + 1] = g[k + 1]
    OBVIOUS
  <2>1. CASE k = 0
    BY <1>1, <2>1
  <2>2. CASE k # 0
    <3>1. k \in 1..n /\ k \in 1..m /\ f[k] = g[k] /\ k + 1 # 1 /\ (k + 1) - 1 = k /\ k + 1 \in 1..m
      BY <1>3, <2>2
    <3>2. f[k + 1] = f[k] + c(k) /\ g[k + 1] = g[k] + c(k)
      BY <1>1, <3>1
    <3> QED BY <3>1, <3>2
  <2> QED BY <2>1, <2>2
<1> HIDE DEF S
<1>4. Nat \subseteq S
  BY <1>2, <1>3, SetInduction
<1> QED BY <1>4 DEF S

LEMMA BeforeIs ==
    ASSUME NEW counts, NEW n \in Nat \ {0}, NEW m \in Nat, NEW f, IsBefore(counts, m, f), n <= m
    PROVE  Before(counts, n) = f[n]
<1> DEFINE p == CHOOSE sum : sum = [k \in 1..n |-> IF k = 1 THEN 0 ELSE sum[k - 1] + counts[k - 1]]
<1>1. IsBefore(counts, n, p)
  BY SumsExist, Zenon DEF IsBefore
<1>2. Before(counts, n) = p[n]
  BY DEF Before
<1> HIDE DEF p
<1>3. p[n] = f[n]
  BY <1>1, SumsAgree
<1> QED BY <1>2, <1>3

\* The sum grows by one count at a time.
LEMMA BeforeNext ==
    ASSUME NEW counts
    PROVE  /\ Before(counts, 1) = 0
           /\ \A n \in Nat \ {0} : Before(counts, n + 1) = Before(counts, n) + counts[n]
<1>1. Before(counts, 1) = 0
  <2>1. PICK f : IsBefore(counts, 1, f)
    BY SumsExist
  <2>2. f[1] = 0
    BY <2>1 DEF IsBefore
  <2> QED BY <2>1, <2>2, BeforeIs
<1>2. ASSUME NEW n \in Nat \ {0} PROVE Before(counts, n + 1) = Before(counts, n) + counts[n]
  <2>1. PICK f : IsBefore(counts, n + 1, f)
    BY SumsExist
  <2>2. Before(counts, n + 1) = f[n + 1] /\ Before(counts, n) = f[n]
    BY <2>1, BeforeIs
  <2> DEFINE c(k) == counts[k]
  <2>3. \A k \in 1..n + 1 : f[k] = IF k = 1 THEN 0 ELSE f[k - 1] + c(k - 1)
    BY <2>1 DEF IsBefore
  <2> HIDE DEF c
  <2>4. f[n + 1] = f[n] + c(n)
    <3>1. n + 1 \in 1..n + 1 /\ n + 1 # 1 /\ (n + 1) - 1 = n
      OBVIOUS
    <3> QED BY <2>3, <3>1
  <2> QED BY <2>2, <2>4 DEF c
<1> QED BY <1>1, <1>2

-----------------------------------------------------------------------------
(* The standard's padding, byte by byte *)

LEMMA DivUnique ==
    ASSUME NEW b \in Nat \ {0}, NEW k \in Nat, NEW d \in 0..b - 1
    PROVE  (b * k + d) \div b = k /\ (b * k + d) % b = d
<1> DEFINE x == b * k + d  q == x \div b  e == x % b
<1>1. x \in Nat
  BY SMT
<1> HIDE DEF x
<1>2. q \in Nat /\ e \in 0..b - 1 /\ x = b * q + e
  BY <1>1
<1> HIDE DEF q, e
<1>3. b * k \in Nat /\ b * q \in Nat /\ b * q - b * k = b * (q - k) /\ b * q + e = b * k + d
  BY <1>2, SMT DEF x
<1>4. b * (q - k) = d - e
  BY <1>2, <1>3
<1>5. CASE q > k
  <2>1. b * (q - k) >= b
    BY <1>2, <1>5, SMT
  <2> QED BY <1>2, <1>4, <2>1
<1>6. CASE q < k
  <2>1. b * (q - k) <= -b
    BY <1>2, <1>6, SMT
  <2> QED BY <1>2, <1>4, <2>1
<1>7. CASE q = k
  <2>1. b * (q - k) = 0
    BY <1>2, <1>7, SMT
  <2> QED BY <1>2, <1>4, <1>7, <2>1 DEF q, e, x
<1> QED BY <1>2, <1>5, <1>6, <1>7

\* The bytes of the full blocks, and of all blocks sent.
FullBytes(n) == BlockBytes * fullBlocks(n)
AllBytes(n) == BlockBytes * blk_num(n)

Lengths(n) ==
    /\ BlockBytes \in Nat /\ BlockBytes >= 16 /\ BLOCK_WORDS \in Nat /\ BlockBytes = 4 * BLOCK_WORDS
    /\ LEN_AT = BLOCK_WORDS - 2 /\ TailRoom = BlockBytes - 8
    /\ fullBlocks(n) \in Nat /\ FullBytes(n) \in Nat
    /\ left(n) \in 0..BlockBytes - 1 /\ n = FullBytes(n) + left(n)
    /\ blk_num(n) = fullBlocks(n) + (IF left(n) > BlockBytes - 9 THEN 2 ELSE 1)
    /\ blk_num(n) \in Nat \ {0}
    /\ AllBytes(n) = FullBytes(n) + (IF left(n) > BlockBytes - 9 THEN 2 * BlockBytes ELSE BlockBytes)

LEMMA PaddedLength == ASSUME NEW n \in Nat PROVE Lengths(n)
<1> DEFINE B == BlockBytes  q == fullBlocks(n)  d == left(n)
<1>1. B \in Nat /\ B >= 16 /\ B = 4 * BLOCK_WORDS /\ BLOCK_WORDS \in Nat
  BY BlockAssumption DEF BlockBytes
<1>2. q \in Nat /\ d \in 0..B - 1 /\ n = B * q + d
  BY CutLength
<1>3. LEN_AT = BLOCK_WORDS - 2 /\ TailRoom = B - 8
  BY <1>1 DEF TailRoom, LEN_AT
<1> HIDE DEF B, q, d
<1>4. B * q \in Nat /\ B * (q + 1) = B * q + B /\ B * (q + 2) = B * q + 2 * B
  BY <1>1, <1>2, SMT
<1>5. blk_num(n) = q + (IF d > B - 9 THEN 2 ELSE 1)
  <2>1. blk_num(n) = q + 1 + (IF d > TailRoom - 1 THEN 1 ELSE 0)
    BY DEF blk_num, q, d
  <2>2. CASE d > B - 9
    BY <1>1, <1>2, <1>3, <2>1, <2>2
  <2>3. CASE ~(d > B - 9)
    BY <1>1, <1>2, <1>3, <2>1, <2>3
  <2> QED BY <2>2, <2>3
<1>6. B * blk_num(n) = B * q + (IF d > B - 9 THEN 2 * B ELSE B) /\ blk_num(n) \in Nat \ {0}
  BY <1>2, <1>4, <1>5
<1> QED BY <1>1, <1>2, <1>3, <1>4, <1>5, <1>6 DEF Lengths, FullBytes, AllBytes, B, q, d

\* The fewest zeros fill the blocks that are sent.
LEMMA ZerosFill ==
    ASSUME NEW n \in Nat
    PROVE  /\ ZerosNeeded(n) = AllBytes(n) - n - 9 /\ ZerosNeeded(n) \in Nat
<1> DEFINE B == BlockBytes  z == AllBytes(n) - n - 9
<1>0. Lengths(n)
  BY PaddedLength
<1>1. z \in 0..B - 1
  BY <1>0 DEF Lengths
<1>2. (n + 1 + z + 8) % B = 0
  <2>1. n + 1 + z + 8 = B * blk_num(n) + 0
    BY <1>0 DEF Lengths, AllBytes
  <2>2. B \in Nat \ {0} /\ blk_num(n) \in Nat /\ 0 \in 0..B - 1
    BY <1>0 DEF Lengths
  <2> HIDE DEF B, z
  <2>3. (B * blk_num(n) + 0) % B = 0
    BY <2>2, DivUnique
  <2> QED BY <2>1, <2>3
<1>3. ASSUME NEW y \in 0..B - 1, (n + 1 + y + 8) % B = 0 PROVE y = z
  <2>1. B \in Nat \ {0} /\ AllBytes(n) \in Nat /\ AllBytes(n) = B * blk_num(n) /\ blk_num(n) \in Nat
    <3>1. AllBytes(n) = B * blk_num(n)
      BY DEF AllBytes
    <3> QED BY <1>0, <3>1 DEF Lengths
  <2> DEFINE x == n + 1 + y + 8  k == x \div B
  <2>2. x \in Nat /\ k \in Nat /\ x = B * k
    <3>1. x \in Nat
      OBVIOUS
    <3>2. x % B = 0
      BY <1>3
    <3> HIDE DEF x, B
    <3> QED BY <2>1, <3>1, <3>2
  <2>3. x - B * blk_num(n) = y - z
    BY <1>1, <2>1
  <2> HIDE DEF B, x, k, z
  <2>4. B * k - B * blk_num(n) = B * (k - blk_num(n)) /\ B * blk_num(n) \in Nat /\ B * k \in Nat
    BY <2>1, <2>2, SMT
  <2>5. B * (k - blk_num(n)) = y - z
    BY <2>2, <2>3, <2>4
  <2>6. CASE k > blk_num(n)
    <3>1. B * (k - blk_num(n)) >= B
      BY <2>1, <2>2, <2>6, SMT
    <3> QED BY <1>1, <2>1, <2>5, <3>1
  <2>7. CASE k < blk_num(n)
    <3>1. B * (k - blk_num(n)) <= -B
      BY <2>1, <2>2, <2>7, SMT
    <3> QED BY <1>1, <2>1, <2>5, <3>1
  <2>8. CASE k = blk_num(n)
    <3>1. B * (k - blk_num(n)) = 0
      BY <2>1, <2>2, <2>8, SMT
    <3> QED BY <1>1, <2>1, <2>5, <3>1
  <2> QED BY <2>1, <2>2, <2>6, <2>7, <2>8
<1> HIDE DEF z, B
<1>4. ZerosNeeded(n) = z
  BY <1>1, <1>2, <1>3 DEF ZerosNeeded, B
<1> QED BY <1>1, <1>4 DEF z

\* Byte k of a message of n bytes, padded; byte j of its length.
LengthByte(n, j) == IF j <= 4 THEN 0 ELSE ((8 * n) \div 256 ^ (8 - j)) % 256
StdByte(first, n, k) == IF k <= n THEN 256 + first + k - 1
                        ELSE IF k = n + 1 THEN 128
                        ELSE IF k <= AllBytes(n) - 8 THEN 0
                        ELSE LengthByte(n, k - (AllBytes(n) - 8))

Joined(V, c, a, b, n, m) ==
    /\ c \in Seq(V) /\ Len(c) = n + m
    /\ \A k \in 1..n + m : c[k] = IF k <= n THEN a[k] ELSE b[k - n]
LEMMA Concat ==
    ASSUME NEW V, NEW a \in Seq(V), NEW b \in Seq(V), NEW n \in Nat, n = Len(a), NEW m \in Nat, m = Len(b)
    PROVE  Joined(V, a \o b, a, b, n, m)
BY ConcatProperties DEF Joined

LEMMA StandardBytes ==
    ASSUME NEW first \in Nat, NEW n \in Nat, NEW s, s = StandardPadding(first, n)
    PROVE  /\ s \in Seq(Int \cup {LengthByte(n, j) : j \in 1..8})
           /\ Len(s) = AllBytes(n) /\ AllBytes(n) \in Nat /\ n + 9 <= AllBytes(n)
           /\ \A k \in 1..AllBytes(n) : s[k] = StdByte(first, n, k)
<1> DEFINE V == Int \cup {LengthByte(n, j) : j \in 1..8}
           z == ZerosNeeded(n)
           s1 == [k \in 1..n |-> 256 + first + k - 1]
           s2 == <<128>>
           s3 == [k \in 1..z |-> 0]
           s4 == [k \in 1..8 |-> IF k <= 4 THEN 0 ELSE ((8 * n) \div 256 ^ (8 - k)) % 256]
<1>1. AllBytes(n) \in Nat /\ z \in Nat /\ n + 1 + z + 8 = AllBytes(n)
  <2>1. Lengths(n) /\ z = AllBytes(n) - n - 9 /\ z \in Nat
    BY ZerosFill, PaddedLength
  <2> QED BY <2>1 DEF Lengths
<1> HIDE DEF z
<1>2. s = ((s1 \o s2) \o s3) \o s4
  BY DEF StandardPadding, z
<1>3. s1 \in Seq(V) /\ Len(s1) = n /\ \A k \in 1..n : s1[k] = 256 + first + k - 1
  OBVIOUS
<1>4. s2 \in Seq(V) /\ Len(s2) = 1 /\ s2[1] = 128
  OBVIOUS
<1>5. s3 \in Seq(V) /\ Len(s3) = z /\ \A k \in 1..z : s3[k] = 0
  BY <1>1
<1>6. s4 \in Seq(V) /\ Len(s4) = 8 /\ \A k \in 1..8 : s4[k] = LengthByte(n, k)
  <2>1. s4 = [k \in 1..8 |-> LengthByte(n, k)]
    BY DEF LengthByte
  <2> HIDE DEF s4
  <2>2. \A k \in 1..8 : LengthByte(n, k) \in V
    OBVIOUS
  <2> HIDE DEF V
  <2> QED BY <2>1, <2>2
<1> HIDE DEF s1, s2, s3, s4, V
<1> DEFINE t2 == s1 \o s2  t3 == t2 \o s3
<1>7. t2 \in Seq(V) /\ Len(t2) = n + 1 /\ \A k \in 1..n + 1 : t2[k] = IF k <= n THEN s1[k] ELSE s2[k - n]
  <2>1. 1 \in Nat /\ n = Len(s1) /\ 1 = Len(s2) /\ s1 \in Seq(V) /\ s2 \in Seq(V)
    BY <1>3, <1>4
  <2>2. Joined(V, s1 \o s2, s1, s2, n, 1)
    BY <2>1, Concat
  <2> QED BY <2>2 DEF Joined
<1> HIDE DEF t2
<1>8. t3 \in Seq(V) /\ Len(t3) = n + 1 + z
      /\ \A k \in 1..n + 1 + z : t3[k] = IF k <= n + 1 THEN t2[k] ELSE s3[k - (n + 1)]
  <2>1. n + 1 \in Nat
    OBVIOUS
  <2>2. Joined(V, t2 \o s3, t2, s3, n + 1, z)
    BY <1>1, <1>5, <1>7, <2>1, Concat
  <2> QED BY <2>2 DEF Joined
<1> HIDE DEF t3
<1>9. s \in Seq(V) /\ Len(s) = n + 1 + z + 8
      /\ \A k \in 1..n + 1 + z + 8 : s[k] = IF k <= n + 1 + z THEN t3[k] ELSE s4[k - (n + 1 + z)]
  <2>1. n + 1 + z \in Nat /\ s = t3 \o s4
    BY <1>1, <1>2 DEF t3, t2
  <2>2. Joined(V, t3 \o s4, t3, s4, n + 1 + z, 8)
    BY <1>6, <1>8, <2>1, Concat
  <2> QED BY <2>1, <2>2 DEF Joined
<1>10. ASSUME NEW k \in 1..AllBytes(n) PROVE s[k] = StdByte(first, n, k)
  <2>1. CASE k <= n
    <3>0. /\ k \in 1..n /\ k \in 1..n + 1 /\ k <= n + 1 /\ k \in 1..n + 1 + z /\ k <= n + 1 + z
          /\ k \in 1..n + 1 + z + 8
      BY <1>1, <2>1
    <3>1. s[k] = t3[k] /\ t3[k] = t2[k] /\ t2[k] = s1[k]
      <4>1. s[k] = t3[k]
        BY <1>9, <3>0
      <4>2. t3[k] = t2[k]
        BY <1>8, <3>0
      <4>3. t2[k] = s1[k]
        BY <1>7, <2>1, <3>0
      <4> QED BY <4>1, <4>2, <4>3
    <3>2. s1[k] = 256 + first + k - 1
      BY <1>3, <2>1
    <3> QED BY <2>1, <3>1, <3>2 DEF StdByte
  <2>2. CASE k = n + 1
    <3>1. s[k] = t3[k] /\ t3[k] = t2[k] /\ t2[k] = s2[1]
      BY <1>1, <1>7, <1>8, <1>9, <2>2
    <3> QED BY <1>4, <2>2, <3>1 DEF StdByte
  <2>3. CASE k > n + 1 /\ k <= AllBytes(n) - 8
    <3>1. s[k] = t3[k] /\ t3[k] = s3[k - (n + 1)] /\ k - (n + 1) \in 1..z
      BY <1>1, <1>8, <1>9, <2>3
    <3>2. ~(k <= n) /\ k # n + 1
      BY <2>3
    <3> QED BY <1>5, <2>3, <3>1, <3>2 DEF StdByte
  <2>4. CASE k > AllBytes(n) - 8
    <3>1. s[k] = s4[k - (n + 1 + z)] /\ k - (n + 1 + z) \in 1..8 /\ n + 1 + z = AllBytes(n) - 8
      BY <1>1, <1>9, <2>4
    <3>2. ~(k <= n) /\ k # n + 1 /\ ~(k <= AllBytes(n) - 8)
      BY <1>1, <2>4
    <3> QED BY <1>6, <3>1, <3>2 DEF StdByte
  <2> QED BY <1>1, <2>1, <2>2, <2>3, <2>4
<1> QED BY <1>1, <1>9, <1>10 DEF V

\* Word w of block b of the padded message, the first word being word 0.
StdWord(first, n, b, w) == [j \in 1..4 |-> StdByte(first, n, BlockBytes * (b - 1) + 4 * w + j)]

LEMMA PaddedBlocksAre ==
    ASSUME NEW first \in Nat, NEW n \in Nat, NEW m, m = [first |-> first, bytes |-> n]
    PROVE  PaddedBlocks(m) = [b \in 1..blk_num(n) |-> [w \in 1..BLOCK_WORDS |-> StdWord(first, n, b, w - 1)]]
<1> DEFINE s == StandardPadding(first, n)
           B == BlockBytes
           C == blk_num(n)
<1>1. /\ B \in Nat \ {0} /\ BLOCK_WORDS \in Nat /\ B = 4 * BLOCK_WORDS /\ C \in Nat /\ AllBytes(n) = B * C
  <2>1. Lengths(n) /\ AllBytes(n) = B * C
    BY PaddedLength DEF AllBytes
  <2> QED BY <2>1 DEF Lengths
<1>2. Len(s) = B * C /\ \A k \in 1..B * C : s[k] = StdByte(first, n, k)
  <2> HIDE DEF B, C, s
  <2>1. Len(s) = AllBytes(n) /\ \A k \in 1..AllBytes(n) : s[k] = StdByte(first, n, k)
    BY StandardBytes, Zenon DEF s
  <2> QED BY <1>1, <2>1
<1>3. m.first = first /\ m.bytes = n
  OBVIOUS
<1> HIDE DEF s, B, C
<1>4. Len(s) \div B = C
  <2>1. 0 \in 0..B - 1 /\ B * C = B * C + 0
    BY <1>1
  <2> QED BY <1>1, <1>2, <2>1, DivUnique
<1>5. ASSUME NEW b \in 1..C, NEW w \in 1..BLOCK_WORDS
      PROVE  SubSeq(s, (b - 1) * B + 4 * w - 3, (b - 1) * B + 4 * w) = StdWord(first, n, b, w - 1)
  <2> DEFINE x == (b - 1) * B + 4 * w - 3  e == (b - 1) * B + 4 * w  y == B * (b - 1)
  <2>1. y \in Nat /\ (b - 1) * B = y /\ y + B <= B * C
    <3>1. b - 1 \in Nat /\ C - b \in Nat
      BY <1>1
    <3>2. B * (b - 1) \in Nat /\ B * (C - b) \in Nat /\ (b - 1) * B = B * (b - 1)
      BY <1>1, <3>1, SMT
    <3>3. B * C = B * (b - 1) + B + B * (C - b)
      BY <1>1, SMT
    <3> QED BY <1>1, <3>2, <3>3
  <2> HIDE DEF y
  <2>2. x \in Int /\ e \in Int /\ x = y + 4 * (w - 1) + 1 /\ e = x + 3
    BY <1>1, <2>1
  <2> HIDE DEF x, e
  <2>3. SubSeq(s, x, e) = [k \in 1..4 |-> s[x + k - 1]]
    <3>1. 1..(1 + e - x) = 1..4
      BY <2>2
    <3> QED BY <2>2, <3>1 DEF SubSeq
  <2>4. ASSUME NEW k \in 1..4 PROVE s[x + k - 1] = StdByte(first, n, y + 4 * (w - 1) + k)
    <3>1. x + k - 1 = y + 4 * (w - 1) + k /\ x + k - 1 \in 1..B * C
      BY <1>1, <2>1, <2>2
    <3> QED BY <1>2, <3>1
  <2> QED BY <2>3, <2>4 DEF StdWord, x, e, y, B
<1> QED BY <1>3, <1>4, <1>5 DEF PaddedBlocks, s, B, C

\* Which block of a padded message is of which kind.
KindOf(n, b) ==
    IF b <= fullBlocks(n) THEN "full"
    ELSE IF b = fullBlocks(n) + 2 THEN "len"
    ELSE IF left(n) = 0 THEN "pad"
    ELSE IF left(n) > BlockBytes - 9 THEN "tail" ELSE "tail_and_len"

LEMMA Kinds ==
    ASSUME NEW n \in Nat, NEW b \in 1..blk_num(n)
    PROVE  SentBlocks(n)[b] = KindOf(n, b)
<1> DEFINE f == fullBlocks(n)
           full == [j \in 1..f |-> "full"]
           pads == PaddingBlocks(n)
           p == Len(pads)
<1>0. Lengths(n)
  BY PaddedLength
<1>1. f \in Nat /\ b \in Nat /\ left(n) \in Nat /\ BlockBytes \in Nat /\ BlockBytes >= 16 /\ TailRoom - 1 = BlockBytes - 9
  BY <1>0 DEF Lengths
<1>2. /\ pads \in Seq(Kind) /\ p \in Nat /\ b \in 1..f + p
      /\ p = IF left(n) > TailRoom - 1 THEN 2 ELSE 1
  <2>1. pads \in Seq(Kind) /\ p = IF left(n) > TailRoom - 1 THEN 2 ELSE 1
    BY PaddingLength
  <2>2. blk_num(n) = f + p
    BY <1>0, <1>1, <2>1 DEF Lengths
  <2> QED BY <1>1, <2>1, <2>2
<1>3. full \in Seq(Kind) /\ Len(full) = f /\ \A j \in 1..f : full[j] = "full"
  BY <1>1 DEF Kind
<1> HIDE DEF f, full
<1>4. Joined(Kind, full \o pads, full, pads, f, p)
  <2>1. f = Len(full)
    BY <1>3
  <2> HIDE DEF pads
  <2> QED BY <1>1, <1>2, <1>3, <2>1, Concat
<1>5. SentBlocks(n)[b] = IF b <= f THEN full[b] ELSE pads[b - f]
  <2> HIDE DEF pads, p
  <2> QED BY <1>2, <1>4 DEF Joined, SentBlocks, full, f, pads
<1>6. CASE b <= f
  <2>1. b \in 1..f
    BY <1>1, <1>2, <1>6
  <2> QED BY <1>3, <1>5, <1>6, <2>1 DEF KindOf, f
<1>7. CASE ~(b <= f) /\ left(n) > TailRoom - 1
  <2>1. left(n) # 0 /\ left(n) \notin 1..TailRoom - 1
    BY <1>1, <1>7
  <2>2. pads = <<"tail", "len">>
    BY <2>1 DEF PaddingBlocks
  <2>3. CASE b = f + 1
    <3>1. b - f = 1 /\ b # f + 2 /\ left(n) > BlockBytes - 9
      BY <1>1, <1>7, <2>3
    <3>2. KindOf(n, b) = "tail"
      BY <1>7, <2>1, <3>1 DEF KindOf, f
    <3> QED BY <1>5, <1>7, <2>2, <3>1, <3>2
  <2>4. CASE b = f + 2
    <3>1. b - f = 2
      BY <1>1, <2>4
    <3>2. KindOf(n, b) = "len"
      BY <1>7, <2>4 DEF KindOf, f
    <3> QED BY <1>5, <1>7, <2>2, <3>1, <3>2
  <2> QED BY <1>1, <1>2, <1>7, <2>3, <2>4
<1>8. CASE ~(b <= f) /\ ~(left(n) > TailRoom - 1)
  <2>1. b - f = 1 /\ b # f + 2 /\ ~(left(n) > BlockBytes - 9)
    BY <1>1, <1>2, <1>8
  <2>2. CASE left(n) = 0
    <3>1. pads = <<"pad">>
      BY <2>2 DEF PaddingBlocks
    <3>2. KindOf(n, b) = "pad"
      BY <1>8, <2>1, <2>2 DEF KindOf, f
    <3> QED BY <1>5, <1>8, <2>1, <3>1, <3>2
  <2>3. CASE left(n) # 0
    <3>1. left(n) \in 1..TailRoom - 1
      BY <1>1, <1>8, <2>3
    <3>2. pads = <<"tail_and_len">>
      BY <2>3, <3>1 DEF PaddingBlocks
    <3>3. KindOf(n, b) = "tail_and_len"
      BY <1>8, <2>1, <2>3 DEF KindOf, f
    <3> QED BY <1>5, <1>8, <2>1, <3>2, <3>3
  <2> QED BY <2>2, <2>3
<1> QED BY <1>6, <1>7, <1>8

\* Where a block stands, by its kind.
Placed(n, b, kd) ==
    /\ BlockBytes * (b - 1) \in Nat
    /\ kd \in Kind
    /\ kd = "full" => BlockBytes * (b - 1) + BlockBytes <= n
    /\ kd \in {"pad", "tail", "tail_and_len"} => BlockBytes * (b - 1) = FullBytes(n)
    /\ kd = "len" => BlockBytes * (b - 1) = FullBytes(n) + BlockBytes
    /\ kd = "pad" => left(n) = 0
    /\ kd = "tail_and_len" => left(n) \in 1..BlockBytes - 9
    /\ kd \in {"tail", "len"} => left(n) \in BlockBytes - 8..BlockBytes - 1

LEMMA Places ==
    ASSUME NEW n \in Nat, NEW b \in 1..blk_num(n)
    PROVE  Placed(n, b, SentBlocks(n)[b])
<1> DEFINE B == BlockBytes  f == fullBlocks(n)  d == left(n)  F == FullBytes(n)  kd == SentBlocks(n)[b]
<1>0. Lengths(n)
  BY PaddedLength
<1>1. /\ B \in Nat /\ B >= 16 /\ f \in Nat /\ d \in 0..B - 1 /\ F \in Nat /\ n = F + d /\ b \in 1..f + 2
      /\ b = f + 2 => d > B - 9
  BY <1>0 DEF Lengths
<1>2. kd = KindOf(n, b)
  BY Kinds
<1>3. F = B * f
  BY DEF FullBytes
<1> HIDE DEF B, f, d, F, kd
<1>4. B * (b - 1) \in Nat
  <2>1. b - 1 \in Nat
    BY <1>1
  <2> QED BY <1>1, <2>1, SMT
<1>5. CASE b <= f
  <2>1. B * f = B * (b - 1) + B + B * (f - b) /\ B * (f - b) \in Nat
    <3>1. f - b \in Nat /\ b \in Nat
      BY <1>1, <1>5
    <3> QED BY <1>1, <3>1, SMT
  <2>2. kd = "full"
    BY <1>2, <1>5 DEF KindOf, f
  <2>3. B * (b - 1) + B <= n
    BY <1>1, <1>3, <1>4, <2>1
  <2> QED BY <1>4, <2>2, <2>3 DEF Placed, Kind, B, kd
<1>6. CASE b = f + 1
  <2>1. B * (b - 1) = F
    BY <1>1, <1>3, <1>6
  <2>2. /\ d = 0 => kd = "pad"
        /\ d # 0 /\ d > B - 9 => kd = "tail"
        /\ d # 0 /\ ~(d > B - 9) => kd = "tail_and_len"
    <3>1. ~(b <= f) /\ b # f + 2
      BY <1>1, <1>6
    <3> QED BY <1>2, <3>1 DEF KindOf, f, d, B
  <2>3. CASE d = 0
    BY <1>1, <1>4, <2>1, <2>2, <2>3 DEF Placed, Kind, B, kd, F, d
  <2>4. CASE d # 0 /\ d > B - 9
    <3>1. d \in B - 8..B - 1
      BY <1>1, <2>4
    <3> QED BY <1>4, <2>1, <2>2, <2>4, <3>1 DEF Placed, Kind, B, kd, F, d
  <2>5. CASE d # 0 /\ ~(d > B - 9)
    <3>1. d \in 1..B - 9
      BY <1>1, <2>5
    <3> QED BY <1>4, <2>1, <2>2, <2>5, <3>1 DEF Placed, Kind, B, kd, F, d
  <2> QED BY <2>3, <2>4, <2>5
<1>7. CASE b = f + 2
  <2>1. B * (b - 1) = F + B
    <3>1. b - 1 = f + 1 /\ B * (f + 1) = B * f + B
      BY <1>1, <1>7, SMT
    <3> QED BY <1>3, <3>1
  <2>2. kd = "len"
    <3>1. ~(b <= f)
      BY <1>1, <1>7
    <3> QED BY <1>2, <1>7, <3>1 DEF KindOf, f
  <2>3. d \in B - 8..B - 1
    BY <1>1, <1>7
  <2> QED BY <1>4, <2>1, <2>2, <2>3 DEF Placed, Kind, B, kd, F, d
<1> QED BY <1>1, <1>5, <1>6, <1>7 DEF kd

\* Byte x of a block of a kind whose bytes are numbered from p.
BlockByte(kd, n, p, x) ==
    IF kd = "full" \/ (IsTail(kd) /\ x <= left(n)) THEN 256 + p + x - 1
    ELSE IF (IsTail(kd) /\ x = left(n) + 1) \/ (kd = "pad" /\ x = 1) THEN 128
    ELSE IF HasLength(kd) /\ x > BlockBytes - 8 THEN LengthByte(n, x - (BlockBytes - 8))
    ELSE 0

LEMMA ByteOfBlock ==
    ASSUME NEW n \in Nat, NEW b \in 1..blk_num(n), NEW first \in Nat, NEW x \in 1..BlockBytes
    PROVE  StdByte(first, n, BlockBytes * (b - 1) + x)
           = BlockByte(SentBlocks(n)[b], n, first + BlockBytes * (b - 1), x)
<1> DEFINE B == BlockBytes  d == left(n)  F == FullBytes(n)  kd == SentBlocks(n)[b]  y == B * (b - 1)
           A == AllBytes(n)  p == first + y  k == y + x
<1>0. Lengths(n) /\ Placed(n, b, kd)
  BY PaddedLength, Places
<1>1. /\ B \in Nat /\ B >= 16 /\ d \in 0..B - 1 /\ F \in Nat /\ n = F + d
      /\ A = F + (IF d > B - 9 THEN 2 * B ELSE B) /\ x \in 1..B
  BY <1>0 DEF Lengths
<1>2. /\ y \in Nat /\ kd \in Kind
      /\ kd = "full" => y + B <= n
      /\ kd \in {"pad", "tail", "tail_and_len"} => y = F
      /\ kd = "len" => y = F + B
      /\ kd = "pad" => d = 0
      /\ kd = "tail_and_len" => d \in 1..B - 9
      /\ kd \in {"tail", "len"} => d \in B - 8..B - 1
  BY <1>0 DEF Placed
<1> HIDE DEF B, d, F, kd, y, A, k
<1>3. k = y + x
  BY DEF k
<1>4. CASE kd = "full"
  <2>1. BlockByte(kd, n, p, x) = 256 + p + x - 1
    BY <1>4 DEF BlockByte
  <2>2. k <= n
    BY <1>1, <1>2, <1>3, <1>4
  <2>3. StdByte(first, n, k) = 256 + first + k - 1
    BY <2>2 DEF StdByte
  <2> QED BY <1>1, <1>2, <1>3, <2>1, <2>3 DEF k, y, B, kd
<1>5. CASE kd \in {"tail", "tail_and_len"}
  <2>1. IsTail(kd) /\ kd # "full" /\ kd # "pad" /\ y = F /\ d \in 1..B - 1
    BY <1>1, <1>2, <1>5 DEF IsTail
  <2>2. CASE x <= d
    <3>1. BlockByte(kd, n, p, x) = 256 + p + x - 1
      BY <2>1, <2>2 DEF BlockByte, d
    <3>2. k <= n
      BY <1>1, <1>3, <2>1, <2>2
    <3>3. StdByte(first, n, k) = 256 + first + k - 1
      BY <3>2 DEF StdByte
    <3> QED BY <1>1, <1>2, <1>3, <3>1, <3>3 DEF k, y, B, kd
  <2>3. CASE x = d + 1
    <3>1. BlockByte(kd, n, p, x) = 128
      <4>1. ~(x <= d)
        BY <1>1, <2>3
      <4> QED BY <2>1, <2>3, <4>1 DEF BlockByte, d
    <3>2. k = n + 1 /\ ~(k <= n)
      BY <1>1, <1>3, <2>1, <2>3
    <3>3. StdByte(first, n, k) = 128
      BY <3>2 DEF StdByte
    <3> QED BY <3>1, <3>3 DEF k, y, B, kd
  <2>4. CASE x > d + 1
    <3>1. ~(k <= n) /\ k # n + 1 /\ ~(x <= d) /\ x # d + 1
      BY <1>1, <1>3, <2>1, <2>4
    <3>2. CASE kd = "tail_and_len" /\ x > B - 8
      <4>1. BlockByte(kd, n, p, x) = LengthByte(n, x - (B - 8))
        BY <2>1, <3>1, <3>2 DEF BlockByte, HasLength, d, B
      <4>2. ~(k <= A - 8) /\ k - (A - 8) = x - (B - 8)
        BY <1>1, <1>2, <1>3, <2>1, <3>2
      <4>3. StdByte(first, n, k) = LengthByte(n, x - (B - 8))
        BY <3>1, <4>2 DEF StdByte, A
      <4> QED BY <4>1, <4>3 DEF k, y, B, kd
    <3>3. CASE ~(kd = "tail_and_len" /\ x > B - 8)
      <4>1. BlockByte(kd, n, p, x) = 0
        <5>1. ~(HasLength(kd) /\ x > B - 8)
          BY <1>5, <3>3 DEF HasLength
        <5> QED BY <2>1, <3>1, <5>1 DEF BlockByte, d, B
      <4>2. k <= A - 8
        <5>1. CASE kd = "tail"
          BY <1>1, <1>2, <1>3, <2>1, <5>1
        <5>2. CASE kd = "tail_and_len"
          BY <1>1, <1>2, <1>3, <2>1, <3>3, <5>2
        <5> QED BY <1>5, <5>1, <5>2
      <4>3. StdByte(first, n, k) = 0
        BY <3>1, <4>2 DEF StdByte, A
      <4> QED BY <4>1, <4>3 DEF k, y, B, kd
    <3> QED BY <3>2, <3>3
  <2> QED BY <1>1, <2>1, <2>2, <2>3, <2>4
<1>6. CASE kd \in {"pad", "len"}
  <2>1. ~IsTail(kd) /\ kd # "full" /\ HasLength(kd)
    BY <1>6 DEF IsTail, HasLength
  <2>2. CASE kd = "pad" /\ x = 1
    <3>1. BlockByte(kd, n, p, x) = 128
      BY <2>1, <2>2 DEF BlockByte
    <3>2. k = n + 1 /\ ~(k <= n)
      BY <1>1, <1>2, <1>3, <2>2
    <3>3. StdByte(first, n, k) = 128
      BY <3>2 DEF StdByte
    <3> QED BY <3>1, <3>3 DEF k, y, B, kd
  <2>3. CASE ~(kd = "pad" /\ x = 1)
    <3>1. ~(k <= n) /\ k # n + 1
      <4>1. CASE kd = "pad"
        BY <1>1, <1>2, <1>3, <2>3, <4>1
      <4>2. CASE kd = "len"
        BY <1>1, <1>2, <1>3, <4>2
      <4> QED BY <1>6, <4>1, <4>2
    <3>2. k - (A - 8) = x - (B - 8) /\ (k <= A - 8 <=> x <= B - 8)
      <4>1. CASE kd = "pad"
        BY <1>1, <1>2, <1>3, <4>1
      <4>2. CASE kd = "len"
        BY <1>1, <1>2, <1>3, <4>2
      <4> QED BY <1>6, <4>1, <4>2
    <3>3. CASE x > B - 8
      <4>1. BlockByte(kd, n, p, x) = LengthByte(n, x - (B - 8))
        BY <2>1, <2>3, <3>3 DEF BlockByte, B
      <4>2. ~(k <= A - 8)
        BY <1>1, <3>2, <3>3
      <4>3. StdByte(first, n, k) = LengthByte(n, x - (B - 8))
        BY <3>1, <3>2, <4>2 DEF StdByte, A
      <4> QED BY <4>1, <4>3 DEF k, y, B, kd
    <3>4. CASE ~(x > B - 8)
      <4>1. BlockByte(kd, n, p, x) = 0
        BY <2>1, <2>3, <3>4 DEF BlockByte, B
      <4>2. k <= A - 8
        BY <1>1, <3>2, <3>4
      <4>3. StdByte(first, n, k) = 0
        BY <3>1, <4>2 DEF StdByte, A
      <4> QED BY <4>1, <4>3 DEF k, y, B, kd
    <3> QED BY <3>3, <3>4
  <2> QED BY <2>2, <2>3
<1> QED BY <1>2, <1>4, <1>5, <1>6 DEF Kind

-----------------------------------------------------------------------------
(* The words preProcessing makes *)

\* The four bytes of the message from a on, the last one first; end is where it ends.
FourBytes(a, end) == [k \in 1..4 |-> IF a + 4 - k < end THEN 256 + a + 4 - k ELSE Junk]

IsFour(l) == l = [k \in 1..4 |-> l[k]]

LEMMA FourReversed ==
    ASSUME NEW l, IsFour(l)
    PROVE  BigEndian(l) = [j \in 1..4 |-> l[5 - j]]
<1>1. Len([k \in 1..4 |-> l[k]]) = 4
  OBVIOUS
<1>2. Len(l) = 4
  BY <1>1 DEF IsFour
<1>3. \A j \in 1..4 : 4 - j + 1 = 5 - j
  OBVIOUS
<1> QED BY <1>2, <1>3 DEF BigEndian, Reverse

LEMMA OneBehind ==
    ASSUME NEW l, NEW e \in 0..3, e > 0 => IsFour(l)
    PROVE  OneAfter(e, l) = [j \in 1..4 |-> IF j <= e THEN l[5 - j] ELSE IF j = e + 1 THEN 128 ELSE 0]
<1> DEFINE g == BigEndian(l)  T == [j \in 1..4 |-> IF j <= e THEN l[5 - j] ELSE IF j = e + 1 THEN 128 ELSE 0]
<1>1. e > 0 => \A j \in 1..4 : g[j] = l[5 - j]
  BY FourReversed
<1> HIDE DEF g
<1> DEFINE V == {l[5 - j] : j \in 1..4} \cup {0, 128}
           a == [j \in 1..e |-> l[5 - j]]
           z == [k \in 1..3 - e |-> 0]
           o == <<128>>
<1>2. SubSeq(g, 1, e) = a
  <2>1. 1..(1 + e - 1) = 1..e
    OBVIOUS
  <2>2. SubSeq(g, 1, e) = [j \in 1..e |-> g[1 + j - 1]]
    BY <2>1 DEF SubSeq
  <2>3. ASSUME NEW j \in 1..e PROVE g[1 + j - 1] = l[5 - j]
    <3>1. 1 + j - 1 = j /\ e > 0 /\ j \in 1..4
      OBVIOUS
    <3> QED BY <1>1, <3>1
  <2> QED BY <2>2, <2>3
<1>3. a \in Seq(V) /\ Len(a) = e /\ \A j \in 1..e : a[j] = l[5 - j]
  <2>1. \A j \in 1..e : l[5 - j] \in V
    OBVIOUS
  <2> HIDE DEF V
  <2> QED BY <2>1
<1>4. z \in Seq(V) /\ Len(z) = 3 - e /\ \A k \in 1..3 - e : z[k] = 0
  <2>1. 0 \in V /\ 3 - e \in Nat
    OBVIOUS
  <2> HIDE DEF V
  <2> QED BY <2>1
<1>5. o \in Seq(V) /\ Len(o) = 1 /\ o[1] = 128
  <2>1. 128 \in V
    OBVIOUS
  <2> HIDE DEF V
  <2> QED BY <2>1
<1>6. OneAfter(e, l) = (a \o o) \o z
  BY <1>2 DEF OneAfter, g
<1> HIDE DEF V, a, z, o, T
<1>7. Joined(V, a \o o, a, o, e, 1)
  <2>1. e \in Nat /\ 1 \in Nat /\ e = Len(a) /\ 1 = Len(o)
    BY <1>3, <1>5
  <2> QED BY <1>3, <1>5, <2>1, Concat
<1> DEFINE ao == a \o o
<1>8. ao \in Seq(V) /\ Len(ao) = e + 1 /\ \A j \in 1..e + 1 : ao[j] = IF j <= e THEN a[j] ELSE o[j - e]
  BY <1>7 DEF Joined
<1> HIDE DEF ao
<1>9. Joined(V, ao \o z, ao, z, e + 1, 3 - e)
  <2>1. e + 1 \in Nat /\ 3 - e \in Nat /\ e + 1 = Len(ao) /\ 3 - e = Len(z)
    BY <1>4, <1>8
  <2> QED BY <1>4, <1>8, <2>1, Concat
<1> DEFINE az == ao \o z
<1>10. az = [j \in 1..4 |-> az[j]] /\ \A j \in 1..4 : az[j] = IF j <= e + 1 THEN ao[j] ELSE z[j - (e + 1)]
  <2>1. e + 1 + (3 - e) = 4
    OBVIOUS
  <2>2. az \in Seq(V) /\ Len(az) = 4 /\ \A j \in 1..4 : az[j] = IF j <= e + 1 THEN ao[j] ELSE z[j - (e + 1)]
    BY <1>9, <2>1 DEF Joined
  <2> HIDE DEF az
  <2> QED BY <2>2
<1> HIDE DEF az
<1>11. ASSUME NEW j \in 1..4
       PROVE  az[j] = IF j <= e THEN l[5 - j] ELSE IF j = e + 1 THEN 128 ELSE 0
  <2>1. CASE j <= e
    <3>1. j \in 1..e /\ j \in 1..e + 1 /\ j <= e + 1
      BY <2>1
    <3> QED BY <1>3, <1>8, <1>10, <2>1, <3>1
  <2>2. CASE j = e + 1
    <3>1. j \in 1..e + 1 /\ j <= e + 1 /\ ~(j <= e) /\ j - e = 1
      BY <2>2
    <3>2. az[j] = ao[j] /\ ao[j] = o[1]
      BY <1>8, <1>10, <3>1
    <3> QED BY <1>5, <2>2, <3>1, <3>2
  <2>3. CASE j > e + 1
    <3>1. ~(j <= e + 1) /\ ~(j <= e) /\ j # e + 1 /\ j - (e + 1) \in 1..3 - e
      BY <2>3
    <3> QED BY <1>4, <1>10, <3>1
  <2> QED BY <2>1, <2>2, <2>3
<1>12. az = T
  BY <1>10, <1>11 DEF T
<1> QED BY <1>6, <1>12 DEF az, ao, T

\* A rest is cut into words and the bytes behind them.
LEMMA CutByFour ==
    ASSUME NEW d \in Nat
    PROVE  d \div 4 \in Nat /\ d % 4 \in 0..3 /\ d = 4 * (d \div 4) + (d % 4)
OBVIOUS

\* The bytes of a word of a block.
BlockWord(kd, n, p, w) == [j \in 1..4 |-> BlockByte(kd, n, p, 4 * w + j)]

\* A word that is read, or made, by the 32-bit version is what its block asks for.
LEMMA MadeWord ==
    ASSUME NEW n \in Nat, NEW b \in 1..blk_num(n), NEW first \in Nat, NEW w \in 0..BLOCK_WORDS - 1,
           NEW kd, kd = SentBlocks(n)[b], NEW p, p = first + BlockBytes * (b - 1), NEW l,
           Reads32(kd, n, w) => l = FourBytes(p + 4 * w, first + n)
    PROVE  M32(kd, n, w, l) = BlockWord(kd, n, p, w)
<1> DEFINE B == BlockBytes  d == left(n)  F == FullBytes(n)  y == B * (b - 1)  T == BlockWord(kd, n, p, w)
           q == d \div 4  e == d % 4
<1>0. Lengths(n) /\ Placed(n, b, kd)
  BY PaddedLength, Places
<1>1. /\ B \in Nat /\ B >= 16 /\ B = 4 * BLOCK_WORDS /\ BLOCK_WORDS \in Nat /\ LEN_AT = BLOCK_WORDS - 2
      /\ d \in 0..B - 1 /\ F \in Nat /\ n = F + d
  BY <1>0 DEF Lengths
<1>2. /\ y \in Nat /\ kd \in Kind /\ p = first + y
      /\ kd = "full" => y + B <= n
      /\ kd \in {"pad", "tail", "tail_and_len"} => y = F
      /\ kd = "pad" => d = 0
      /\ kd = "tail_and_len" => d \in 1..B - 9
  BY <1>0 DEF Placed
<1>3. q \in Nat /\ e \in 0..3 /\ d = 4 * q + e
  BY <1>1, CutByFour
<1> HIDE DEF B, d, F, y, q, e
<1>4. kd = "tail_and_len" => q < LEN_AT
  BY <1>1, <1>2, <1>3
<1>5. \A j \in 1..4 : T[j] = BlockByte(kd, n, p, 4 * w + j)
  BY DEF BlockWord
<1>6. T = [j \in 1..4 |-> T[j]]
  BY DEF BlockWord
<1>7. Reads32(kd, n, w) =>
         /\ IsFour(l)
         /\ \A k \in 1..4 : p + 4 * w + 4 - k < first + n => l[k] = 256 + (p + 4 * w) + 4 - k
  BY DEF FourBytes, IsFour
<1>t. T = BlockWord(kd, n, p, w)
  OBVIOUS
<1> HIDE DEF T
<1>8. CASE HasLength(kd) /\ w >= LEN_AT
  <2>1. w \in {BLOCK_WORDS - 2, BLOCK_WORDS - 1} /\ w \in Nat
    BY <1>1, <1>8
  <2>2. M32(kd, n, w, l) = LengthWord(n, w)
    <3>1. kd # "full" /\ ~(IsTail(kd) /\ w < q) /\ ~(IsTail(kd) /\ w = q) /\ ~(kd = "pad" /\ w = 0)
      <4>1. kd # "full" /\ (IsTail(kd) => kd = "tail_and_len")
        BY <1>8 DEF HasLength, IsTail
      <4>2. w # 0
        BY <1>1, <2>1
      <4> QED BY <1>1, <1>3, <1>4, <1>8, <2>1, <4>1, <4>2
    <3> QED BY <1>8, <3>1 DEF M32, q, d
  <2>3. ASSUME NEW j \in 1..4 PROVE T[j] = LengthByte(n, (4 * w + j) - (B - 8))
    <3>1. 4 * w + j > B - 8
      BY <1>1, <2>1
    <3>2. kd # "full" /\ ~(IsTail(kd) /\ 4 * w + j <= d) /\ ~(IsTail(kd) /\ 4 * w + j = d + 1)
          /\ ~(kd = "pad" /\ 4 * w + j = 1)
      <4>1. kd # "full" /\ (IsTail(kd) => kd = "tail_and_len")
        BY <1>8 DEF HasLength, IsTail
      <4> QED BY <1>1, <1>2, <2>1, <3>1, <4>1
    <3>3. T[j] = BlockByte(kd, n, p, 4 * w + j)
      BY <1>5
    <3>4. BlockByte(kd, n, p, 4 * w + j) = LengthByte(n, (4 * w + j) - (B - 8))
      BY <1>8, <3>1, <3>2, Zenon DEF BlockByte, B, d
    <3> QED BY <3>3, <3>4
  <2>4. LengthWord(n, w) = [j \in 1..4 |-> LengthByte(n, (4 * w + j) - (B - 8))]
    <3>1. CASE w = LEN_AT
      <4>1. \A j \in 1..4 : (4 * w + j) - (B - 8) = j /\ j <= 4
        BY <1>1, <3>1
      <4>2. \A j \in 1..4 : LengthByte(n, (4 * w + j) - (B - 8)) = 0
        BY <4>1 DEF LengthByte
      <4>3. Zero = [j \in 1..4 |-> 0]
        BY DEF Zero
      <4> QED BY <3>1, <4>2, <4>3 DEF LengthWord
    <3>2. CASE w # LEN_AT
      <4>1. \A j \in 1..4 : (4 * w + j) - (B - 8) = j + 4 /\ ~(j + 4 <= 4) /\ 8 - (j + 4) = 4 - j
        BY <1>1, <2>1, <3>2
      <4>2. \A j \in 1..4 : LengthByte(n, (4 * w + j) - (B - 8)) = ((8 * n) \div 256 ^ (4 - j)) % 256
        BY <4>1, Zenon DEF LengthByte
      <4> QED BY <3>2, <4>2, Zenon DEF LengthWord
    <3> QED BY <3>1, <3>2
  <2> QED BY <1>t, <1>6, <2>2, <2>3, <2>4
<1>9. CASE ~(HasLength(kd) /\ w >= LEN_AT) /\ (kd = "full" \/ (IsTail(kd) /\ w < q))
  <2>1. M32(kd, n, w, l) = BigEndian(l)
    <3>1. ~(IsTail(kd) /\ w = q) /\ kd # "pad"
      BY <1>3, <1>9 DEF IsTail
    <3> QED BY <1>9, <3>1 DEF M32, q, d
  <2>2. Reads32(kd, n, w)
    <3>1. IsTail(kd) /\ w < q => 4 * w < d
      BY <1>3
    <3> QED BY <1>9, <3>1 DEF Reads32, d
  <2>3. BigEndian(l) = [j \in 1..4 |-> l[5 - j]]
    BY <1>7, <2>2, FourReversed
  <2>4. ASSUME NEW j \in 1..4 PROVE l[5 - j] = 256 + p + (4 * w + j) - 1
    <3>1. 5 - j \in 1..4 /\ p + 4 * w + 4 - (5 - j) < first + n
      <4>1. CASE kd = "full"
        BY <1>1, <1>2, <4>1
      <4>2. CASE IsTail(kd) /\ w < q
        <5>1. y = F
          BY <1>2, <4>2 DEF IsTail
        <5> QED BY <1>1, <1>2, <1>3, <4>2, <5>1
      <4> QED BY <1>9, <4>1, <4>2
    <3>2. l[5 - j] = 256 + (p + 4 * w) + 4 - (5 - j)
      BY <1>7, <2>2, <3>1
    <3> QED BY <1>1, <1>2, <3>2
  <2>5. ASSUME NEW j \in 1..4 PROVE T[j] = 256 + p + (4 * w + j) - 1
    <3>1. IsTail(kd) /\ w < q => 4 * w + j <= d
      BY <1>1, <1>3
    <3> QED BY <1>5, <1>9, <3>1 DEF BlockByte, d
  <2> QED BY <1>t, <1>6, <2>1, <2>3, <2>4, <2>5
<1>10. CASE ~(HasLength(kd) /\ w >= LEN_AT) /\ IsTail(kd) /\ w = q
  <2>1. M32(kd, n, w, l) = OneAfter(e, l)
    <3>1. kd # "full" /\ kd # "pad" /\ ~(w < q)
      BY <1>3, <1>10 DEF IsTail
    <3> QED BY <1>10, <3>1 DEF M32, q, d, e
  <2>2. y = F
    BY <1>2, <1>10 DEF IsTail
  <2>3. e > 0 => Reads32(kd, n, w)
    <3>1. e > 0 => 4 * w < d
      BY <1>3, <1>10
    <3> QED BY <1>10, <3>1 DEF Reads32, d
  <2>4. OneAfter(e, l) = [j \in 1..4 |-> IF j <= e THEN l[5 - j] ELSE IF j = e + 1 THEN 128 ELSE 0]
    <3>1. e > 0 => IsFour(l)
      BY <1>7, <2>3
    <3>2. e \in 0..3
      BY <1>3
    <3> QED BY <3>1, <3>2, OneBehind, Zenon
  <2>5. ASSUME NEW j \in 1..4
        PROVE  T[j] = IF j <= e THEN l[5 - j] ELSE IF j = e + 1 THEN 128 ELSE 0
    <3>1. CASE j <= e
      <4>1. 4 * w + j <= d /\ 5 - j \in 1..4 /\ p + 4 * w + 4 - (5 - j) < first + n
        BY <1>1, <1>2, <1>3, <1>10, <2>2, <3>1
      <4>2. l[5 - j] = 256 + (p + 4 * w) + 4 - (5 - j)
        <5>1. Reads32(kd, n, w)
          BY <1>3, <2>3, <3>1
        <5> QED BY <1>7, <4>1, <5>1
      <4>3. T[j] = 256 + p + (4 * w + j) - 1
        BY <1>5, <1>10, <4>1 DEF BlockByte, d
      <4>4. l[5 - j] = T[j]
        BY <1>1, <1>2, <4>2, <4>3
      <4> QED BY <3>1, <4>4
    <3>2. CASE j = e + 1
      <4>1. ~(4 * w + j <= d) /\ 4 * w + j = d + 1 /\ ~(j <= e) /\ kd # "full"
        BY <1>3, <1>10, <3>2 DEF IsTail
      <4>2. T[j] = 128
        BY <1>5, <1>10, <4>1 DEF BlockByte, d
      <4> QED BY <3>2, <4>1, <4>2
    <3>3. CASE j > e + 1
      <4>1. /\ ~(4 * w + j <= d) /\ 4 * w + j # d + 1 /\ ~(j <= e) /\ j # e + 1
            /\ kd # "full" /\ kd # "pad"
        BY <1>3, <1>10, <3>3 DEF IsTail
      <4>2. ~(HasLength(kd) /\ 4 * w + j > B - 8)
        BY <1>1, <1>3, <1>10
      <4>3. T[j] = 0
        BY <1>5, <1>10, <4>1, <4>2 DEF BlockByte, d, B
      <4> QED BY <4>1, <4>3
    <3> QED BY <1>3, <3>1, <3>2, <3>3
  <2> QED BY <1>t, <1>6, <2>1, <2>4, <2>5
<1>11. CASE /\ ~(HasLength(kd) /\ w >= LEN_AT) /\ kd = "pad" /\ w = 0
  <2>1. M32(kd, n, w, l) = OneAfter(0, Zero)
    <3>1. ~IsTail(kd) /\ kd # "full"
      BY <1>11 DEF IsTail
    <3> QED BY <1>11, <3>1 DEF M32
  <2>2. OneAfter(0, Zero) = [j \in 1..4 |-> IF j <= 0 THEN Zero[5 - j] ELSE IF j = 0 + 1 THEN 128 ELSE 0]
    BY OneBehind
  <2>3. ASSUME NEW j \in 1..4
        PROVE  T[j] = IF j <= 0 THEN Zero[5 - j] ELSE IF j = 0 + 1 THEN 128 ELSE 0
    <3>1. T[j] = BlockByte(kd, n, p, j)
      BY <1>5, <1>11
    <3>2. ~(j <= 0) /\ ~(j > B - 8) /\ ~IsTail(kd) /\ kd # "full"
      BY <1>1, <1>11 DEF IsTail
    <3> QED BY <1>11, <3>1, <3>2 DEF BlockByte, B
  <2> QED BY <1>t, <1>6, <2>1, <2>2, <2>3
<1>12. CASE /\ ~(HasLength(kd) /\ w >= LEN_AT) /\ ~(kd = "full" \/ (IsTail(kd) /\ w < q))
            /\ ~(IsTail(kd) /\ w = q) /\ ~(kd = "pad" /\ w = 0)
  <2>1. M32(kd, n, w, l) = Zero
    BY <1>12 DEF M32, q, d
  <2>2. ASSUME NEW j \in 1..4 PROVE T[j] = 0
    <3>1. ~(HasLength(kd) /\ 4 * w + j > B - 8) /\ kd # "full"
      BY <1>1, <1>12
    <3>2. ~(IsTail(kd) /\ 4 * w + j <= d) /\ ~(IsTail(kd) /\ 4 * w + j = d + 1)
      BY <1>1, <1>3, <1>12
    <3>3. ~(kd = "pad" /\ 4 * w + j = 1)
      BY <1>1, <1>12
    <3> QED BY <1>5, <3>1, <3>2, <3>3 DEF BlockByte, B, d
  <2>3. Zero = [j \in 1..4 |-> 0]
    BY DEF Zero
  <2> QED BY <1>t, <1>6, <2>1, <2>2, <2>3
<1> QED BY <1>8, <1>9, <1>10, <1>11, <1>12 DEF T

\* The words of the standard are the words made.
LEMMA WordMade ==
    ASSUME NEW n \in Nat, NEW b \in 1..blk_num(n), NEW first \in Nat, NEW w \in 0..BLOCK_WORDS - 1,
           NEW kd, kd = SentBlocks(n)[b], NEW p, p = first + BlockBytes * (b - 1), NEW l,
           Reads32(kd, n, w) => l = FourBytes(p + 4 * w, first + n)
    PROVE  M32(kd, n, w, l) = StdWord(first, n, b, w)
<1>1. M32(kd, n, w, l) = BlockWord(kd, n, p, w)
  BY MadeWord
<1>2. ASSUME NEW j \in 1..4
      PROVE  StdByte(first, n, BlockBytes * (b - 1) + 4 * w + j) = BlockByte(kd, n, p, 4 * w + j)
  <2> DEFINE y == BlockBytes * (b - 1)
  <2>0. Lengths(n) /\ Placed(n, b, kd)
    BY PaddedLength, Places
  <2>1. 4 * w + j \in 1..BlockBytes /\ y \in Nat
    BY <2>0 DEF Lengths, Placed
  <2> HIDE DEF y
  <2>2. y + 4 * w + j = y + (4 * w + j)
    BY <2>1
  <2>3. StdByte(first, n, BlockBytes * (b - 1) + (4 * w + j)) = BlockByte(kd, n, p, 4 * w + j)
    BY <2>1, ByteOfBlock
  <2> QED BY <2>2, <2>3 DEF y
<1> QED BY <1>1, <1>2 DEF StdWord, BlockWord

LEMMA CutByEight ==
    ASSUME NEW d \in Nat
    PROVE  d \div 8 \in Nat /\ d % 8 \in 0..7 /\ d = 8 * (d \div 8) + (d % 8)
OBVIOUS

LEMMA CutByTwo ==
    ASSUME NEW d \in Nat
    PROVE  d \div 2 \in Nat /\ d % 2 \in 0..1 /\ d = 2 * (d \div 2) + (d % 2)
OBVIOUS

\* The rest behind the full blocks, in words of four and of eight bytes.
Halves(d, q, e, o, u) ==
    /\ q \in Nat /\ e \in 0..3 /\ d = 4 * q + e
    /\ o \in Nat /\ u \in 0..7 /\ d = 8 * o + u
    /\ q % 2 = 0 <=> q = 2 * o
    /\ q \in {2 * o, 2 * o + 1}

LEMMA HalvesOf ==
    ASSUME NEW d \in Nat
    PROVE  Halves(d, d \div 4, d % 4, d \div 8, d % 8)
<1> DEFINE q == d \div 4  e == d % 4  o == d \div 8  u == d % 8  s == q \div 2  v == q % 2
<1>1. q \in Nat /\ e \in 0..3 /\ d = 4 * q + e
  BY CutByFour
<1>2. o \in Nat /\ u \in 0..7 /\ d = 8 * o + u
  BY CutByEight
<1>3. s \in Nat /\ v \in 0..1 /\ q = 2 * s + v
  BY <1>1, CutByTwo
<1> HIDE DEF q, e, o, u, s, v
<1>4. s = o
  BY <1>1, <1>2, <1>3
<1>5. (v = 0 <=> q = 2 * o) /\ q \in {2 * o, 2 * o + 1}
  BY <1>3, <1>4
<1> QED BY <1>1, <1>2, <1>5 DEF Halves, q, e, o, u, v

\* The 64-bit version makes the words of the 32-bit version, two at a time.
LEMMA TwoWords ==
    ASSUME NEW n \in Nat, NEW b \in 1..blk_num(n), NEW kd, kd = SentBlocks(n)[b], NEW ll,
           NEW i0 \in Nat, 2 * i0 < BLOCK_WORDS
    PROVE  M64(kd, n, i0, ll) = <<M32(kd, n, 2 * i0, Low(ll)), M32(kd, n, 2 * i0 + 1, High(ll))>>
<1> DEFINE d == left(n)  q == d \div 4  e == d % 4  o == d \div 8  u == d % 8  w == 2 * i0  h == BLOCK_WORDS \div 2
           L == LEN_AT  v == q % 2
<1>0. Lengths(n) /\ Placed(n, b, kd)
  BY PaddedLength, Places
<1>1. /\ L = BLOCK_WORDS - 2 /\ BlockBytes = 4 * BLOCK_WORDS /\ BLOCK_WORDS \in Nat /\ BlockBytes >= 16 /\ d \in Nat
  BY <1>0 DEF Lengths
<1>2. kd \in Kind /\ (kd = "tail_and_len" => d \in 1..BlockBytes - 9) /\ (kd = "pad" => d = 0)
  BY <1>0 DEF Placed
<1>3. Halves(d, q, e, o, u)
  BY <1>1, HalvesOf
<1>4. h \in Nat /\ BLOCK_WORDS = 2 * h
  <2>1. BLOCK_WORDS % 2 = 0
    BY BlockAssumption
  <2> QED BY <1>1, <2>1
<1> HIDE DEF d, q, e, o, u, h, L, v
<1>5. /\ q \in Nat /\ e \in 0..3 /\ d = 4 * q + e /\ o \in Nat
      /\ (v = 0 <=> q = 2 * o) /\ (q = 2 * o \/ q = 2 * o + 1)
  BY <1>3 DEF Halves, v
<1>6. /\ w >= L <=> w = L
      /\ w + 1 >= L <=> w = L
      /\ w \in Nat /\ L \in Nat /\ L >= 2
  BY <1>1, <1>4
<1>7. kd = "tail_and_len" => 2 * o < L /\ q < L /\ 2 * o + 1 < L
  BY <1>1, <1>2, <1>4, <1>5
<1>8. EndsLow(n) <=> q = 2 * o
  BY <1>5 DEF EndsLow, d, q, v
<1> DEFINE ml == M32(kd, n, w, Low(ll))  mh == M32(kd, n, w + 1, High(ll))  mm == M64(kd, n, i0, ll)
<1>9. CASE HasLength(kd) /\ w = L
  <2>1. kd # "full" /\ (IsTail(kd) => kd = "tail_and_len")
    BY <1>9 DEF HasLength, IsTail
  <2>2. /\ ~(IsTail(kd) /\ w < q) /\ ~(IsTail(kd) /\ w = q) /\ ~(kd = "pad" /\ w = 0)
        /\ ~(IsTail(kd) /\ w + 1 < q) /\ ~(IsTail(kd) /\ w + 1 = q) /\ ~(kd = "pad" /\ w + 1 = 0)
        /\ ~(IsTail(kd) /\ i0 < o) /\ ~(IsTail(kd) /\ i0 = o) /\ ~(kd = "pad" /\ i0 = 0)
    BY <1>5, <1>6, <1>7, <1>9, <2>1
  <2>3. ml = LengthWord(n, w)
    BY <1>6, <1>9, <2>1, <2>2 DEF M32, L, q, d
  <2>4. mh = LengthWord(n, w + 1)
    BY <1>6, <1>9, <2>1, <2>2 DEF M32, L, q, d
  <2>5. mm = <<LengthWord(n, w), LengthWord(n, w + 1)>>
    BY <1>9, <2>1, <2>2 DEF M64, L, o, d
  <2> QED BY <2>3, <2>4, <2>5
<1>10. CASE ~(HasLength(kd) /\ w = L) /\ (kd = "full" \/ (IsTail(kd) /\ i0 < o))
  <2>1. /\ kd = "full" \/ (IsTail(kd) /\ w < q)
        /\ kd = "full" \/ (IsTail(kd) /\ w + 1 < q)
        /\ kd # "full" => i0 < o
        /\ kd # "pad"
    BY <1>5, <1>10 DEF IsTail
  <2>2. ~(IsTail(kd) /\ w = q) /\ ~(IsTail(kd) /\ w + 1 = q) /\ ~(IsTail(kd) /\ i0 = o)
    BY <1>5, <2>1 DEF IsTail
  <2>3. ml = BigEndian(Low(ll))
    BY <1>6, <1>10, <2>1, <2>2 DEF M32, L, q, d
  <2>4. mh = BigEndian(High(ll))
    BY <1>6, <1>10, <2>1, <2>2 DEF M32, L, q, d
  <2>5. mm = <<BigEndian(Low(ll)), BigEndian(High(ll))>>
    BY <1>10, <2>1, <2>2 DEF M64, L, o, d
  <2> QED BY <2>3, <2>4, <2>5
<1>11. CASE ~(HasLength(kd) /\ w = L) /\ IsTail(kd) /\ i0 = o
  <2>1. kd # "full" /\ kd # "pad" /\ ~(i0 < o)
    BY <1>5, <1>11 DEF IsTail
  <2>2. CASE q = 2 * o
    <3>1. w = q /\ ~(w < q) /\ ~(w + 1 < q) /\ w + 1 # q
      BY <1>5, <1>11, <2>2
    <3>2. ml = OneAfter(e, Low(ll))
      BY <1>6, <1>11, <2>1, <3>1 DEF M32, L, q, d, e
    <3>3. mh = Zero
      BY <1>6, <1>11, <2>1, <3>1 DEF M32, L, q, d, e
    <3>4. mm = <<OneAfter(e, Low(ll)), Zero>>
      BY <1>8, <1>11, <2>1, <2>2 DEF M64, L, o, d, e
    <3> QED BY <3>2, <3>3, <3>4
  <2>3. CASE q = 2 * o + 1
    <3>1. w < q /\ w # q /\ ~(w + 1 < q) /\ w + 1 = q /\ ~EndsLow(n)
      BY <1>5, <1>8, <1>11, <2>3
    <3>2. ml = BigEndian(Low(ll))
      BY <1>6, <1>11, <2>1, <3>1 DEF M32, L, q, d, e
    <3>3. mh = OneAfter(e, High(ll))
      BY <1>6, <1>11, <2>1, <3>1 DEF M32, L, q, d, e
    <3>4. mm = <<BigEndian(Low(ll)), OneAfter(e, High(ll))>>
      BY <1>11, <2>1, <3>1 DEF M64, L, o, d, e
    <3> QED BY <3>2, <3>3, <3>4
  <2> QED BY <1>5, <2>2, <2>3
<1>12. CASE ~(HasLength(kd) /\ w = L) /\ kd = "pad" /\ i0 = 0
  <2>1. kd # "full" /\ ~IsTail(kd) /\ w = 0 /\ w + 1 # 0
    BY <1>12 DEF IsTail
  <2>2. ml = OneAfter(0, Zero)
    BY <1>6, <1>12, <2>1 DEF M32, L
  <2>3. mh = Zero
    BY <1>6, <1>12, <2>1 DEF M32, L
  <2>4. mm = <<OneAfter(0, Zero), Zero>>
    BY <1>12, <2>1 DEF M64, L
  <2> QED BY <2>2, <2>3, <2>4
<1>13. CASE /\ ~(HasLength(kd) /\ w = L) /\ ~(kd = "full" \/ (IsTail(kd) /\ i0 < o))
            /\ ~(IsTail(kd) /\ i0 = o) /\ ~(kd = "pad" /\ i0 = 0)
  <2>1. kd # "full" /\ ~(IsTail(kd) /\ w < q) /\ ~(IsTail(kd) /\ w + 1 < q)
        /\ ~(IsTail(kd) /\ w = q) /\ ~(IsTail(kd) /\ w + 1 = q)
    BY <1>5, <1>13
  <2>2. ~(kd = "pad" /\ w = 0) /\ ~(kd = "pad" /\ w + 1 = 0)
    BY <1>6, <1>13
  <2>3. ml = Zero
    BY <1>6, <1>13, <2>1, <2>2 DEF M32, L, q, d
  <2>4. mh = Zero
    BY <1>6, <1>13, <2>1, <2>2 DEF M32, L, q, d
  <2>5. mm = <<Zero, Zero>>
    BY <1>13 DEF M64, L, o, d
  <2> QED BY <2>3, <2>4, <2>5
<1> QED BY <1>9, <1>10, <1>11, <1>12, <1>13

\* What is read, and when.
LEMMA ReadsOne ==
    ASSUME NEW n \in Nat, NEW b \in 1..blk_num(n), NEW kd, kd = SentBlocks(n)[b], NEW w \in 0..BLOCK_WORDS - 1
    PROVE  Reads32(kd, n, w) <=> BlockBytes * (b - 1) + 4 * w < n
<1> DEFINE d == left(n)  F == FullBytes(n)  y == BlockBytes * (b - 1)
<1>0. Lengths(n) /\ Placed(n, b, kd)
  BY PaddedLength, Places
<1>1. /\ BlockBytes = 4 * BLOCK_WORDS /\ BLOCK_WORDS \in Nat /\ d \in 0..BlockBytes - 1 /\ F \in Nat /\ n = F + d
  BY <1>0 DEF Lengths
<1>2. /\ kd \in Kind /\ y \in Nat
      /\ kd = "full" => y + BlockBytes <= n
      /\ kd \in {"pad", "tail", "tail_and_len"} => y = F
      /\ kd = "len" => y = F + BlockBytes
      /\ kd = "pad" => d = 0
  BY <1>0 DEF Placed
<1> HIDE DEF d, F, y
<1>3. CASE kd = "full"
  <2>1. y + 4 * w < n
    BY <1>1, <1>2, <1>3
  <2> QED BY <1>3, <2>1 DEF Reads32, y
<1>4. CASE IsTail(kd)
  <2>1. y = F /\ kd # "full"
    BY <1>2, <1>4 DEF IsTail
  <2>2. y + 4 * w < n <=> 4 * w < d
    BY <1>1, <2>1
  <2> QED BY <1>4, <2>1, <2>2 DEF Reads32, y, d
<1>5. CASE kd \in {"pad", "len"}
  <2>1. ~(y + 4 * w < n)
    <3>1. CASE kd = "pad"
      BY <1>1, <1>2, <3>1
    <3>2. CASE kd = "len"
      BY <1>1, <1>2, <3>2
    <3> QED BY <1>5, <3>1, <3>2
  <2>2. ~IsTail(kd) /\ kd # "full"
    BY <1>5 DEF IsTail
  <2> QED BY <2>1, <2>2 DEF Reads32, y
<1> QED BY <1>2, <1>3, <1>4, <1>5 DEF Kind, IsTail

LEMMA ReadsTwo ==
    ASSUME NEW n \in Nat, NEW b \in 1..blk_num(n), NEW kd, kd = SentBlocks(n)[b], NEW i0 \in Nat, 2 * i0 < BLOCK_WORDS
    PROVE  Reads64(kd, n, i0) <=> Reads32(kd, n, 2 * i0)
<1> DEFINE d == left(n)  o == d \div 8  u == d % 8
<1>1. d \in Nat
  <2>1. Lengths(n)
    BY PaddedLength
  <2> QED BY <2>1 DEF Lengths
<1>2. o \in Nat /\ u \in 0..7 /\ d = 8 * o + u
  BY <1>1, CutByEight
<1> HIDE DEF d, o, u
<1>3. 4 * (2 * i0) < d <=> (i0 < o \/ (i0 = o /\ u # 0))
  BY <1>1, <1>2
<1> QED BY <1>3 DEF Reads64, Reads32, d, o, u

-----------------------------------------------------------------------------
(* Sums that grow, and the place of a number in them *)

\* The sums up to the first n counts, the first of which is 0.
Growing(c, n) ==
    /\ \A m \in 1..n + 1 : Before(c, m) \in Nat
    /\ \A m \in 1..n : Before(c, m + 1) = Before(c, m) + c[m] /\ c[m] \in Nat
    /\ \A m \in 1..n + 1 : \A k \in 1..m : Before(c, k) <= Before(c, m)
    /\ Before(c, 1) = 0

LEMMA SumsGrow ==
    ASSUME NEW n \in Nat, NEW c, \A m \in 1..n : c[m] \in Nat
    PROVE  Growing(c, n)
<1> DEFINE B(m) == Before(c, m)
           S == {m \in Nat : m <= n => \A k \in 1..m + 1 : B(k) \in Nat /\ B(k) <= B(m + 1)}
<1>1. B(1) = 0
  BY BeforeNext
<1>2. \A m \in 1..n : B(m + 1) = B(m) + c[m]
  <2>1. \A m \in 1..n : m \in Nat \ {0}
    OBVIOUS
  <2> QED BY <2>1, BeforeNext
<1> HIDE DEF B
<1>3. 0 \in S
  <2>1. \A k \in 1..0 + 1 : k = 1
    OBVIOUS
  <2> QED BY <1>1, <2>1
<1>4. ASSUME NEW m \in Nat, m \in S PROVE m + 1 \in S
  <2> SUFFICES ASSUME m + 1 <= n, NEW k \in 1..(m + 1) + 1
               PROVE  B(k) \in Nat /\ B(k) <= B((m + 1) + 1)
    OBVIOUS
  <2> DEFINE j == m + 1
  <2>1. \A i0 \in 1..j : B(i0) \in Nat /\ B(i0) <= B(j)
    BY <1>4
  <2>2. j \in 1..n /\ j \in 1..j
    OBVIOUS
  <2> HIDE DEF j
  <2>3. B(j + 1) = B(j) + c[j] /\ c[j] \in Nat /\ B(j) \in Nat
    BY <1>2, <2>1, <2>2
  <2>4. CASE k \in 1..j
    <3>1. B(k) \in Nat /\ B(k) <= B(j)
      BY <2>1, <2>4
    <3>2. B(k) <= B(j + 1)
      BY <2>3, <3>1
    <3> QED BY <3>1, <3>2 DEF j
  <2>5. CASE k = j + 1
    <3>1. B(j + 1) \in Nat
      BY <2>3
    <3> QED BY <2>5, <3>1 DEF j
  <2> QED BY <2>4, <2>5 DEF j
<1> HIDE DEF S
<1>5. Nat \subseteq S
  BY <1>3, <1>4, SetInduction
<1>6. ASSUME NEW m \in 1..n + 1, NEW k \in 1..m PROVE B(k) \in Nat /\ B(k) <= B(m)
  <2>1. m - 1 \in S /\ m - 1 <= n /\ (m - 1) + 1 = m
    BY <1>5
  <2> QED BY <2>1 DEF S
<1>7. \A m \in 1..n + 1 : B(m) \in Nat
  <2>1. \A m \in 1..n + 1 : m \in 1..m
    OBVIOUS
  <2> QED BY <1>6, <2>1
<1> QED BY <1>1, <1>2, <1>6, <1>7 DEF Growing, B

\* A sum that another one does not reach comes later.
LEMMA SumsOrder ==
    ASSUME NEW n \in Nat, NEW c, Growing(c, n), NEW m \in 1..n, NEW k \in 1..n + 1,
           Before(c, m) < Before(c, k)
    PROVE  m < k
<1>1. CASE k <= m
  <2>1. m \in 1..n + 1 /\ k \in 1..m
    BY <1>1
  <2>2. Before(c, k) <= Before(c, m) /\ Before(c, k) \in Nat /\ Before(c, m) \in Nat
    BY <2>1 DEF Growing
  <2> QED BY <2>2
<1> QED BY <1>1

\* The counts a number falls into are found from it.
PlaceOf(c, n, p) == CHOOSE m \in 1..n : Before(c, m) <= p /\ p < Before(c, m + 1)

LEMMA PlaceFound ==
    ASSUME NEW n \in Nat, NEW c, Growing(c, n), NEW m \in 1..n, NEW p \in Nat,
           Before(c, m) <= p, p < Before(c, m + 1)
    PROVE  PlaceOf(c, n, p) = m
<1> DEFINE x == PlaceOf(c, n, p)
<1>1. x \in 1..n /\ Before(c, x) <= p /\ p < Before(c, x + 1)
  BY DEF PlaceOf
<1> HIDE DEF x
<1>2. x + 1 \in 1..n + 1 /\ m + 1 \in 1..n + 1 /\ x \in 1..n + 1 /\ m \in 1..n + 1
  BY <1>1
<1>3. /\ Before(c, x) \in Nat /\ Before(c, m) \in Nat
      /\ Before(c, x + 1) \in Nat /\ Before(c, m + 1) \in Nat
  BY <1>2 DEF Growing
<1>4. x < m + 1
  <2>1. Before(c, x) < Before(c, m + 1)
    BY <1>1, <1>3
  <2> QED BY <1>1, <1>2, <2>1, SumsOrder
<1>5. m < x + 1
  <2>1. Before(c, m) < Before(c, x + 1)
    BY <1>1, <1>3
  <2> QED BY <1>2, <2>1, SumsOrder
<1>6. x = m
  BY <1>1, <1>4, <1>5
<1> QED BY <1>6 DEF x

-----------------------------------------------------------------------------
(* FIFOs *)

\* A FIFO to which w items of the stream S were written, and r read.
Window(f, S, r, w) == r \in Nat /\ w \in Nat /\ r <= w /\ f = [k \in 1..w - r |-> S[r + k]]

LEMMA WindowLength ==
    ASSUME NEW f, NEW S, NEW r, NEW w, Window(f, S, r, w)
    PROVE  /\ r \in Nat /\ w \in Nat /\ r <= w
           /\ Len(f) = w - r /\ (f = <<>> <=> r = w)
           /\ \A k \in 1..w - r : f[k] = S[r + k]
<1>1. r \in Nat /\ w \in Nat /\ r <= w /\ f = [k \in 1..w - r |-> S[r + k]]
  BY DEF Window
<1>2. Len(f) = w - r
  BY <1>1
<1>3. f = <<>> <=> r = w
  <2>1. CASE r = w
    <3>1. 1..w - r = {}
      BY <1>1, <2>1
    <3> QED BY <1>1, <2>1, <3>1
  <2>2. CASE r # w
    BY <1>1, <1>2, <2>2
  <2> QED BY <2>1, <2>2
<1> QED BY <1>1, <1>2, <1>3

LEMMA WindowWrite ==
    ASSUME NEW f, NEW S, NEW r, NEW w, Window(f, S, r, w), NEW x, x = S[w + 1]
    PROVE  Window(Append(f, x), S, r, w + 1)
<1> DEFINE T == {S[r + k] : k \in Nat}  g == Append(f, x)
<1>1. r \in Nat /\ w \in Nat /\ r <= w /\ f = [k \in 1..w - r |-> S[r + k]] /\ w - r \in Nat
  BY DEF Window
<1>2. f \in Seq(T) /\ Len(f) = w - r /\ \A k \in 1..w - r : f[k] = S[r + k]
  <2>1. \A k \in 1..w - r : S[r + k] \in T
    <3>1. \A k \in 1..w - r : k \in Nat
      BY <1>1
    <3> QED BY <3>1, Zenon
  <2> HIDE DEF T
  <2>2. \A k \in 1..w - r : f[k] = S[r + k]
    BY <1>1
  <2> DEFINE n == w - r
  <2>3. n \in Nat /\ f \in [1..n -> T]
    BY <1>1, <2>1
  <2> HIDE DEF n
  <2>4. f \in Seq(T) /\ Len(f) = n
    BY <2>3
  <2> QED BY <2>2, <2>4 DEF n
<1>3. x \in T
  <2>1. w - r + 1 \in Nat /\ r + (w - r + 1) = w + 1
    BY <1>1
  <2> QED BY <2>1
<1> HIDE DEF T
<1>4. g \in Seq(T) /\ Len(g) = (w - r) + 1 /\ g[(w - r) + 1] = x /\ \A k \in 1..w - r : g[k] = f[k]
  BY <1>2, <1>3, AppendProperties
<1> HIDE DEF g
<1>5. g = [k \in 1..(w - r) + 1 |-> g[k]]
  BY <1>4
<1>6. ASSUME NEW k \in 1..(w - r) + 1 PROVE g[k] = S[r + k]
  <2>1. CASE k \in 1..w - r
    BY <1>2, <1>4, <2>1
  <2>2. CASE k = (w - r) + 1
    <3>1. r + k = w + 1
      BY <1>1, <2>2
    <3> QED BY <1>4, <2>2, <3>1
  <2> QED BY <1>1, <2>1, <2>2
<1>7. (w - r) + 1 = (w + 1) - r
  BY <1>1
<1>8. g = [k \in 1..(w + 1) - r |-> S[r + k]]
  BY <1>5, <1>6, <1>7
<1> QED BY <1>1, <1>8 DEF Window, g

LEMMA WindowRead ==
    ASSUME NEW f, NEW S, NEW r, NEW w, Window(f, S, r, w), f # <<>>
    PROVE  r < w /\ Head(f) = S[r + 1] /\ Window(Tail(f), S, r + 1, w)
<1> DEFINE T == {S[r + k] : k \in Nat}  g == Tail(f)
<1>1. r \in Nat /\ w \in Nat /\ r <= w /\ f = [k \in 1..w - r |-> S[r + k]] /\ w - r \in Nat
  BY DEF Window
<1>2. r < w
  BY <1>1, WindowLength
<1>3. f \in Seq(T) /\ Len(f) = w - r /\ \A k \in 1..w - r : f[k] = S[r + k]
  <2>1. \A k \in 1..w - r : S[r + k] \in T
    <3>1. \A k \in 1..w - r : k \in Nat
      BY <1>1
    <3> QED BY <3>1, Zenon
  <2> HIDE DEF T
  <2>2. \A k \in 1..w - r : f[k] = S[r + k]
    BY <1>1
  <2> DEFINE n == w - r
  <2>3. n \in Nat /\ f \in [1..n -> T]
    BY <1>1, <2>1
  <2> HIDE DEF n
  <2>4. f \in Seq(T) /\ Len(f) = n
    BY <2>3
  <2> QED BY <2>2, <2>4 DEF n
<1> HIDE DEF T
<1>4. g \in Seq(T) /\ Len(g) = (w - r) - 1 /\ (\A k \in 1..(w - r) - 1 : g[k] = f[k + 1]) /\ Head(f) = f[1]
  BY <1>3, HeadTailProperties
<1> HIDE DEF g
<1>5. g = [k \in 1..(w - r) - 1 |-> g[k]]
  BY <1>4
<1>6. ASSUME NEW k \in 1..(w - r) - 1 PROVE g[k] = S[(r + 1) + k]
  <2>1. k + 1 \in 1..w - r /\ r + (k + 1) = (r + 1) + k
    BY <1>1
  <2> QED BY <1>3, <1>4, <2>1
<1>7. (w - r) - 1 = w - (r + 1)
  BY <1>1
<1>8. g = [k \in 1..w - (r + 1) |-> S[(r + 1) + k]]
  BY <1>5, <1>6, <1>7
<1>9. Head(f) = S[r + 1]
  BY <1>1, <1>2, <1>3, <1>4
<1> QED BY <1>1, <1>2, <1>8, <1>9 DEF Window, g

LEMMA WindowEmpty ==
    ASSUME NEW S, NEW r \in Nat
    PROVE  Window(<<>>, S, r, r)
<1>1. 1..r - r = {}
  OBVIOUS
<1>2. <<>> = [k \in 1..r - r |-> S[r + k]]
  BY <1>1
<1> QED BY <1>2 DEF Window

-----------------------------------------------------------------------------
(* Sequences put together of pieces of one length *)

\* Item k of pieces of R items each, and the first n pieces put together.
ItemAt(s, R, k) == s[((k - 1) \div R) + 1][((k - 1) % R) + 1]
Together(s, R, n) == [k \in 1..R * n |-> ItemAt(s, R, k)]
Pieces(s, R, n) == s = [m \in 1..n |-> s[m]] /\ \A m \in 1..n : s[m] = [k \in 1..R |-> s[m][k]]

LEMMA ItemOfPiece ==
    ASSUME NEW s, NEW R \in Nat \ {0}, NEW m \in Nat, NEW j \in 1..R
    PROVE  R * m + j \in Nat /\ ItemAt(s, R, R * m + j) = s[m + 1][j]
<1> DEFINE y == R * m  k == y + j
<1>1. y \in Nat
  BY SMT
<1>2. j - 1 \in 0..R - 1 /\ (j - 1) + 1 = j
  OBVIOUS
<1>3. (y + (j - 1)) \div R = m /\ (y + (j - 1)) % R = j - 1
  BY <1>2, DivUnique
<1> HIDE DEF y
<1>4. k - 1 = y + (j - 1) /\ k \in Nat
  BY <1>1
<1>5. ItemAt(s, R, k) = s[m + 1][j]
  <2>1. ((k - 1) \div R) + 1 = m + 1 /\ ((k - 1) % R) + 1 = j
    BY <1>2, <1>3, <1>4
  <2> HIDE DEF k
  <2> QED BY <2>1 DEF ItemAt
<1> QED BY <1>4, <1>5 DEF y

\* A number that is not more than R times n is in one of n pieces.
LEMMA PieceOf ==
    ASSUME NEW R \in Nat \ {0}, NEW n \in Nat, NEW k \in 1..R * n
    PROVE  \E m \in 0..n - 1, j \in 1..R : k = R * m + j
<1> DEFINE m == (k - 1) \div R  j == ((k - 1) % R) + 1
<1>0. R * n \in Nat
  BY SMT
<1>1. k \in Nat /\ k - 1 \in Nat /\ k <= R * n
  BY <1>0
<1>2. m \in Nat /\ j \in 1..R /\ k - 1 = R * m + (j - 1)
  <2>1. (k - 1) \div R \in Nat /\ (k - 1) % R \in 0..R - 1 /\ k - 1 = R * ((k - 1) \div R) + ((k - 1) % R)
    <3> DEFINE x == k - 1
    <3>1. x \in Nat
      BY <1>1
    <3> HIDE DEF x
    <3>2. x \div R \in Nat /\ x % R \in 0..R - 1 /\ x = R * (x \div R) + (x % R)
      BY <3>1
    <3> QED BY <3>2 DEF x
  <2> QED BY <2>1
<1> HIDE DEF m, j
<1>3. R * m \in Nat /\ R * n \in Nat
  BY <1>2, SMT
<1>4. k = R * m + j
  BY <1>1, <1>2, <1>3
<1>5. CASE m >= n
  <2>1. R * m >= R * n
    BY <1>2, <1>5, SMT
  <2> QED BY <1>1, <1>2, <1>3, <1>4, <2>1
<1>6. CASE m < n
  <2>1. m \in 0..n - 1
    BY <1>2, <1>6
  <2> QED BY <1>2, <1>4, <2>1
<1> QED BY <1>2, <1>5, <1>6

LEMMA OnePiece ==
    ASSUME NEW R \in Nat \ {0}, NEW n \in Nat \ {0}, NEW s, Pieces(s, R, n)
    PROVE  Together(s, R, 1) = s[1]
<1>1. \A k \in 1..R : ItemAt(s, R, k) = s[1][k]
  <2>1. ASSUME NEW k \in 1..R PROVE ItemAt(s, R, k) = s[1][k]
    <3>1. ItemAt(s, R, R * 0 + k) = s[0 + 1][k]
      BY ItemOfPiece
    <3> QED BY <3>1
  <2> QED BY <2>1
<1>2. s[1] = [k \in 1..R |-> s[1][k]]
  <2>1. 1 \in 1..n
    OBVIOUS
  <2> QED BY <2>1, Zenon DEF Pieces
<1>3. R * 1 = R
  OBVIOUS
<1> QED BY <1>1, <1>2, <1>3 DEF Together

LEMMA NextPiece ==
    ASSUME NEW R \in Nat \ {0}, NEW n \in Nat, NEW s, Pieces(s, R, n), NEW m \in Nat \ {0}, m < n
    PROVE  Together(s, R, m + 1) = Together(s, R, m) \o s[m + 1]
<1> DEFINE a == Together(s, R, m)  b == s[m + 1]  c == a \o b  y == R * m  z == R * (m + 1)
           V == {a[k] : k \in 1..y} \cup {b[k] : k \in 1..R}
<1>1. y \in Nat /\ z = y + R /\ z \in Nat
  BY SMT
<1>2. a = [k \in 1..y |-> ItemAt(s, R, k)]
  BY DEF Together
<1>3. b = [k \in 1..R |-> b[k]]
  <2>1. m + 1 \in 1..n
    OBVIOUS
  <2> QED BY <2>1, Zenon DEF Pieces
<1>4. ASSUME NEW k \in 1..R PROVE ItemAt(s, R, y + k) = b[k]
  BY ItemOfPiece
<1>5. Together(s, R, m + 1) = [k \in 1..z |-> ItemAt(s, R, k)]
  BY DEF Together
<1> HIDE DEF a, b, y, z
<1>6. a \in Seq(V) /\ y = Len(a) /\ \A k \in 1..y : a[k] = ItemAt(s, R, k)
  <2>1. \A k \in 1..y : a[k] \in V /\ a[k] = ItemAt(s, R, k)
    BY <1>2
  <2> HIDE DEF V
  <2>2. a \in [1..y -> V]
    BY <1>2, <2>1
  <2> QED BY <1>1, <2>1, <2>2
<1>7. b \in Seq(V) /\ R = Len(b)
  <2>1. \A k \in 1..R : b[k] \in V
    OBVIOUS
  <2> HIDE DEF V
  <2>2. b \in [1..R -> V]
    BY <1>3, <2>1
  <2> QED BY <2>2
<1> HIDE DEF V
<1>8. Joined(V, c, a, b, y, R)
  <2>1. R \in Nat
    OBVIOUS
  <2> QED BY <1>1, <1>6, <1>7, <2>1, Concat
<1> HIDE DEF c
<1>9. c \in Seq(V) /\ Len(c) = z /\ \A k \in 1..z : c[k] = IF k <= y THEN a[k] ELSE b[k - y]
  BY <1>1, <1>8 DEF Joined
<1>10. ASSUME NEW k \in 1..z PROVE c[k] = ItemAt(s, R, k)
  <2>1. CASE k <= y
    <3>1. k \in 1..y
      BY <1>1, <2>1
    <3> QED BY <1>6, <1>9, <2>1, <3>1
  <2>2. CASE ~(k <= y)
    <3>1. k - y \in 1..R /\ y + (k - y) = k
      BY <1>1, <2>2
    <3> QED BY <1>4, <1>9, <2>2, <3>1
  <2> QED BY <2>1, <2>2
<1>11. c = [k \in 1..z |-> c[k]]
  BY <1>1, <1>9
<1> QED BY <1>5, <1>10, <1>11 DEF c, a, b

\* What FlattenSeq makes of pieces of one length.
IsFlattening(s, n, f) == f = [m \in 1..n |-> IF m = 1 THEN s[m] ELSE f[m - 1] \o s[m]]

LEMMA Flattened ==
    ASSUME NEW R \in Nat \ {0}, NEW n \in Nat \ {0}, NEW s, Pieces(s, R, n)
    PROVE  FlattenSeq(s) = Together(s, R, n)
<1> DEFINE g == [m \in 1..n |-> Together(s, R, m)]
           f == CHOOSE flatten : flatten = [m \in 1..n |-> IF m = 1 THEN s[m] ELSE flatten[m - 1] \o s[m]]
           S == {m \in Nat : m \in 1..n => f[m] = Together(s, R, m)}
<1>1. IsFlattening(s, n, g)
  <2>1. ASSUME NEW m \in 1..n PROVE g[m] = IF m = 1 THEN s[m] ELSE g[m - 1] \o s[m]
    <3>1. CASE m = 1
      BY <3>1, OnePiece
    <3>2. CASE m # 1
      <4>1. m - 1 \in Nat \ {0} /\ m - 1 < n /\ (m - 1) + 1 = m /\ m - 1 \in 1..n
        BY <3>2
      <4> DEFINE q == m - 1
      <4>2. Together(s, R, q + 1) = Together(s, R, q) \o s[q + 1]
        <5>1. q \in Nat \ {0} /\ q < n
          BY <4>1
        <5> HIDE DEF q
        <5> QED BY <5>1, NextPiece
      <4> QED BY <3>2, <4>1, <4>2
    <3> QED BY <3>1, <3>2
  <2>2. g = [m \in 1..n |-> g[m]]
    OBVIOUS
  <2> HIDE DEF g
  <2>3. g = [m \in 1..n |-> IF m = 1 THEN s[m] ELSE g[m - 1] \o s[m]]
    BY <2>1, <2>2
  <2> QED BY <2>3 DEF IsFlattening
<1> HIDE DEF g
<1>2. IsFlattening(s, n, f)
  BY <1>1, Zenon DEF IsFlattening
<1>3. Len(s) = n
  BY DEF Pieces
<1>4. FlattenSeq(s) = f[n]
  BY <1>3 DEF FlattenSeq
<1> HIDE DEF f
<1>5. \A m \in 1..n : f[m] = IF m = 1 THEN s[m] ELSE f[m - 1] \o s[m]
  BY <1>2 DEF IsFlattening
<1>6. 0 \in S
  OBVIOUS
<1>7. ASSUME NEW m \in Nat, m \in S PROVE m + 1 \in S
  <2> SUFFICES ASSUME m + 1 \in 1..n PROVE f[m + 1] = Together(s, R, m + 1)
    OBVIOUS
  <2>1. CASE m = 0
    <3>1. f[1] = s[1]
      BY <1>5
    <3> QED BY <2>1, <3>1, OnePiece
  <2>2. CASE m # 0
    <3>1. m \in 1..n /\ m \in Nat \ {0} /\ m < n /\ (m + 1) - 1 = m /\ m + 1 # 1
      BY <2>2
    <3>2. f[m + 1] = f[m] \o s[m + 1]
      BY <1>5, <3>1
    <3>3. f[m] = Together(s, R, m)
      BY <1>7, <3>1
    <3>4. Together(s, R, m + 1) = Together(s, R, m) \o s[m + 1]
      BY <3>1, NextPiece
    <3> QED BY <3>2, <3>3, <3>4
  <2> QED BY <2>1, <2>2
<1> HIDE DEF S
<1>8. Nat \subseteq S
  BY <1>6, <1>7, SetInduction
<1>9. n \in S
  BY <1>8
<1> QED BY <1>4, <1>9 DEF S

-----------------------------------------------------------------------------
(* The words of the message stream *)

\* The words a message of n bytes takes, the word the first byte of message m
\* is in, and the number of that byte; ls are the lengths of the messages, mw
\* the bits of a word.
WordsIn(mw, n) == (n + (mw \div 8) - 1) \div (mw \div 8)
WordCounts(ls, mw) == [k \in DOMAIN ls |-> WordsIn(mw, ls[k])]
WordAt(ls, mw, m) == Before(WordCounts(ls, mw), m)
ByteAt(ls, mw, m) == (mw \div 8) * WordAt(ls, mw, m)

\* What a call is for.
IsCall(ls, mw) == ls \in Seq(Nat) /\ mw \in {32, 64}

LEMMA WordsOfLength ==
    ASSUME NEW n \in Nat, NEW mw \in {32, 64}
    PROVE  WordsIn(mw, n) \in Nat /\ \A x \in Nat : (mw \div 8) * x < n <=> x < WordsIn(mw, n)
<1>1. CASE mw = 32
  <2>1. mw \div 8 = 4
    BY <1>1
  <2>2. (n + 4 - 1) \div 4 \in Nat /\ \A x \in Nat : 4 * x < n <=> x < (n + 4 - 1) \div 4
    OBVIOUS
  <2> QED BY <2>1, <2>2 DEF WordsIn
<1>2. CASE mw = 64
  <2>1. mw \div 8 = 8
    BY <1>2
  <2>2. (n + 8 - 1) \div 8 \in Nat /\ \A x \in Nat : 8 * x < n <=> x < (n + 8 - 1) \div 8
    OBVIOUS
  <2> QED BY <2>1, <2>2 DEF WordsIn
<1> QED BY <1>1, <1>2

LEMMA WordsGrow ==
    ASSUME NEW ls, NEW mw, IsCall(ls, mw)
    PROVE  /\ Growing(WordCounts(ls, mw), Len(ls)) /\ Len(ls) \in Nat
           /\ \A m \in 1..Len(ls) : /\ ls[m] \in Nat /\ WordCounts(ls, mw)[m] = WordsIn(mw, ls[m])
                                    /\ WordAt(ls, mw, m) \in Nat /\ ByteAt(ls, mw, m) \in Nat
<1>1. Len(ls) \in Nat /\ DOMAIN ls = 1..Len(ls) /\ \A m \in 1..Len(ls) : ls[m] \in Nat
  BY DEF IsCall
<1>2. \A m \in 1..Len(ls) : WordCounts(ls, mw)[m] = WordsIn(mw, ls[m]) /\ WordsIn(mw, ls[m]) \in Nat
  BY <1>1, WordsOfLength DEF WordCounts, IsCall
<1>3. Growing(WordCounts(ls, mw), Len(ls))
  BY <1>1, <1>2, SumsGrow
<1>4. ASSUME NEW m \in 1..Len(ls) PROVE WordAt(ls, mw, m) \in Nat /\ ByteAt(ls, mw, m) \in Nat
  <2>1. m \in 1..Len(ls) + 1
    BY <1>1
  <2>2. WordAt(ls, mw, m) \in Nat
    BY <1>3, <2>1 DEF Growing, WordAt
  <2>3. mw \div 8 \in Nat
    BY DEF IsCall
  <2> HIDE DEF WordAt
  <2> QED BY <2>2, <2>3, SMT DEF ByteAt
<1> QED BY <1>1, <1>2, <1>3, <1>4

\* Word x of message m is made of the bytes of that message: bytes f + c * x on,
\* the last one first, as far as they are before e.
MadeOf(s, c, f, x, e) ==
    s = [k \in 1..c |-> IF f + c * (x + 1) - k < e THEN 256 + (f + c * (x + 1) - k) ELSE Junk]

LEMMA WordOfMessage ==
    ASSUME IsCall(lens, msgW), NEW m \in 1..Len(lens), NEW x \in Nat, x < WordsIn(msgW, lens[m])
    PROVE  MadeOf(StreamWord(WordAt(lens, msgW, m) + x), msgW \div 8, ByteAt(lens, msgW, m), x,
                  ByteAt(lens, msgW, m) + lens[m])
<1> DEFINE y == WordAt(lens, msgW, m)  p == y + x  n == lens[m]  f == ByteAt(lens, msgW, m)  c == msgW \div 8
<1>0. /\ Growing(WordCounts(lens, msgW), Len(lens)) /\ Len(lens) \in Nat /\ DOMAIN lens = 1..Len(lens)
      /\ y \in Nat /\ f \in Nat /\ n \in Nat /\ WordCounts(lens, msgW)[m] = WordsIn(msgW, n) /\ WordsIn(msgW, n) \in Nat
  <2>1. /\ Growing(WordCounts(lens, msgW), Len(lens)) /\ Len(lens) \in Nat
        /\ y \in Nat /\ f \in Nat /\ n \in Nat /\ WordCounts(lens, msgW)[m] = WordsIn(msgW, n)
    BY WordsGrow
  <2>2. msgW \in {32, 64} /\ DOMAIN lens = 1..Len(lens)
    BY DEF IsCall
  <2> HIDE DEF y, f, n
  <2>3. WordsIn(msgW, n) \in Nat
    BY <2>1, <2>2, WordsOfLength
  <2> QED BY <2>1, <2>2, <2>3
<1>1. \A k : FirstWord(k) = WordAt(lens, msgW, k)
  BY DEF FirstWord, WordAt, WordCounts, WordsOf, WordBytes, WordsIn
<1>2. WordAt(lens, msgW, m + 1) = y + WordsIn(msgW, n)
  BY <1>0 DEF Growing, WordAt
<1>3. PlaceOf(WordCounts(lens, msgW), Len(lens), p) = m
  <2>1. p \in Nat /\ Before(WordCounts(lens, msgW), m) <= p /\ p < Before(WordCounts(lens, msgW), m + 1)
    BY <1>0, <1>2 DEF WordAt
  <2> HIDE DEF p
  <2> QED BY <1>0, <2>1, PlaceFound
<1>4. MessageAt(p) = m
  BY <1>0, <1>1, <1>3 DEF MessageAt, PlaceOf, WordAt
<1>5. c * (p + 1) = f + c * (x + 1) /\ f = c * y /\ c \in {4, 8}
  <2>1. c \in {4, 8}
    BY DEF IsCall
  <2>2. f = c * y
    BY DEF ByteAt
  <2> HIDE DEF y, f, c
  <2> QED BY <1>0, <2>1, <2>2
<1>6. StreamWord(p) = [k \in 1..c |-> IF c * (p + 1) - k < c * FirstWord(m) + n
                                      THEN 256 + c * (p + 1) - k ELSE Junk]
  BY <1>4 DEF StreamWord, WordBytes
<1>7. c * FirstWord(m) = f
  BY <1>1, <1>5
<1> HIDE DEF y, p, n, f, c
<1>8. \A k \in 1..c : 256 + c * (p + 1) - k = 256 + (f + c * (x + 1) - k) /\ c * (p + 1) - k = f + c * (x + 1) - k
  <2>1. c * (p + 1) \in Int /\ f \in Int /\ c * (x + 1) \in Int /\ c * (p + 1) = f + c * (x + 1) /\ c \in Nat
    BY <1>0, <1>5
  <2>2. \A u, v, z \in Int : u = z + v => \A k \in 1..c : 256 + u - k = 256 + (z + v - k) /\ u - k = z + v - k
    BY <2>1
  <2> QED BY <2>1, <2>2
<1>9. StreamWord(p) = [k \in 1..c |-> IF f + c * (x + 1) - k < f + n THEN 256 + (f + c * (x + 1) - k) ELSE Junk]
  BY <1>6, <1>7, <1>8
<1> QED BY <1>9 DEF p, y, n, f, c, MadeOf

\* A narrow word is four bytes of the message, a wide one four and the next four.
LEMMA NarrowWord ==
    ASSUME IsCall(lens, msgW), msgW = 32, NEW m \in 1..Len(lens), NEW x \in Nat, x < WordsIn(msgW, lens[m])
    PROVE  StreamWord(WordAt(lens, msgW, m) + x)
           = FourBytes(ByteAt(lens, msgW, m) + 4 * x, ByteAt(lens, msgW, m) + lens[m])
<1> DEFINE f == ByteAt(lens, msgW, m)  n == lens[m]  s == StreamWord(WordAt(lens, msgW, m) + x)
<1>0. f \in Nat /\ n \in Nat /\ msgW \div 8 = 4
  BY WordsGrow
<1>z. MadeOf(s, msgW \div 8, f, x, f + n)
  BY WordOfMessage
<1> HIDE DEF f, n, s
<1>1. s = [k \in 1..4 |-> IF f + 4 * (x + 1) - k < f + n THEN 256 + (f + 4 * (x + 1) - k) ELSE Junk]
  BY <1>0, <1>z DEF MadeOf
<1>2. \A k \in 1..4 : f + 4 * (x + 1) - k = (f + 4 * x) + 4 - k /\ 256 + (f + 4 * (x + 1) - k) = 256 + (f + 4 * x) + 4 - k
  BY <1>0
<1>3. s = FourBytes(f + 4 * x, f + n)
  BY <1>1, <1>2 DEF FourBytes
<1> QED BY <1>3 DEF f, n, s

LEMMA WideWord ==
    ASSUME IsCall(lens, msgW), msgW = 64, NEW m \in 1..Len(lens), NEW x \in Nat, x < WordsIn(msgW, lens[m])
    PROVE  /\ Low(StreamWord(WordAt(lens, msgW, m) + x))
              = FourBytes(ByteAt(lens, msgW, m) + 8 * x, ByteAt(lens, msgW, m) + lens[m])
           /\ High(StreamWord(WordAt(lens, msgW, m) + x))
              = FourBytes(ByteAt(lens, msgW, m) + 8 * x + 4, ByteAt(lens, msgW, m) + lens[m])
<1> DEFINE f == ByteAt(lens, msgW, m)  n == lens[m]  s == StreamWord(WordAt(lens, msgW, m) + x)
<1>0. f \in Nat /\ n \in Nat /\ msgW \div 8 = 8
  BY WordsGrow
<1>z. MadeOf(s, msgW \div 8, f, x, f + n)
  BY WordOfMessage
<1> HIDE DEF f, n, s
<1>1. s = [k \in 1..8 |-> IF f + 8 * (x + 1) - k < f + n THEN 256 + (f + 8 * (x + 1) - k) ELSE Junk]
  BY <1>0, <1>z DEF MadeOf
<1>2. Low(s) = [k \in 1..4 |-> s[k + 4]] /\ High(s) = [k \in 1..4 |-> s[k]]
  <2>1. 1 + 8 - 5 = 4 /\ 1 + 4 - 1 = 4 /\ \A k \in 1..4 : 5 + k - 1 = k + 4 /\ 1 + k - 1 = k
    OBVIOUS
  <2> QED BY <2>1 DEF Low, High, SubSeq
<1>3. /\ \A k \in 1..4 : f + 8 * (x + 1) - (k + 4) = (f + 8 * x) + 4 - k
      /\ \A k \in 1..4 : 256 + (f + 8 * (x + 1) - (k + 4)) = 256 + (f + 8 * x) + 4 - k
      /\ \A k \in 1..4 : f + 8 * (x + 1) - k = (f + 8 * x + 4) + 4 - k
      /\ \A k \in 1..4 : 256 + (f + 8 * (x + 1) - k) = 256 + (f + 8 * x + 4) + 4 - k
  BY <1>0
<1>4. /\ \A k \in 1..4 : s[k + 4] = IF (f + 8 * x) + 4 - k < f + n THEN 256 + (f + 8 * x) + 4 - k ELSE Junk
      /\ \A k \in 1..4 : s[k] = IF (f + 8 * x + 4) + 4 - k < f + n THEN 256 + (f + 8 * x + 4) + 4 - k ELSE Junk
  <2>1. \A k \in 1..4 : k + 4 \in 1..8 /\ k \in 1..8
    OBVIOUS
  <2> QED BY <1>1, <1>3, <2>1
<1>5. Low(s) = FourBytes(f + 8 * x, f + n) /\ High(s) = FourBytes(f + 8 * x + 4, f + n)
  BY <1>2, <1>4 DEF FourBytes
<1> QED BY <1>5 DEF f, n, s

-----------------------------------------------------------------------------
(* The blocks preProcessing makes *)

\* Block b of message m, as the standard asks.
BlockOf(ls, mw, m, b) == [w \in 1..BLOCK_WORDS |-> StdWord(ByteAt(ls, mw, m), ls[m], b, w - 1)]

\* What goes into word w of block b, which is word x of the message: the word
\* the standard asks for, from the message as long as it has words.
Made32(m, b, w, l, x, n, kd) ==
    /\ x \in Nat /\ (Reads32(kd, n, w) <=> x < WordsIn(msgW, n))
    /\ (Reads32(kd, n, w) => l = StreamWord(WordAt(lens, msgW, m) + x))
       => M32(kd, n, w, l) = BlockOf(lens, msgW, m, b)[w + 1]
IsPair(t2, a, b) == t2 = <<a, b>>
Made64(m, b, j, l, x, n, kd) ==
    /\ x \in Nat /\ (Reads64(kd, n, j) <=> x < WordsIn(msgW, n))
    /\ (Reads64(kd, n, j) => l = StreamWord(WordAt(lens, msgW, m) + x))
       => M64(kd, n, j, l) = <<BlockOf(lens, msgW, m, b)[2 * j + 1], BlockOf(lens, msgW, m, b)[2 * j + 2]>>

LEMMA WordFilled ==
    ASSUME NEW n \in Nat, NEW b \in 1..blk_num(n), NEW first \in Nat, NEW w \in 0..BLOCK_WORDS - 1, NEW l,
           Reads32(SentBlocks(n)[b], n, w) => l = FourBytes(first + BlockBytes * (b - 1) + 4 * w, first + n)
    PROVE  M32(SentBlocks(n)[b], n, w, l) = StdWord(first, n, b, w)
<1> DEFINE kd == SentBlocks(n)[b]  p == first + BlockBytes * (b - 1)
<1>1. kd = SentBlocks(n)[b] /\ p = first + BlockBytes * (b - 1)
  OBVIOUS
<1>2. Reads32(kd, n, w) => l = FourBytes(p + 4 * w, first + n)
  OBVIOUS
<1> HIDE DEF kd, p
<1>3. M32(kd, n, w, l) = StdWord(first, n, b, w)
  BY <1>1, <1>2, WordMade
<1> QED BY <1>3 DEF kd

LEMMA NarrowFilled ==
    ASSUME IsCall(lens, msgW), msgW = 32, NEW m \in 1..Len(lens), NEW b \in 1..blk_num(lens[m]),
           NEW w \in 0..BLOCK_WORDS - 1, NEW l
    PROVE  Made32(m, b, w, l, BLOCK_WORDS * (b - 1) + w, lens[m], SentBlocks(lens[m])[b])
<1> DEFINE n == lens[m]  f == ByteAt(lens, msgW, m)  y == BLOCK_WORDS * (b - 1)  x == y + w  kd == SentBlocks(n)[b]
           s == StreamWord(WordAt(lens, msgW, m) + x)  z == BlockBytes * (b - 1)
<1>0. n \in Nat /\ f \in Nat /\ b \in 1..blk_num(n)
  BY WordsGrow
<1>1. x < WordsIn(msgW, n) /\ x \in Nat => s = FourBytes(f + 4 * x, f + n)
  BY NarrowWord
<1>2. x = y + w /\ kd = SentBlocks(n)[b] /\ BlockOf(lens, msgW, m, b) = [v \in 1..BLOCK_WORDS |-> StdWord(f, n, b, v - 1)]
  BY DEF BlockOf
<1> HIDE DEF n, f, x, s, kd
<1>3. Lengths(n)
  BY <1>0, PaddedLength
<1>4. BLOCK_WORDS \in Nat /\ b - 1 \in Nat /\ w \in Nat /\ w + 1 \in 1..BLOCK_WORDS /\ (w + 1) - 1 = w
  BY <1>0, <1>3 DEF Lengths
<1>5. y \in Nat /\ z = 4 * y
  <2>1. BlockBytes = 4 * BLOCK_WORDS
    BY <1>3 DEF Lengths
  <2> QED BY <1>4, <2>1, SMT
<1> HIDE DEF y
<1>6. Reads32(kd, n, w) <=> z + 4 * w < n
  BY <1>0, <1>2, ReadsOne
<1> HIDE DEF z
<1>7. x \in Nat /\ z + 4 * w = 4 * x /\ f + z + 4 * w = f + 4 * x
  BY <1>0, <1>2, <1>4, <1>5
<1>8. 4 * x < n <=> x < WordsIn(msgW, n)
  <2>1. msgW \div 8 = 4 /\ msgW \in {32, 64}
    OBVIOUS
  <2> QED BY <1>0, <1>7, <2>1, WordsOfLength
<1>9. (Reads32(kd, n, w) => l = s) => M32(kd, n, w, l) = StdWord(f, n, b, w)
  <2> SUFFICES ASSUME Reads32(kd, n, w) => l = s PROVE M32(kd, n, w, l) = StdWord(f, n, b, w)
    OBVIOUS
  <2>1. Reads32(kd, n, w) => l = FourBytes(f + z + 4 * w, f + n)
    BY <1>1, <1>6, <1>7, <1>8
  <2> QED BY <1>0, <1>2, <2>1, WordFilled DEF z
<1>10. BlockOf(lens, msgW, m, b)[w + 1] = StdWord(f, n, b, w)
  BY <1>2, <1>4
<1>11. Made32(m, b, w, l, x, n, kd)
  BY <1>6, <1>7, <1>8, <1>9, <1>10 DEF Made32, s
<1> QED BY <1>11 DEF n, x, y, kd

LEMMA PairFilled ==
    ASSUME NEW n \in Nat, NEW b \in 1..blk_num(n), NEW j \in Nat, 2 * j < BLOCK_WORDS, NEW l
    PROVE  IsPair(M64(SentBlocks(n)[b], n, j, l), M32(SentBlocks(n)[b], n, 2 * j, Low(l)),
                  M32(SentBlocks(n)[b], n, 2 * j + 1, High(l)))
<1> DEFINE kd == SentBlocks(n)[b]
<1>1. kd = SentBlocks(n)[b]
  OBVIOUS
<1> HIDE DEF kd
<1>2. M64(kd, n, j, l) = <<M32(kd, n, 2 * j, Low(l)), M32(kd, n, 2 * j + 1, High(l))>>
  BY <1>1, TwoWords
<1> QED BY <1>2 DEF kd, IsPair

LEMMA WideFilled ==
    ASSUME IsCall(lens, msgW), msgW = 64, NEW m \in 1..Len(lens), NEW b \in 1..blk_num(lens[m]),
           NEW j \in 0..(BLOCK_WORDS \div 2) - 1, NEW l
    PROVE  Made64(m, b, j, l, (BLOCK_WORDS \div 2) * (b - 1) + j, lens[m], SentBlocks(lens[m])[b])
<1> DEFINE n == lens[m]  f == ByteAt(lens, msgW, m)  h == BLOCK_WORDS \div 2  y == h * (b - 1)  x == y + j  w == 2 * j
           kd == SentBlocks(n)[b]  s == StreamWord(WordAt(lens, msgW, m) + x)  z == BlockBytes * (b - 1)
<1>0. n \in Nat /\ f \in Nat /\ b \in 1..blk_num(n) /\ j \in 0..h - 1
  BY WordsGrow
<1>1. x < WordsIn(msgW, n) /\ x \in Nat => Low(s) = FourBytes(f + 8 * x, f + n) /\ High(s) = FourBytes(f + 8 * x + 4, f + n)
  BY WideWord
<1>2. /\ x = y + j /\ w = 2 * j /\ kd = SentBlocks(n)[b]
      /\ BlockOf(lens, msgW, m, b) = [v \in 1..BLOCK_WORDS |-> StdWord(f, n, b, v - 1)]
  BY DEF BlockOf
<1> HIDE DEF n, f, x, s, kd, w
<1>3. Lengths(n)
  BY <1>0, PaddedLength
<1>4. BLOCK_WORDS \in Nat /\ h \in Nat /\ BLOCK_WORDS = 2 * h /\ b - 1 \in Nat /\ j \in Nat
  <2>1. BLOCK_WORDS \in Nat
    BY BlockAssumption
  <2>2. h \in Nat /\ BLOCK_WORDS = 2 * h
    BY <2>1, CutByTwo, BlockAssumption
  <2>3. b - 1 \in Nat
    BY <1>0, <1>3 DEF Lengths
  <2> HIDE DEF h
  <2> QED BY <1>0, <2>1, <2>2, <2>3
<1> HIDE DEF h
<1>5. /\ w \in 0..BLOCK_WORDS - 1 /\ w + 1 \in 0..BLOCK_WORDS - 1 /\ w + 1 \in 1..BLOCK_WORDS
      /\ w + 2 \in 1..BLOCK_WORDS /\ (w + 1) - 1 = w /\ (w + 2) - 1 = w + 1 /\ 2 * j < BLOCK_WORDS /\ w \in Nat
  BY <1>0, <1>2, <1>4
<1>6. y \in Nat /\ z = 8 * y
  <2>1. BlockBytes = 8 * h
    BY <1>3, <1>4 DEF Lengths
  <2> QED BY <1>4, <2>1, SMT
<1> HIDE DEF y
<1>7. (Reads32(kd, n, w) <=> z + 4 * w < n) /\ (Reads32(kd, n, w + 1) <=> z + 4 * (w + 1) < n)
  BY <1>0, <1>2, <1>5, ReadsOne
<1> HIDE DEF z
<1>8. /\ x \in Nat /\ z + 4 * w = 8 * x /\ z + 4 * (w + 1) = 8 * x + 4
      /\ f + z + 4 * w = f + 8 * x /\ f + z + 4 * (w + 1) = f + 8 * x + 4
  BY <1>0, <1>2, <1>4, <1>5, <1>6
<1>9. 8 * x < n <=> x < WordsIn(msgW, n)
  <2>1. msgW \div 8 = 8 /\ msgW \in {32, 64}
    OBVIOUS
  <2> QED BY <1>0, <1>8, <2>1, WordsOfLength
<1>10. Reads64(kd, n, j) <=> Reads32(kd, n, w)
  BY <1>0, <1>2, <1>4, <1>5, ReadsTwo
<1>11. (Reads64(kd, n, j) => l = s) => M32(kd, n, w, Low(l)) = StdWord(f, n, b, w)
  <2> SUFFICES ASSUME Reads64(kd, n, j) => l = s PROVE M32(kd, n, w, Low(l)) = StdWord(f, n, b, w)
    OBVIOUS
  <2>1. Reads32(kd, n, w) => Low(l) = FourBytes(f + z + 4 * w, f + n)
    BY <1>1, <1>7, <1>8, <1>9, <1>10
  <2>2. n \in Nat /\ b \in 1..blk_num(n) /\ f \in Nat /\ w \in 0..BLOCK_WORDS - 1 /\ kd = SentBlocks(n)[b]
    BY <1>0, <1>2, <1>5
  <2> QED BY <2>1, <2>2, WordFilled DEF z
<1>12. (Reads64(kd, n, j) => l = s) => M32(kd, n, w + 1, High(l)) = StdWord(f, n, b, w + 1)
  <2> SUFFICES ASSUME Reads64(kd, n, j) => l = s PROVE M32(kd, n, w + 1, High(l)) = StdWord(f, n, b, w + 1)
    OBVIOUS
  <2>0. Reads32(kd, n, w + 1) => 8 * x < n
    BY <1>0, <1>7, <1>8
  <2>1. Reads32(kd, n, w + 1) => High(l) = FourBytes(f + z + 4 * (w + 1), f + n)
    BY <1>1, <1>7, <1>8, <1>9, <1>10, <2>0
  <2> DEFINE v == w + 1
  <2>2. n \in Nat /\ b \in 1..blk_num(n) /\ f \in Nat /\ v \in 0..BLOCK_WORDS - 1 /\ kd = SentBlocks(n)[b]
    BY <1>0, <1>2, <1>5
  <2> HIDE DEF v
  <2>3. M32(kd, n, v, High(l)) = StdWord(f, n, b, v)
    BY <2>1, <2>2, WordFilled DEF z, v
  <2> QED BY <2>3 DEF v
<1>13. M64(kd, n, j, l) = <<M32(kd, n, w, Low(l)), M32(kd, n, w + 1, High(l))>>
  <2>1. M64(kd, n, j, l) = <<M32(kd, n, 2 * j, Low(l)), M32(kd, n, 2 * j + 1, High(l))>>
    <3>1. n \in Nat /\ b \in 1..blk_num(n) /\ kd = SentBlocks(n)[b] /\ j \in Nat /\ 2 * j < BLOCK_WORDS
      BY <1>0, <1>2, <1>4, <1>5
    <3>2. IsPair(M64(kd, n, j, l), M32(kd, n, 2 * j, Low(l)), M32(kd, n, 2 * j + 1, High(l)))
      BY <3>1, PairFilled
    <3> QED BY <3>2 DEF IsPair
  <2> QED BY <1>2, <2>1
<1>14. BlockOf(lens, msgW, m, b)[w + 1] = StdWord(f, n, b, w) /\ BlockOf(lens, msgW, m, b)[w + 2] = StdWord(f, n, b, w + 1)
  BY <1>2, <1>5
<1>15. Made64(m, b, j, l, x, n, kd)
  BY <1>2, <1>7, <1>8, <1>9, <1>10, <1>11, <1>12, <1>13, <1>14 DEF Made64, s
<1> QED BY <1>15 DEF n, x, y, h, kd

-----------------------------------------------------------------------------
(* The loop that fills a block *)

\* n items written in one go.
LEMMA WindowMore ==
    ASSUME NEW f, NEW S, NEW r, NEW w, Window(f, S, r, w), NEW n \in Nat, NEW s, s = [k \in 1..n |-> S[w + k]]
    PROVE  Window(f \o s, S, r, w + n)
<1> DEFINE V == {S[k] : k \in Nat}  g == f \o s  d == w - r
<1>1. r \in Nat /\ w \in Nat /\ r <= w /\ d \in Nat /\ f = [k \in 1..d |-> S[r + k]]
  BY DEF Window
<1>2. (\A k \in 1..d : S[r + k] \in V) /\ (\A k \in 1..n : S[w + k] \in V)
  <2>1. (\A k \in 1..d : r + k \in Nat) /\ (\A k \in 1..n : w + k \in Nat)
    BY <1>1
  <2> QED BY <2>1, Zenon
<1> HIDE DEF V
<1>3. d = w - r
  OBVIOUS
<1> HIDE DEF d
<1>4. f \in [1..d -> V] /\ s \in [1..n -> V]
  BY <1>1, <1>2
<1>5. f \in Seq(V) /\ Len(f) = d /\ s \in Seq(V) /\ Len(s) = n
  BY <1>1, <1>4
<1>6. Joined(V, g, f, s, d, n)
  BY <1>1, <1>5, Concat
<1> HIDE DEF g
<1>7. g \in Seq(V) /\ Len(g) = d + n /\ \A k \in 1..d + n : g[k] = IF k <= d THEN f[k] ELSE s[k - d]
  BY <1>6 DEF Joined
<1>8. ASSUME NEW k \in 1..d + n PROVE g[k] = S[r + k]
  <2>1. CASE k <= d
    <3>1. k \in 1..d
      BY <1>1, <2>1
    <3> QED BY <1>1, <1>7, <2>1, <3>1
  <2>2. CASE ~(k <= d)
    <3>1. k - d \in 1..n /\ w + (k - d) = r + k
      BY <1>1, <1>3, <2>2
    <3>2. g[k] = s[k - d]
      BY <1>7, <2>2
    <3> QED BY <3>1, <3>2
  <2> QED BY <2>1, <2>2
<1>9. g = [k \in 1..d + n |-> g[k]]
  BY <1>7
<1>10. g = [k \in 1..d + n |-> S[r + k]]
  BY <1>8, <1>9
<1>11. d + n = (w + n) - r /\ w + n \in Nat /\ r <= w + n
  BY <1>1, <1>3
<1> QED BY <1>1, <1>10, <1>11 DEF Window, g

\* x words wanted, c there are.
Taken(c, x) == IF x < c THEN x ELSE c

StepsOf(mw) == BLOCK_WORDS \div (mw \div 32)

\* Block b of message m is filled up to step j.
Filling(ls, mw, m, b, j, f, r) ==
    /\ b \in 1..blk_num(ls[m]) /\ j \in 0..StepsOf(mw)
    /\ Window(f, BlockOf(ls, mw, m, b), 0, (mw \div 32) * j)
    /\ r = WordAt(ls, mw, m) + Taken(WordsIn(mw, ls[m]), StepsOf(mw) * (b - 1) + j)

LEMMA NarrowStep ==
    ASSUME IsCall(lens, msgW), msgW = 32, NEW m \in 1..Len(lens), NEW b, NEW j, j < BLOCK_WORDS, NEW f, NEW r,
           Filling(lens, msgW, m, b, j, f, r), NEW rd, rd = Reads32(SentBlocks(lens[m])[b], lens[m], j)
    PROVE  Filling(lens, msgW, m, b, j + 1,
                   f \o <<M32(SentBlocks(lens[m])[b], lens[m], j, IF rd THEN StreamWord(r) ELSE Zero \o Zero)>>,
                   IF rd THEN r + 1 ELSE r)
<1> DEFINE n == lens[m]  kd == SentBlocks(n)[b]  x == BLOCK_WORDS * (b - 1) + j  y == BLOCK_WORDS * (b - 1)
           l == IF rd THEN StreamWord(r) ELSE Zero \o Zero  c == WordsIn(msgW, n)  a == WordAt(lens, msgW, m)
           B == BlockOf(lens, msgW, m, b)  w == M32(kd, n, j, l)
<1>1. StepsOf(msgW) = BLOCK_WORDS /\ msgW \div 32 = 1 /\ BLOCK_WORDS \in Nat
  <2>1. BLOCK_WORDS \in Nat /\ msgW \div 32 = 1
    BY BlockAssumption
  <2> QED BY <2>1 DEF StepsOf
<1>2. b \in 1..blk_num(n) /\ j \in 0..BLOCK_WORDS /\ Window(f, B, 0, 1 * j) /\ r = a + Taken(c, x)
  BY <1>1 DEF Filling
<1>3. j \in 0..BLOCK_WORDS - 1 /\ 1 * j = j /\ 1 * (j + 1) = j + 1 /\ j + 1 \in 0..BLOCK_WORDS
  BY <1>1, <1>2
<1>4. Made32(m, b, j, l, x, n, kd)
  BY <1>2, <1>3, NarrowFilled
<1>5. c \in Nat /\ a \in Nat
  <2>1. msgW \in {32, 64} /\ n \in Nat /\ a \in Nat
    BY WordsGrow
  <2> HIDE DEF n, a
  <2> QED BY <2>1, WordsOfLength
<1>6. x = y + j
  OBVIOUS
<1> HIDE DEF n, kd, x, l, c, a, B, w
<1>7. x \in Nat /\ (rd <=> x < c) /\ ((rd => l = StreamWord(a + x)) => w = B[j + 1])
  <2>1. rd = Reads32(kd, n, j)
    BY DEF kd, n
  <2> QED BY <1>4, <2>1 DEF Made32, w, a, B, c
<1>8. rd => r = a + x
  BY <1>2, <1>7 DEF Taken
<1>9. w = B[j + 1]
  BY <1>7, <1>8 DEF l
<1>10. Window(f \o <<w>>, B, 0, j + 1)
  <2>1. <<w>> = [k \in 1..1 |-> B[j + k]]
    BY <1>9
  <2>2. Window(f \o <<w>>, B, 0, j + 1)
    BY <1>2, <1>3, <2>1, WindowMore
  <2> QED BY <2>2
<1>11. (IF rd THEN r + 1 ELSE r) = a + Taken(c, x + 1)
  BY <1>2, <1>5, <1>7 DEF Taken
<1>12. x + 1 = BLOCK_WORDS * (b - 1) + (j + 1)
  <2>1. y \in Int /\ j \in Int
    <3>1. b - 1 \in Int
      BY <1>2 DEF Made32
    <3> QED BY <1>1, <1>3, <3>1, SMT
  <2> HIDE DEF y
  <2>2. x + 1 = y + (j + 1)
    BY <1>6, <2>1
  <2> QED BY <2>2 DEF y
<1> QED BY <1>1, <1>2, <1>3, <1>10, <1>11, <1>12 DEF Filling, n, kd, l, w, c, a, B

LEMMA WideStep ==
    ASSUME IsCall(lens, msgW), msgW = 64, NEW m \in 1..Len(lens), NEW b, NEW j, j < StepsOf(msgW), NEW f, NEW r,
           Filling(lens, msgW, m, b, j, f, r), NEW rd, rd = Reads64(SentBlocks(lens[m])[b], lens[m], j)
    PROVE  Filling(lens, msgW, m, b, j + 1,
                   f \o M64(SentBlocks(lens[m])[b], lens[m], j, IF rd THEN StreamWord(r) ELSE Zero \o Zero),
                   IF rd THEN r + 1 ELSE r)
<1> DEFINE n == lens[m]  kd == SentBlocks(n)[b]  h == BLOCK_WORDS \div 2  x == h * (b - 1) + j  y == h * (b - 1)
           l == IF rd THEN StreamWord(r) ELSE Zero \o Zero  c == WordsIn(msgW, n)  a == WordAt(lens, msgW, m)
           B == BlockOf(lens, msgW, m, b)  w == M64(kd, n, j, l)
<1>1. StepsOf(msgW) = h /\ msgW \div 32 = 2 /\ h \in Nat
  <2>1. BLOCK_WORDS \in Nat /\ msgW \div 32 = 2
    BY BlockAssumption
  <2>2. h \in Nat
    BY <2>1, CutByTwo
  <2> QED BY <2>1, <2>2 DEF StepsOf
<1>2. b \in 1..blk_num(n) /\ j \in 0..h /\ j < h /\ Window(f, B, 0, 2 * j) /\ r = a + Taken(c, x)
  BY <1>1 DEF Filling
<1>4. Made64(m, b, j, l, x, n, kd)
  <2>1. j \in 0..h - 1
    <3> HIDE DEF h
    <3> QED BY <1>1, <1>2
  <2> QED BY <1>2, <2>1, WideFilled
<1>5. c \in Nat /\ a \in Nat
  <2>1. msgW \in {32, 64} /\ n \in Nat /\ a \in Nat
    BY WordsGrow
  <2> HIDE DEF n, a
  <2> QED BY <2>1, WordsOfLength
<1>6. x = y + j
  OBVIOUS
<1>h. y = h * (b - 1)
  OBVIOUS
<1> HIDE DEF n, kd, x, l, c, a, B, w, h, y
<1>3. j \in Nat /\ 2 * j \in Nat /\ 2 * (j + 1) = 2 * j + 2 /\ j + 1 \in 0..h
  BY <1>1, <1>2
<1>7. x \in Nat /\ (rd <=> x < c) /\ ((rd => l = StreamWord(a + x)) => w = <<B[2 * j + 1], B[2 * j + 2]>>)
  <2>1. rd = Reads64(kd, n, j)
    BY DEF kd, n
  <2> QED BY <1>4, <2>1 DEF Made64, w, a, B, c
<1>8. rd => r = a + x
  BY <1>2, <1>7 DEF Taken
<1>9. w = <<B[2 * j + 1], B[2 * j + 2]>>
  BY <1>7, <1>8 DEF l
<1>10. Window(f \o w, B, 0, 2 * (j + 1))
  <2> DEFINE d == 2 * j
  <2>1. d \in Nat /\ 2 * (j + 1) = d + 2 /\ w = <<B[d + 1], B[d + 2]>> /\ Window(f, B, 0, d)
    BY <1>2, <1>3, <1>9
  <2> HIDE DEF d
  <2>2. w = [k \in 1..2 |-> B[d + k]]
    BY <2>1
  <2>3. Window(f \o w, B, 0, d + 2)
    BY <2>1, <2>2, WindowMore
  <2> QED BY <2>1, <2>3
<1>11. (IF rd THEN r + 1 ELSE r) = a + Taken(c, x + 1)
  BY <1>2, <1>5, <1>7 DEF Taken
<1>12. x + 1 = h * (b - 1) + (j + 1)
  <2>1. y \in Int /\ j \in Int
    <3>1. b - 1 \in Int
      BY <1>2
    <3> QED BY <1>1, <1>3, <1>h, <3>1, SMT
  <2>2. x + 1 = y + (j + 1)
    BY <1>6, <2>1
  <2> QED BY <1>h, <2>2
<1> QED BY <1>1, <1>2, <1>3, <1>10, <1>11, <1>12 DEF Filling, n, kd, l, w, c, a, B

\* A block is begun, and the words of a message are all read when its last
\* block is filled.
LEMMA StepNumbers ==
    ASSUME NEW mw \in {32, 64}, NEW n \in Nat
    PROVE  /\ StepsOf(mw) \in Nat /\ (mw \div 32) * StepsOf(mw) = BLOCK_WORDS /\ WordsIn(mw, n) \in Nat
           /\ StepsOf(mw) * blk_num(n) \in Nat /\ ~(StepsOf(mw) * blk_num(n) < WordsIn(mw, n))
<1> DEFINE h == StepsOf(mw)  c == mw \div 8  C == blk_num(n)  x == h * C
<1>1. h \in Nat /\ c \in Nat /\ (mw \div 32) * h = BLOCK_WORDS /\ BlockBytes = c * h
  <2>0. BLOCK_WORDS \in Nat /\ BlockBytes = 4 * BLOCK_WORDS
    BY PaddedLength DEF Lengths
  <2>1. CASE mw = 32
    <3>1. mw \div 32 = 1 /\ c = 4
      BY <2>1
    <3>2. h = BLOCK_WORDS
      BY <2>0, <3>1 DEF StepsOf
    <3> HIDE DEF h, c
    <3> QED BY <2>0, <3>1, <3>2
  <2>2. CASE mw = 64
    <3>1. mw \div 32 = 2 /\ c = 8
      BY <2>2
    <3>2. h = BLOCK_WORDS \div 2
      BY <3>1 DEF StepsOf
    <3>3. h \in Nat /\ BLOCK_WORDS = 2 * h
      BY <2>0, <3>2, CutByTwo, BlockAssumption
    <3> HIDE DEF h, c
    <3> QED BY <2>0, <3>1, <3>3
  <2> QED BY <2>1, <2>2
<1>2. C \in Nat /\ BlockBytes * C >= n
  <2>1. Lengths(n)
    BY PaddedLength
  <2> QED BY <2>1 DEF Lengths, AllBytes
<1>3. WordsIn(mw, n) \in Nat /\ \A v \in Nat : c * v < n <=> v < WordsIn(mw, n)
  BY WordsOfLength
<1> HIDE DEF h, c, C
<1>4. x \in Nat /\ c * x = BlockBytes * C
  BY <1>1, <1>2, SMT
<1>5. BlockBytes * C \in Nat
  BY <1>1, <1>4, SMT
<1> HIDE DEF x
<1>6. ~(c * x < n)
  <2> DEFINE z == BlockBytes * C
  <2>1. z \in Nat /\ z >= n /\ c * x = z
    BY <1>2, <1>4, <1>5
  <2> HIDE DEF z
  <2> QED BY <2>1
<1>7. ~(x < WordsIn(mw, n))
  BY <1>3, <1>4, <1>6
<1> QED BY <1>1, <1>3, <1>4, <1>7 DEF x, h, C

LEMMA FillingStarts ==
    ASSUME NEW ls, NEW mw, IsCall(ls, mw), NEW m \in 1..Len(ls)
    PROVE  Filling(ls, mw, m, 1, 0, <<>>, WordAt(ls, mw, m))
<1> DEFINE n == ls[m]  h == StepsOf(mw)  c == WordsIn(mw, n)  a == WordAt(ls, mw, m)  B == BlockOf(ls, mw, m, 1)
<1>1. mw \in {32, 64} /\ n \in Nat /\ a \in Nat
  BY WordsGrow DEF IsCall
<1>2. h \in Nat /\ c \in Nat /\ blk_num(n) \in Nat \ {0}
  <2> HIDE DEF n
  <2>1. Lengths(n)
    BY <1>1, PaddedLength
  <2> QED BY <1>1, <2>1, StepNumbers DEF Lengths
<1>3. h * (1 - 1) + 0 = 0
  <2> HIDE DEF h
  <2> QED BY <1>2
<1>4. a = a + Taken(c, 0)
  <2> HIDE DEF a, c
  <2> QED BY <1>1, <1>2 DEF Taken
<1>5. Window(<<>>, B, 0, (mw \div 32) * 0)
  <2>1. (mw \div 32) * 0 = 0
    BY <1>1
  <2> QED BY <2>1, WindowEmpty
<1> HIDE DEF n, h, c, a, B
<1>6. 1 \in 1..blk_num(n) /\ 0 \in 0..h
  BY <1>2
<1> QED BY <1>3, <1>4, <1>5, <1>6 DEF Filling, n, h, c, a, B

\* A block that is filled is the standard's, and the next one can be begun.
LEMMA BlockFilled ==
    ASSUME NEW ls, NEW mw, IsCall(ls, mw), NEW m \in 1..Len(ls), NEW b, NEW f, NEW r,
           Filling(ls, mw, m, b, StepsOf(mw), f, r)
    PROVE  /\ f = BlockOf(ls, mw, m, b)
           /\ b < blk_num(ls[m]) => Filling(ls, mw, m, b + 1, 0, <<>>, r)
           /\ ~(b < blk_num(ls[m])) => r = WordAt(ls, mw, m + 1)
<1> DEFINE n == ls[m]  h == StepsOf(mw)  c == WordsIn(mw, n)  a == WordAt(ls, mw, m)  B == BlockOf(ls, mw, m, b)
           C == blk_num(n)
<1>1. mw \in {32, 64} /\ n \in Nat /\ a \in Nat /\ m \in Nat \ {0} /\ WordCounts(ls, mw)[m] = c
  BY WordsGrow DEF IsCall
<1>2. h \in Nat /\ (mw \div 32) * h = BLOCK_WORDS /\ c \in Nat /\ C \in Nat /\ h * C \in Nat /\ ~(h * C < c) /\ BLOCK_WORDS \in Nat
  <2> HIDE DEF n
  <2>1. Lengths(n)
    BY <1>1, PaddedLength
  <2> QED BY <1>1, <2>1, StepNumbers DEF Lengths
<1>3. b \in 1..C /\ Window(f, B, 0, BLOCK_WORDS) /\ r = a + Taken(c, h * (b - 1) + h)
  BY <1>2 DEF Filling
<1>4. f = B
  <2>1. B = [k \in 1..BLOCK_WORDS |-> B[k]]
    BY DEF BlockOf
  <2>2. BLOCK_WORDS - 0 = BLOCK_WORDS /\ \A k \in 1..BLOCK_WORDS : 0 + k = k
    BY <1>2
  <2> HIDE DEF B
  <2>3. f = [k \in 1..BLOCK_WORDS |-> B[k]]
    BY <1>3, <2>2 DEF Window
  <2> QED BY <2>1, <2>3
<1>5. WordAt(ls, mw, m + 1) = a + c
  BY <1>1, BeforeNext DEF WordAt
<1>6. h * (b - 1) + h = h * b /\ h * b = h * ((b + 1) - 1) + 0
  <2> HIDE DEF h, C
  <2>0. b \in Int
    BY <1>2, <1>3
  <2>1. h * (b - 1) + h = h * b
    BY <1>2, <2>0, SMT
  <2>2. h * b \in Int /\ (b + 1) - 1 = b
    BY <1>2, <2>0, SMT
  <2> QED BY <2>1, <2>2
<1> HIDE DEF n, h, c, a, B, C
<1>7. ASSUME b < C PROVE Filling(ls, mw, m, b + 1, 0, <<>>, r)
  <2>1. b + 1 \in 1..C /\ 0 \in 0..h
    BY <1>2, <1>3, <1>7
  <2>2. Window(<<>>, BlockOf(ls, mw, m, b + 1), 0, (mw \div 32) * 0)
    <3>1. (mw \div 32) * 0 = 0
      BY <1>1
    <3> QED BY <3>1, WindowEmpty
  <2>3. r = a + Taken(c, h * ((b + 1) - 1) + 0)
    BY <1>3, <1>6
  <2> QED BY <2>1, <2>2, <2>3 DEF Filling, n, h, c, a, C
<1>8. ASSUME ~(b < C) PROVE r = a + c
  <2>1. b = C
    BY <1>2, <1>3, <1>8
  <2>2. r = a + Taken(c, h * C)
    BY <1>3, <1>6, <2>1
  <2> QED BY <1>2, <2>2 DEF Taken
<1> QED BY <1>4, <1>5, <1>7, <1>8 DEF B, C, n, a

-----------------------------------------------------------------------------
(* What preProcessing has read and made *)

PreData ==
    /\ IsCall(lens, msgW) /\ msg \in 1..Len(lens) + 1
    /\ ppc \in {"end", "nblk", "end_nblk", "fill", "finish", "done"}
    /\ ppc \in {"nblk", "end_nblk", "fill"} => msg \in 1..Len(lens)
    /\ ppc \in {"finish", "done"} => msg = Len(lens) + 1
    /\ ppc = "fill" => Filling(lens, msgW, msg, blk, i, M, msgRead)
    /\ ppc # "fill" => msgRead = WordAt(lens, msgW, msg)

LEMMA InitPreData == Init => PreData
<1> SUFFICES ASSUME Init PROVE PreData
  OBVIOUS
<1>1. IsCall(lens, msgW)
  BY InitPre DEF Init, PreInv, IsCall
<1>2. Len(lens) \in Nat
  BY <1>1 DEF IsCall
<1>3. WordAt(lens, msgW, 1) = 0
  BY BeforeNext DEF WordAt
<1> QED BY <1>1, <1>2, <1>3 DEF Init, PreData

LEMMA PreFillData == PreData /\ PreFill => PreData'
<1> SUFFICES ASSUME PreData, PreFill PROVE PreData'
  OBVIOUS
<1> DEFINE n == len  kd == kind  rd == Reads
           l == IF rd THEN StreamWord(msgRead) ELSE Zero \o Zero
<1>1. /\ ppc = "fill" /\ i < Steps /\ M' = M \o Filled(l) /\ msgRead' = IF rd THEN msgRead + 1 ELSE msgRead
      /\ i' = i + 1 /\ lens' = lens /\ msgW' = msgW /\ ppc' = ppc /\ msg' = msg /\ blk' = blk
  BY DEF PreFill, call
<1>2. IsCall(lens, msgW) /\ msg \in 1..Len(lens) /\ Filling(lens, msgW, msg, blk, i, M, msgRead) /\ msgW \in {32, 64}
  BY <1>1 DEF PreData, IsCall
<1>3. Steps = StepsOf(msgW) /\ n = lens[msg] /\ kd = SentBlocks(n)[blk]
  BY DEF Steps, StepsOf, len, kind
<1>4. Filling(lens, msgW, msg, blk, i + 1, M', msgRead')
  <2>1. CASE msgW = 32
    <3>1. rd = Reads32(SentBlocks(lens[msg])[blk], lens[msg], i)
      BY <1>3, <2>1 DEF Reads
    <3>2. M' = M \o <<M32(SentBlocks(lens[msg])[blk], lens[msg], i, l)>>
      BY <1>1, <1>3, <2>1 DEF Filled
    <3>3. i < BLOCK_WORDS
      <4>1. msgW \div 32 = 1 /\ BLOCK_WORDS \in Nat
        BY <2>1, BlockAssumption
      <4>2. Steps = BLOCK_WORDS
        BY <4>1 DEF Steps
      <4> QED BY <1>1, <4>2
    <3> HIDE DEF n, kd, rd
    <3>4. Filling(lens, msgW, msg, blk, i + 1,
                  M \o <<M32(SentBlocks(lens[msg])[blk], lens[msg], i, l)>>, IF rd THEN msgRead + 1 ELSE msgRead)
      BY <1>2, <2>1, <3>1, <3>3, NarrowStep
    <3> QED BY <1>1, <3>2, <3>4
  <2>2. CASE msgW = 64
    <3>1. rd = Reads64(SentBlocks(lens[msg])[blk], lens[msg], i)
      BY <1>3, <2>2 DEF Reads
    <3>2. M' = M \o M64(SentBlocks(lens[msg])[blk], lens[msg], i, l)
      BY <1>1, <1>3, <2>2 DEF Filled
    <3>3. i < StepsOf(msgW)
      BY <1>1, <1>3
    <3> HIDE DEF n, kd, rd
    <3>4. Filling(lens, msgW, msg, blk, i + 1,
                  M \o M64(SentBlocks(lens[msg])[blk], lens[msg], i, l), IF rd THEN msgRead + 1 ELSE msgRead)
      BY <1>2, <2>2, <3>1, <3>3, WideStep
    <3> QED BY <1>1, <3>2, <3>4
  <2> QED BY <1>2, <2>1, <2>2
<1> HIDE DEF n, kd, rd, l
<1>5. PreData' = /\ IsCall(lens, msgW) /\ msg \in 1..Len(lens) + 1
                 /\ Filling(lens, msgW, msg, blk, i + 1, M', msgRead')
  BY <1>1, <1>2 DEF PreData
<1> QED BY <1>2, <1>4, <1>5 DEF PreData

LEMMA PreSendData ==
    ASSUME PreData, PreSend
    PROVE  /\ PreData' /\ M = BlockOf(lens, msgW, msg, blk) /\ blk \in 1..blk_num(lens[msg])
           /\ lens' = lens /\ msgW' = msgW /\ ppc = "fill" /\ msg \in 1..Len(lens)
           /\ \/ blk < blk_num(lens[msg]) /\ blk' = blk + 1 /\ ppc' = ppc /\ msg' = msg
              \/ blk = blk_num(lens[msg]) /\ ppc' = "end" /\ msg' = msg + 1
<1>1. /\ ppc = "fill" /\ i = Steps /\ i' = 0 /\ M' = <<>> /\ lens' = lens /\ msgW' = msgW /\ msgRead' = msgRead
      /\ IF blk < Len(SentBlocks(len)) THEN blk' = blk + 1 /\ ppc' = ppc /\ msg' = msg
         ELSE ppc' = "end" /\ msg' = msg + 1 /\ blk' = 1
  BY DEF PreSend, call
<1>2. IsCall(lens, msgW) /\ msg \in 1..Len(lens) /\ Filling(lens, msgW, msg, blk, i, M, msgRead)
  BY <1>1 DEF PreData
<1>3. /\ M = BlockOf(lens, msgW, msg, blk)
      /\ blk < blk_num(lens[msg]) => Filling(lens, msgW, msg, blk + 1, 0, <<>>, msgRead)
      /\ ~(blk < blk_num(lens[msg])) => msgRead = WordAt(lens, msgW, msg + 1)
  <2>1. i = StepsOf(msgW)
    BY <1>1 DEF Steps, StepsOf
  <2> QED BY <1>2, <2>1, BlockFilled
<1>4. Len(SentBlocks(len)) = blk_num(lens[msg]) /\ blk_num(lens[msg]) \in Nat /\ blk \in 1..blk_num(lens[msg])
      /\ Len(lens) \in Nat
  <2>1. lens[msg] \in Nat /\ Len(lens) \in Nat
    BY <1>2, WordsGrow
  <2> DEFINE n == lens[msg]
  <2>2. n \in Nat
    BY <2>1
  <2> HIDE DEF n
  <2>3. Lengths(n) /\ blk_num(n) = Len(SentBlocks(n))
    BY <2>2, PaddedLength, BlocksAnnounced
  <2> QED BY <1>2, <2>1, <2>3 DEF n, len, Lengths, Filling
<1>5. CASE blk < blk_num(lens[msg])
  <2>1. blk' = blk + 1 /\ ppc' = "fill" /\ msg' = msg
    BY <1>1, <1>4, <1>5
  <2>2. Filling(lens, msgW, msg, blk + 1, 0, <<>>, msgRead)
    BY <1>3, <1>5
  <2>3. Filling(lens', msgW', msg', blk', i', M', msgRead')
    BY <1>1, <2>1, <2>2
  <2>4. IsCall(lens', msgW') /\ msg' \in 1..Len(lens')
    BY <1>1, <1>2, <2>1
  <2>5. PreData'
    BY <1>4, <1>1, <2>1, <2>3, <2>4 DEF PreData
  <2> QED BY <1>1, <1>2, <1>3, <1>4, <1>5, <2>1, <2>5
<1>6. CASE ~(blk < blk_num(lens[msg]))
  <2>1. ppc' = "end" /\ msg' = msg + 1 /\ blk = blk_num(lens[msg])
    BY <1>1, <1>4, <1>6
  <2>2. msgRead' = WordAt(lens', msgW', msg')
    BY <1>1, <1>3, <1>6, <2>1
  <2>3. IsCall(lens', msgW') /\ msg' \in 1..Len(lens') + 1
    BY <1>1, <1>2, <1>4, <2>1
  <2>4. PreData'
    BY <2>1, <2>2, <2>3 DEF PreData
  <2> QED BY <1>1, <1>2, <1>3, <1>4, <2>1, <2>4
<1> QED BY <1>5, <1>6

LEMMA PreDataStep == PreData /\ [Next]_vars => PreData'
<1> SUFFICES ASSUME PreData, [Next]_vars PROVE PreData'
  OBVIOUS
<1>0. Len(lens) \in Nat /\ IsCall(lens, msgW)
  BY WordsGrow DEF PreData
<1>1. CASE UNCHANGED <<lens, msgW, ppc, msg, blk, i, M, msgRead>>
  BY <1>1 DEF PreData
<1>2. CASE PreStart
  <2>1. /\ ppc = "end" /\ ppc' = (IF msg <= Len(lens) THEN "nblk" ELSE "finish") /\ lens' = lens /\ msgW' = msgW
        /\ msg' = msg /\ msgRead' = msgRead
    BY <1>2 DEF PreStart, call
  <2> QED BY <1>0, <2>1 DEF PreData
<1>3. CASE PreAnnounce
  <2>1. ppc = "nblk" /\ ppc' = "end_nblk" /\ lens' = lens /\ msgW' = msgW /\ msg' = msg /\ msgRead' = msgRead
    BY <1>3 DEF PreAnnounce, call
  <2> QED BY <2>1 DEF PreData
<1>4. CASE PreEndFlag
  <2>1. /\ ppc \in {"end_nblk", "finish"} /\ ppc' = (IF ppc = "finish" THEN "done" ELSE "fill")
        /\ lens' = lens /\ msgW' = msgW /\ msg' = msg /\ msgRead' = msgRead /\ blk' = 1 /\ i' = 0 /\ M' = <<>>
    BY <1>4 DEF PreEndFlag, call
  <2>2. CASE ppc = "finish"
    BY <2>1, <2>2 DEF PreData
  <2>3. CASE ppc = "end_nblk"
    <3>1. msg \in 1..Len(lens) /\ msgRead = WordAt(lens, msgW, msg)
      BY <2>3 DEF PreData
    <3>2. Filling(lens, msgW, msg, 1, 0, <<>>, msgRead)
      BY <1>0, <3>1, FillingStarts
    <3> QED BY <2>1, <2>3, <3>1, <3>2 DEF PreData
  <2> QED BY <2>1, <2>2, <2>3
<1>5. CASE PreFill
  BY <1>5, PreFillData
<1>6. CASE PreSend
  BY <1>6, PreSendData
<1>7. CASE dupStage1 \/ dupStage2
  BY <1>1, <1>7 DEF dupStage1, dupStage2, DupReadFlag, DupPassFlag, DupReadValue, DupPassValue,
                    DupFlag, DupValue, DupOut1, DupOut2, DupFlag1, DupFlag2, call, preVars
<1>8. CASE generateMsgSchedule
  BY <1>1, <1>8 DEF generateMsgSchedule, GenFlag, GenCount, GenBlock, GenWord, call, preVars
<1>9. CASE sha256Digest
  BY <1>1, <1>9 DEF sha256Digest, DigestFlag, DigestCount, DigestWord, DigestEmit, DigestEndFlag, call, preVars
<1>10. CASE UNCHANGED vars
  BY <1>1, <1>10 DEF vars, call, preVars
<1> QED BY <1>2, <1>3, <1>4, <1>5, <1>6, <1>7, <1>8, <1>9, <1>10 DEF Next, preProcessing, Finished

-----------------------------------------------------------------------------
(* What goes over the streams of a call, from its start to its end *)

Counts(ls) == [k \in DOMAIN ls |-> blk_num(ls[k])]
BlocksBefore(ls, m) == Before(Counts(ls), m)
Flags(ls) == [k \in Nat |-> k = Len(ls) + 1]
BlockAt(ls, mw, k, m) == BlockOf(ls, mw, m, k - BlocksBefore(ls, m))
Blocks(ls, mw) == [k \in Nat |-> BlockAt(ls, mw, k, PlaceOf(Counts(ls), Len(ls), k - 1))]
WordOf(bs, k) == W(bs[((k - 1) \div ROUNDS) + 1], (k - 1) % ROUNDS)
Schedule(ls, mw) == [k \in Nat |-> WordOf(Blocks(ls, mw), k)]
Message(ls, mw, m) == [first |-> ByteAt(ls, mw, m), bytes |-> ls[m]]
Digests(ls, mw) == [m \in Nat |-> Sha256(Message(ls, mw, m))]

\* The counts of a call, and where the blocks of message m are.
Counted(ls, m) ==
    /\ Len(ls) \in Nat /\ Counts(ls)[m] = blk_num(ls[m]) /\ blk_num(ls[m]) \in Nat \ {0} /\ ls[m] \in Nat
    /\ BlocksBefore(ls, m) \in Nat /\ BlocksBefore(ls, m + 1) = BlocksBefore(ls, m) + blk_num(ls[m])

LEMMA CountsGrow ==
    ASSUME NEW ls, NEW mw, IsCall(ls, mw)
    PROVE  /\ Growing(Counts(ls), Len(ls)) /\ Len(ls) \in Nat
           /\ \A m \in 1..Len(ls) : Counted(ls, m)
<1>1. Len(ls) \in Nat /\ DOMAIN ls = 1..Len(ls) /\ \A m \in 1..Len(ls) : ls[m] \in Nat
  BY DEF IsCall
<1>2. \A m \in 1..Len(ls) : Counts(ls)[m] = blk_num(ls[m]) /\ blk_num(ls[m]) \in Nat \ {0}
  <2>1. ASSUME NEW m \in 1..Len(ls) PROVE blk_num(ls[m]) \in Nat \ {0}
    <3>1. Lengths(ls[m])
      BY <1>1, PaddedLength
    <3> QED BY <3>1 DEF Lengths
  <2> QED BY <1>1, <2>1 DEF Counts
<1>3. Growing(Counts(ls), Len(ls))
  BY <1>1, <1>2, SumsGrow
<1>4. ASSUME NEW m \in 1..Len(ls) PROVE Counted(ls, m)
  <2>1. m \in 1..Len(ls) + 1
    BY <1>1
  <2>2. BlocksBefore(ls, m) \in Nat /\ BlocksBefore(ls, m + 1) = BlocksBefore(ls, m) + Counts(ls)[m]
    BY <1>3, <2>1 DEF Growing, BlocksBefore
  <2> QED BY <1>1, <1>2, <2>2 DEF Counted
<1> QED BY <1>1, <1>3, <1>4

\* Block b of message m comes behind the blocks of the messages before it.
LEMMA BlocksAre ==
    ASSUME NEW ls, NEW mw, IsCall(ls, mw), NEW m \in 1..Len(ls), NEW b \in 1..blk_num(ls[m])
    PROVE  /\ Blocks(ls, mw)[BlocksBefore(ls, m) + b] = BlockOf(ls, mw, m, b)
           /\ BlocksBefore(ls, m) + b \in Nat
<1> DEFINE C == blk_num(ls[m])  y == BlocksBefore(ls, m)  k == y + b
<1>1. Growing(Counts(ls), Len(ls)) /\ Len(ls) \in Nat /\ Counted(ls, m)
  BY CountsGrow
<1>2. C \in Nat \ {0} /\ b \in 1..C /\ y \in Nat /\ BlocksBefore(ls, m + 1) = y + C
  BY <1>1 DEF Counted
<1> HIDE DEF C
<1>3. Before(Counts(ls), m) = y /\ Before(Counts(ls), m + 1) = y + C
  BY <1>2 DEF BlocksBefore
<1>4. PlaceOf(Counts(ls), Len(ls), k - 1) = m
  <2> DEFINE p == k - 1
  <2> HIDE DEF y
  <2>1. p \in Nat /\ y <= p /\ p < y + C
    BY <1>2
  <2> HIDE DEF p
  <2> QED BY <1>1, <1>3, <2>1, PlaceFound DEF p
<1>5. k \in Nat /\ k - y = b
  <2> HIDE DEF y
  <2> QED BY <1>2
<1>6. Blocks(ls, mw)[k] = BlockAt(ls, mw, k, PlaceOf(Counts(ls), Len(ls), k - 1))
  <2> HIDE DEF k
  <2> QED BY <1>5 DEF Blocks
<1>7. Blocks(ls, mw)[k] = BlockOf(ls, mw, m, b)
  BY <1>4, <1>5, <1>6 DEF BlockAt
<1> QED BY <1>5, <1>7

LEMMA RoundsAre == ROUNDS \in Nat \ {0}
BY DataflowAssumption, BlockAssumption

\* Block k + 1 is expanded behind the k blocks before it.
LEMMA ScheduleIs ==
    ASSUME NEW ls, NEW mw, NEW k \in Nat, NEW j \in 0..ROUNDS - 1
    PROVE  /\ Schedule(ls, mw)[ROUNDS * k + j + 1] = W(Blocks(ls, mw)[k + 1], j)
           /\ ROUNDS * k \in Nat
<1> DEFINE x == ROUNDS * k  y == x + j + 1
<1>1. ROUNDS \in Nat \ {0}
  BY RoundsAre
<1>2. x \in Nat
  BY <1>1, SMT
<1>3. (x + j) \div ROUNDS = k /\ (x + j) % ROUNDS = j
  BY <1>1, DivUnique
<1> HIDE DEF x
<1>4. y \in Nat /\ y - 1 = x + j
  BY <1>1, <1>2
<1> HIDE DEF y
<1>5. WordOf(Blocks(ls, mw), y) = W(Blocks(ls, mw)[k + 1], j)
  BY <1>3, <1>4 DEF WordOf
<1>6. Schedule(ls, mw)[y] = W(Blocks(ls, mw)[k + 1], j)
  BY <1>4, <1>5 DEF Schedule
<1> QED BY <1>2, <1>6 DEF x, y

\* The words of the blocks of a message make its digest.
LEMMA DigestIs ==
    ASSUME NEW ls, NEW mw, IsCall(ls, mw), NEW m \in 1..Len(ls), NEW f, NEW r, NEW w,
           r = ROUNDS * BlocksBefore(ls, m), w = r + ROUNDS * blk_num(ls[m]),
           Window(f, Schedule(ls, mw), r, w)
    PROVE  f = Sha256(Message(ls, mw, m))
<1> DEFINE n == ls[m]  C == blk_num(n)  a == ByteAt(ls, mw, m)  P == PaddedBlocks(Message(ls, mw, m))
           s == [b \in 1..C |-> [k \in 1..ROUNDS |-> W(P[b], k - 1)]]  y == BlocksBefore(ls, m)
<1>0. ROUNDS \in Nat \ {0}
  BY RoundsAre
<1>1. n \in Nat /\ a \in Nat /\ C \in Nat \ {0} /\ y \in Nat
  BY WordsGrow, CountsGrow DEF Counted
<1>2. P = [b \in 1..C |-> BlockOf(ls, mw, m, b)]
  <2>1. P = [b \in 1..blk_num(n) |-> [k \in 1..BLOCK_WORDS |-> StdWord(a, n, b, k - 1)]]
    <3> DEFINE mm == Message(ls, mw, m)
    <3>1. mm = [first |-> a, bytes |-> n]
      BY DEF Message
    <3> HIDE DEF mm, a, n
    <3>2. PaddedBlocks(mm) = [b \in 1..blk_num(n) |-> [k \in 1..BLOCK_WORDS |-> StdWord(a, n, b, k - 1)]]
      BY <1>1, <3>1, PaddedBlocksAre
    <3> QED BY <3>2 DEF mm
  <2> QED BY <2>1 DEF BlockOf
<1>3. Sha256(Message(ls, mw, m)) = FlattenSeq(s)
  BY <1>2 DEF Sha256
<1> HIDE DEF n, C, a
<1>4. Pieces(s, ROUNDS, C)
  <2>1. \A b \in 1..C : s[b] = [k \in 1..ROUNDS |-> W(P[b], k - 1)]
    OBVIOUS
  <2>2. s = [b \in 1..C |-> s[b]] /\ \A b \in 1..C : s[b] = [k \in 1..ROUNDS |-> s[b][k]]
    BY <2>1
  <2> HIDE DEF s
  <2> QED BY <2>2 DEF Pieces
<1>5. \A b \in 1..C : P[b] = BlockOf(ls, mw, m, b)
  BY <1>2
<1> HIDE DEF P
<1>6. \A b \in 1..C : \A k \in 1..ROUNDS : s[b][k] = W(P[b], k - 1)
  OBVIOUS
<1> HIDE DEF s
<1>7. FlattenSeq(s) = Together(s, ROUNDS, C)
  BY <1>0, <1>1, <1>4, Flattened
<1>8. r \in Nat /\ w - r = ROUNDS * C /\ ROUNDS * C \in Nat /\ r = ROUNDS * y
  <2>1. ROUNDS * C \in Nat /\ ROUNDS * y \in Nat
    BY <1>0, <1>1, SMT
  <2>2. r = ROUNDS * y /\ w = r + ROUNDS * C
    BY DEF C, n
  <2> HIDE DEF y
  <2> QED BY <2>1, <2>2
<1>9. f = [k \in 1..ROUNDS * C |-> Schedule(ls, mw)[r + k]]
  BY <1>8 DEF Window
<1>10. ASSUME NEW k \in 1..ROUNDS * C PROVE Schedule(ls, mw)[r + k] = ItemAt(s, ROUNDS, k)
  <2>1. PICK b \in 0..C - 1, j \in 1..ROUNDS : k = ROUNDS * b + j
    BY <1>0, <1>1, PieceOf
  <2>2. b \in Nat /\ b + 1 \in 1..C /\ j - 1 \in 0..ROUNDS - 1
    BY <1>0, <1>1
  <2>3. ItemAt(s, ROUNDS, k) = W(P[b + 1], j - 1)
    <3>1. ItemAt(s, ROUNDS, ROUNDS * b + j) = s[b + 1][j]
      BY <1>0, <2>2, ItemOfPiece
    <3> QED BY <1>6, <2>1, <2>2, <3>1
  <2>4. Schedule(ls, mw)[r + k] = W(Blocks(ls, mw)[(y + b) + 1], j - 1)
    <3> HIDE DEF y
    <3> DEFINE z == ROUNDS * (y + b)
    <3>1. z \in Nat /\ r + k = z + j
      <4>1. z = ROUNDS * y + ROUNDS * b /\ ROUNDS * b \in Nat /\ ROUNDS * y \in Nat
        BY <1>0, <1>1, <2>2, SMT
      <4> HIDE DEF z
      <4> QED BY <1>8, <2>1, <4>1
    <3>2. Schedule(ls, mw)[z + (j - 1) + 1] = W(Blocks(ls, mw)[(y + b) + 1], j - 1)
      <4> DEFINE q == y + b  v == j - 1
      <4>1. q \in Nat /\ v \in 0..ROUNDS - 1
        BY <1>1, <2>2
      <4> HIDE DEF q, v, z
      <4>2. Schedule(ls, mw)[ROUNDS * q + v + 1] = W(Blocks(ls, mw)[q + 1], v)
        BY <4>1, ScheduleIs
      <4> QED BY <4>2 DEF q, v, z
    <3> HIDE DEF z
    <3>3. z + (j - 1) + 1 = z + j
      BY <1>0, <3>1
    <3> QED BY <3>1, <3>2, <3>3
  <2>5. Blocks(ls, mw)[(y + b) + 1] = P[b + 1]
    <3>1. Blocks(ls, mw)[y + (b + 1)] = BlockOf(ls, mw, m, b + 1)
      BY <2>2, BlocksAre DEF C, n
    <3>2. (y + b) + 1 = y + (b + 1)
      <4> HIDE DEF y
      <4> QED BY <1>1, <2>2
    <3> QED BY <1>5, <2>2, <3>1, <3>2
  <2> QED BY <2>3, <2>4, <2>5
<1>11. f = Together(s, ROUNDS, C)
  BY <1>9, <1>10 DEF Together
<1> QED BY <1>3, <1>7, <1>11

-----------------------------------------------------------------------------
(* Where the processes are: d and e messages are passed on by the two stages *)
(* of dup_strm, g are expanded and h are digested.                           *)

\* preProcessing: what it has sent.
FlagsSent(m, pc) == IF pc \in {"fill", "done"} THEN m ELSE m - 1
CountsSent(m, pc) == IF pc \in {"end_nblk", "fill"} THEN m ELSE m - 1
BlocksSent(ls, m, b, pc) == IF pc = "fill" THEN BlocksBefore(ls, m) + (b - 1) ELSE BlocksBefore(ls, m)

\* dup_strm, stage 1: what it has read, and sent.
D1Flags(d, pc) == IF pc = "e" THEN d ELSE d + 1
D1Counts(d, pc) == IF pc = "mid_v" THEN d + 1 ELSE d
D1FlagsOut(d, pc) == IF pc \in {"v", "mid_v", "done"} THEN d + 1 ELSE d
D1At(d, ls, pc, fl, v) ==
    /\ d \in 0..Len(ls) /\ pc \in {"e", "mid_e", "v", "mid_v", "done"}
    /\ pc = "mid_e" => fl = (d = Len(ls))
    /\ pc \in {"v", "mid_v"} => d < Len(ls)
    /\ pc = "mid_v" => v = Counts(ls)[d + 1]
    /\ pc = "done" => d = Len(ls)

\* Stage 2.
D2Flags(e, pc) == IF pc = "e" THEN e ELSE e + 1
D2Counts(e, pc) == IF pc \in {"out1", "out2", "flag1", "flag2"} THEN e + 1 ELSE e
D2Out1(e, pc) == IF pc \in {"out2", "flag1", "flag2"} THEN e + 1 ELSE e
D2Out2(e, pc) == IF pc \in {"flag1", "flag2"} THEN e + 1 ELSE e
D2Flag1(e, pc) == IF pc \in {"flag2", "end2", "done"} THEN e + 1 ELSE e
D2Flag2(e, pc) == IF pc = "done" THEN e + 1 ELSE e
D2At(e, ls, pc, v) ==
    /\ e \in 0..Len(ls)
    /\ pc \in {"e", "v", "out1", "out2", "flag1", "flag2", "end1", "end2", "done"}
    /\ pc \in {"v", "out1", "out2", "flag1", "flag2"} => e < Len(ls)
    /\ pc \in {"out1", "out2"} => v = Counts(ls)[e + 1]
    /\ pc \in {"end1", "end2", "done"} => e = Len(ls)

\* generateMsgSchedule.
GFlags(g, pc) == IF pc = "end" THEN g ELSE g + 1
GCounts(g, pc) == IF pc \in {"blk", "w"} THEN g + 1 ELSE g
GBlocks(ls, g, pc, n) == IF pc \in {"blk", "w"} THEN BlocksBefore(ls, g + 1) + (Counts(ls)[g + 1] - n)
                         ELSE BlocksBefore(ls, g + 1)
GWords(ls, g, pc, n, j) == IF pc = "w" THEN ROUNDS * (GBlocks(ls, g, pc, n) - 1) + j
                           ELSE ROUNDS * GBlocks(ls, g, pc, n)
GAt(g, ls, mw, pc, n, b, j) ==
    /\ g \in 0..Len(ls) /\ pc \in {"end", "n", "blk", "w", "done"}
    /\ pc \in {"n", "blk", "w"} => g < Len(ls)
    /\ pc = "blk" => n \in 0..Counts(ls)[g + 1]
    /\ pc = "w" => n \in 0..Counts(ls)[g + 1] - 1 /\ j \in 0..ROUNDS - 1 /\ b = Blocks(ls, mw)[GBlocks(ls, g, pc, n)]
    /\ pc = "done" => g = Len(ls)

\* sha256Digest.
HFlags(h, pc) == IF pc = "end" THEN h ELSE h + 1
HCounts(h, pc) == IF pc \in {"w", "flag"} THEN h + 1 ELSE h
HWords(ls, h, pc, n) == IF pc \in {"w", "flag"} THEN ROUNDS * BlocksBefore(ls, h + 1) + (ROUNDS * Counts(ls)[h + 1] - n)
                        ELSE ROUNDS * BlocksBefore(ls, h + 1)
HDigests(h, pc) == IF pc = "flag" THEN h + 1 ELSE h
HFlagsOut(h, pc) == IF pc = "done" THEN h + 1 ELSE h
HAt(h, ls, mw, pc, n, f) ==
    /\ h \in 0..Len(ls) /\ pc \in {"end", "n", "w", "flag", "finish", "done"}
    /\ pc \in {"n", "w", "flag"} => h < Len(ls)
    /\ pc = "w" => /\ n \in 0..ROUNDS * Counts(ls)[h + 1]
                   /\ Window(f, Schedule(ls, mw), ROUNDS * BlocksBefore(ls, h + 1), HWords(ls, h, pc, n))
    /\ pc = "flag" => n = 0
    /\ pc \in {"finish", "done"} => h = Len(ls)

Flow(d, e, g, h) ==
    /\ D1At(d, lens, d1pc, e1, v1)
    /\ D2At(e, lens, d2pc, v2)
    /\ GAt(g, lens, msgW, gpc, gn, gblk, t)
    /\ HAt(h, lens, msgW, hpc, hn, digested)
    /\ Window(end_nblk_strm, Flags(lens), D1Flags(d, d1pc), FlagsSent(msg, ppc))
    /\ Window(nblk_strm, Counts(lens), D1Counts(d, d1pc), CountsSent(msg, ppc))
    /\ Window(mid_e, Flags(lens), D2Flags(e, d2pc), D1FlagsOut(d, d1pc))
    /\ Window(mid_v, Counts(lens), D2Counts(e, d2pc), d)
    /\ Window(end_nblk_strm1, Flags(lens), GFlags(g, gpc), D2Flag1(e, d2pc))
    /\ Window(nblk_strm1, Counts(lens), GCounts(g, gpc), D2Out1(e, d2pc))
    /\ Window(end_nblk_strm2, Flags(lens), HFlags(h, hpc), D2Flag2(e, d2pc))
    /\ Window(nblk_strm2, Counts(lens), HCounts(h, hpc), D2Out2(e, d2pc))
    /\ Window(blk_strm, Blocks(lens, msgW), GBlocks(lens, g, gpc, gn), BlocksSent(lens, msg, blk, ppc))
    /\ Window(w_strm, Schedule(lens, msgW), HWords(lens, h, hpc, hn), GWords(lens, g, gpc, gn, t))
    /\ Window(hash_strm, Digests(lens, msgW), 0, HDigests(h, hpc))
    /\ Window(end_hash_strm, Flags(lens), 0, HFlagsOut(h, hpc))

\* Flag k is set for the message behind the last one.
LEMMA FlagIs == ASSUME NEW ls, NEW k \in Nat PROVE Flags(ls)[k] = (k = Len(ls) + 1)
BY DEF Flags

LEMMA FlowStarts == ASSUME Init PROVE Flow(0, 0, 0, 0)
<1>1. IsCall(lens, msgW) /\ Len(lens) \in Nat
  BY InitPreData, WordsGrow DEF PreData
<1>2. BlocksBefore(lens, 1) = 0 /\ BlocksBefore(lens, 0 + 1) = 0
  BY BeforeNext DEF BlocksBefore
<1>3. /\ ppc = "end" /\ msg = 1 /\ d1pc = "e" /\ d2pc = "e" /\ gpc = "end" /\ hpc = "end"
      /\ nblk_strm = <<>> /\ end_nblk_strm = <<>> /\ mid_v = <<>> /\ mid_e = <<>>
      /\ nblk_strm1 = <<>> /\ end_nblk_strm1 = <<>> /\ nblk_strm2 = <<>> /\ end_nblk_strm2 = <<>>
      /\ blk_strm = <<>> /\ w_strm = <<>> /\ hash_strm = <<>> /\ end_hash_strm = <<>>
  BY DEF Init
<1>4. ROUNDS * 0 = 0
  BY RoundsAre
<1>5. /\ FlagsSent(msg, ppc) = 0 /\ CountsSent(msg, ppc) = 0 /\ BlocksSent(lens, msg, blk, ppc) = 0
      /\ D1Flags(0, d1pc) = 0 /\ D1Counts(0, d1pc) = 0 /\ D1FlagsOut(0, d1pc) = 0
  BY <1>2, <1>3 DEF FlagsSent, CountsSent, BlocksSent, D1Flags, D1Counts, D1FlagsOut
<1>6. /\ D2Flags(0, d2pc) = 0 /\ D2Counts(0, d2pc) = 0 /\ D2Out1(0, d2pc) = 0 /\ D2Out2(0, d2pc) = 0
      /\ D2Flag1(0, d2pc) = 0 /\ D2Flag2(0, d2pc) = 0
  BY <1>3 DEF D2Flags, D2Counts, D2Out1, D2Out2, D2Flag1, D2Flag2
<1>7. GFlags(0, gpc) = 0 /\ GCounts(0, gpc) = 0 /\ GBlocks(lens, 0, gpc, gn) = 0 /\ GWords(lens, 0, gpc, gn, t) = 0
  BY <1>2, <1>3, <1>4 DEF GFlags, GCounts, GBlocks, GWords
<1>8. /\ HFlags(0, hpc) = 0 /\ HCounts(0, hpc) = 0 /\ HWords(lens, 0, hpc, hn) = 0 /\ HDigests(0, hpc) = 0
      /\ HFlagsOut(0, hpc) = 0
  BY <1>2, <1>3, <1>4 DEF HFlags, HCounts, HWords, HDigests, HFlagsOut
<1>9. \A S : Window(<<>>, S, 0, 0)
  BY WindowEmpty
<1>10. D1At(0, lens, d1pc, e1, v1) /\ D2At(0, lens, d2pc, v2)
  BY <1>1, <1>3 DEF D1At, D2At
<1>11. GAt(0, lens, msgW, gpc, gn, gblk, t) /\ HAt(0, lens, msgW, hpc, hn, digested)
  BY <1>1, <1>3 DEF GAt, HAt
<1> QED BY <1>3, <1>5, <1>6, <1>7, <1>8, <1>9, <1>10, <1>11 DEF Flow

-----------------------------------------------------------------------------
(* dup_strm, stage 1 *)

LEMMA DupReadFlagFlow ==
    ASSUME IsCall(lens, msgW), NEW d, NEW e, NEW g, NEW h, Flow(d, e, g, h), DupReadFlag
    PROVE  Flow(d, e, g, h)'
<1>1. /\ d1pc = "e" /\ end_nblk_strm # <<>> /\ end_nblk_strm' = Tail(end_nblk_strm)
      /\ e1' = Head(end_nblk_strm) /\ d1pc' = "mid_e"
  BY DEF DupReadFlag, Read
<1>2. UNCHANGED <<v1, nblk_strm, call, preVars, dup2Vars, genVars, digestVars, outVars,
                  midVars, copy1, copy2, blk_strm, w_strm>>
  BY DEF DupReadFlag
<1>3. d \in 0..Len(lens) /\ Len(lens) \in Nat
  BY CountsGrow DEF Flow, D1At
<1>4. D1Counts(d, d1pc') = D1Counts(d, d1pc) /\ D1FlagsOut(d, d1pc') = D1FlagsOut(d, d1pc)
  BY <1>1 DEF D1Counts, D1FlagsOut
<1>5. D1Flags(d, d1pc) = d /\ D1Flags(d, d1pc') = d + 1
  BY <1>1 DEF D1Flags
<1>6. /\ Head(end_nblk_strm) = Flags(lens)[d + 1]
      /\ Window(end_nblk_strm', Flags(lens), d + 1, FlagsSent(msg, ppc))
  <2>1. Window(end_nblk_strm, Flags(lens), d, FlagsSent(msg, ppc))
    BY <1>5 DEF Flow
  <2> QED BY <1>1, <2>1, WindowRead
<1>7. D1At(d, lens, d1pc', e1', v1')
  <2>1. Flags(lens)[d + 1] = (d + 1 = Len(lens) + 1)
    BY <1>3, FlagIs
  <2>2. (d + 1 = Len(lens) + 1) = (d = Len(lens))
    BY <1>3
  <2>3. e1' = (d = Len(lens))
    BY <1>1, <1>6, <2>1, <2>2, Zenon
  <2> QED BY <1>1, <1>3, <2>3 DEF D1At
<1> QED BY <1>2, <1>4, <1>5, <1>6, <1>7
        DEF Flow, call, preVars, dup2Vars, genVars, digestVars, outVars, midVars, copy1, copy2

LEMMA DupPassFlagFlow ==
    ASSUME IsCall(lens, msgW), NEW d, NEW e, NEW g, NEW h, Flow(d, e, g, h), DupPassFlag
    PROVE  Flow(d, e, g, h)'
<1>1. /\ d1pc = "mid_e" /\ mid_e' = Append(mid_e, e1) /\ d1pc' = IF e1 THEN "done" ELSE "v"
  BY DEF DupPassFlag, Write
<1>2. UNCHANGED <<e1, v1, mid_v, call, preVars, dup2Vars, genVars, digestVars, outVars,
                  preOut, copy1, copy2, blk_strm, w_strm>>
  BY DEF DupPassFlag
<1>3. d \in 0..Len(lens) /\ Len(lens) \in Nat /\ e1 = (d = Len(lens))
  BY <1>1, CountsGrow DEF Flow, D1At
<1>4. D1Counts(d, d1pc') = D1Counts(d, d1pc) /\ D1Flags(d, d1pc') = D1Flags(d, d1pc)
  BY <1>1 DEF D1Counts, D1Flags
<1>5. D1FlagsOut(d, d1pc) = d /\ D1FlagsOut(d, d1pc') = d + 1
  BY <1>1 DEF D1FlagsOut
<1>6. Window(mid_e', Flags(lens), D2Flags(e, d2pc), d + 1)
  <2>1. Window(mid_e, Flags(lens), D2Flags(e, d2pc), d)
    BY <1>5 DEF Flow
  <2>2. Flags(lens)[d + 1] = (d + 1 = Len(lens) + 1)
    BY <1>3, FlagIs
  <2>3. (d + 1 = Len(lens) + 1) = (d = Len(lens))
    BY <1>3
  <2>4. e1 = Flags(lens)[d + 1]
    BY <1>3, <2>2, <2>3, Zenon
  <2> QED BY <1>1, <2>1, <2>4, WindowWrite
<1>7. D1At(d, lens, d1pc', e1', v1')
  <2>1. CASE d = Len(lens)
    <3>1. d1pc' = "done"
      BY <1>1, <1>3, <2>1
    <3> QED BY <1>3, <2>1, <3>1 DEF D1At
  <2>2. CASE d # Len(lens)
    <3>1. d1pc' = "v"
      BY <1>1, <1>3, <2>2
    <3> QED BY <1>3, <2>2, <3>1 DEF D1At
  <2> QED BY <2>1, <2>2
<1> QED BY <1>2, <1>4, <1>5, <1>6, <1>7
        DEF Flow, call, preVars, dup2Vars, genVars, digestVars, outVars, preOut, copy1, copy2

LEMMA DupReadValueFlow ==
    ASSUME IsCall(lens, msgW), NEW d, NEW e, NEW g, NEW h, Flow(d, e, g, h), DupReadValue
    PROVE  Flow(d, e, g, h)'
<1>1. /\ d1pc = "v" /\ nblk_strm # <<>> /\ nblk_strm' = Tail(nblk_strm)
      /\ v1' = Head(nblk_strm) /\ d1pc' = "mid_v"
  BY DEF DupReadValue, Read
<1>2. UNCHANGED <<e1, end_nblk_strm, call, preVars, dup2Vars, genVars, digestVars, outVars,
                  midVars, copy1, copy2, blk_strm, w_strm>>
  BY DEF DupReadValue
<1>3. d \in 0..Len(lens) /\ d < Len(lens)
  BY <1>1 DEF Flow, D1At
<1>4. D1Flags(d, d1pc') = D1Flags(d, d1pc) /\ D1FlagsOut(d, d1pc') = D1FlagsOut(d, d1pc)
  BY <1>1 DEF D1Flags, D1FlagsOut
<1>5. D1Counts(d, d1pc) = d /\ D1Counts(d, d1pc') = d + 1
  BY <1>1 DEF D1Counts
<1>6. /\ Head(nblk_strm) = Counts(lens)[d + 1]
      /\ Window(nblk_strm', Counts(lens), d + 1, CountsSent(msg, ppc))
  <2>1. Window(nblk_strm, Counts(lens), d, CountsSent(msg, ppc))
    BY <1>5 DEF Flow
  <2> QED BY <1>1, <2>1, WindowRead
<1>7. D1At(d, lens, d1pc', e1', v1')
  BY <1>1, <1>3, <1>6 DEF D1At
<1> QED BY <1>2, <1>4, <1>5, <1>6, <1>7
        DEF Flow, call, preVars, dup2Vars, genVars, digestVars, outVars, midVars, copy1, copy2

LEMMA DupPassValueFlow ==
    ASSUME IsCall(lens, msgW), NEW d, NEW e, NEW g, NEW h, Flow(d, e, g, h), DupPassValue
    PROVE  Flow(d + 1, e, g, h)'
<1>1. /\ d1pc = "mid_v" /\ mid_v' = Append(mid_v, v1) /\ d1pc' = "e"
  BY DEF DupPassValue, Write
<1>2. UNCHANGED <<e1, v1, mid_e, call, preVars, dup2Vars, genVars, digestVars, outVars,
                  preOut, copy1, copy2, blk_strm, w_strm>>
  BY DEF DupPassValue
<1>3. d \in 0..Len(lens) /\ d < Len(lens) /\ Len(lens) \in Nat /\ v1 = Counts(lens)[d + 1]
  BY <1>1, CountsGrow DEF Flow, D1At
<1>4. /\ D1Flags(d + 1, d1pc') = D1Flags(d, d1pc) /\ D1FlagsOut(d + 1, d1pc') = D1FlagsOut(d, d1pc)
      /\ D1Counts(d + 1, d1pc') = D1Counts(d, d1pc)
  BY <1>1 DEF D1Flags, D1FlagsOut, D1Counts
<1>5. Window(mid_v', Counts(lens), D2Counts(e, d2pc), d + 1)
  <2>1. Window(mid_v, Counts(lens), D2Counts(e, d2pc), d)
    BY DEF Flow
  <2> QED BY <1>1, <1>3, <2>1, WindowWrite
<1>6. D1At(d + 1, lens, d1pc', e1', v1')
  BY <1>1, <1>3 DEF D1At
<1> QED BY <1>2, <1>4, <1>5, <1>6
        DEF Flow, call, preVars, dup2Vars, genVars, digestVars, outVars, preOut, copy1, copy2

-----------------------------------------------------------------------------
(* dup_strm, stage 2 *)

LEMMA DupFlagFlow ==
    ASSUME IsCall(lens, msgW), NEW d, NEW e, NEW g, NEW h, Flow(d, e, g, h), DupFlag
    PROVE  Flow(d, e, g, h)'
<1>1. /\ d2pc = "e" /\ mid_e # <<>> /\ mid_e' = Tail(mid_e) /\ d2pc' = IF Head(mid_e) THEN "end1" ELSE "v"
  BY DEF DupFlag, Read
<1>2. UNCHANGED <<v2, mid_v, call, preVars, dup1Vars, genVars, digestVars, outVars,
                  preOut, copy1, copy2, blk_strm, w_strm>>
  BY DEF DupFlag
<1>3. e \in 0..Len(lens) /\ Len(lens) \in Nat
  BY CountsGrow DEF Flow, D2At
<1>4. /\ D2Counts(e, d2pc') = D2Counts(e, d2pc) /\ D2Out1(e, d2pc') = D2Out1(e, d2pc)
      /\ D2Out2(e, d2pc') = D2Out2(e, d2pc) /\ D2Flag1(e, d2pc') = D2Flag1(e, d2pc)
      /\ D2Flag2(e, d2pc') = D2Flag2(e, d2pc)
  BY <1>1 DEF D2Counts, D2Out1, D2Out2, D2Flag1, D2Flag2
<1>5. D2Flags(e, d2pc) = e /\ D2Flags(e, d2pc') = e + 1
  BY <1>1 DEF D2Flags
<1>6. /\ Head(mid_e) = Flags(lens)[e + 1]
      /\ Window(mid_e', Flags(lens), e + 1, D1FlagsOut(d, d1pc))
  <2>1. Window(mid_e, Flags(lens), e, D1FlagsOut(d, d1pc))
    BY <1>5 DEF Flow
  <2> QED BY <1>1, <2>1, WindowRead
<1>7. D2At(e, lens, d2pc', v2')
  <2>1. Flags(lens)[e + 1] = (e + 1 = Len(lens) + 1)
    BY <1>3, FlagIs
  <2>2. CASE e = Len(lens)
    <3>1. d2pc' = "end1"
      BY <1>1, <1>6, <2>1, <2>2
    <3> QED BY <1>3, <2>2, <3>1 DEF D2At
  <2>3. CASE e # Len(lens)
    <3>1. ~(e + 1 = Len(lens) + 1)
      BY <1>3, <2>3
    <3>2. d2pc' = "v"
      BY <1>1, <1>6, <2>1, <3>1
    <3> QED BY <1>3, <2>3, <3>2 DEF D2At
  <2> QED BY <2>2, <2>3
<1> QED BY <1>2, <1>4, <1>5, <1>6, <1>7
        DEF Flow, call, preVars, dup1Vars, genVars, digestVars, outVars, preOut, copy1, copy2

LEMMA DupValueFlow ==
    ASSUME IsCall(lens, msgW), NEW d, NEW e, NEW g, NEW h, Flow(d, e, g, h), DupValue
    PROVE  Flow(d, e, g, h)'
<1>1. /\ d2pc = "v" /\ mid_v # <<>> /\ mid_v' = Tail(mid_v) /\ v2' = Head(mid_v) /\ d2pc' = "out1"
  BY DEF DupValue, Read
<1>2. UNCHANGED <<mid_e, call, preVars, dup1Vars, genVars, digestVars, outVars,
                  preOut, copy1, copy2, blk_strm, w_strm>>
  BY DEF DupValue
<1>3. e \in 0..Len(lens) /\ e < Len(lens)
  BY <1>1 DEF Flow, D2At
<1>4. /\ D2Flags(e, d2pc') = D2Flags(e, d2pc) /\ D2Out1(e, d2pc') = D2Out1(e, d2pc)
      /\ D2Out2(e, d2pc') = D2Out2(e, d2pc) /\ D2Flag1(e, d2pc') = D2Flag1(e, d2pc)
      /\ D2Flag2(e, d2pc') = D2Flag2(e, d2pc)
  BY <1>1 DEF D2Flags, D2Out1, D2Out2, D2Flag1, D2Flag2
<1>5. D2Counts(e, d2pc) = e /\ D2Counts(e, d2pc') = e + 1
  BY <1>1 DEF D2Counts
<1>6. Head(mid_v) = Counts(lens)[e + 1] /\ Window(mid_v', Counts(lens), e + 1, d)
  <2>1. Window(mid_v, Counts(lens), e, d)
    BY <1>5 DEF Flow
  <2> QED BY <1>1, <2>1, WindowRead
<1>7. D2At(e, lens, d2pc', v2')
  BY <1>1, <1>3, <1>6 DEF D2At
<1> QED BY <1>2, <1>4, <1>5, <1>6, <1>7
        DEF Flow, call, preVars, dup1Vars, genVars, digestVars, outVars, preOut, copy1, copy2

LEMMA DupOut1Flow ==
    ASSUME IsCall(lens, msgW), NEW d, NEW e, NEW g, NEW h, Flow(d, e, g, h), DupOut1
    PROVE  Flow(d, e, g, h)'
<1>1. d2pc = "out1" /\ nblk_strm1' = Append(nblk_strm1, v2) /\ d2pc' = "out2"
  BY DEF DupOut1, Write
<1>2. UNCHANGED <<v2, end_nblk_strm1, copy2, call, preVars, dup1Vars, genVars, digestVars, outVars,
                  preOut, midVars, blk_strm, w_strm>>
  BY DEF DupOut1
<1>3. e \in 0..Len(lens) /\ e < Len(lens) /\ v2 = Counts(lens)[e + 1]
  BY <1>1 DEF Flow, D2At
<1>4. /\ D2Flags(e, d2pc') = D2Flags(e, d2pc) /\ D2Counts(e, d2pc') = D2Counts(e, d2pc)
      /\ D2Out2(e, d2pc') = D2Out2(e, d2pc) /\ D2Flag1(e, d2pc') = D2Flag1(e, d2pc)
      /\ D2Flag2(e, d2pc') = D2Flag2(e, d2pc)
  BY <1>1 DEF D2Flags, D2Counts, D2Out2, D2Flag1, D2Flag2
<1>5. D2Out1(e, d2pc) = e /\ D2Out1(e, d2pc') = e + 1
  BY <1>1 DEF D2Out1
<1>6. Window(nblk_strm1', Counts(lens), GCounts(g, gpc), e + 1)
  <2>1. Window(nblk_strm1, Counts(lens), GCounts(g, gpc), e)
    BY <1>5 DEF Flow
  <2> QED BY <1>1, <1>3, <2>1, WindowWrite
<1>7. D2At(e, lens, d2pc', v2')
  BY <1>1, <1>2, <1>3 DEF D2At
<1> QED BY <1>2, <1>4, <1>5, <1>6, <1>7
        DEF Flow, call, preVars, dup1Vars, genVars, digestVars, outVars, preOut, midVars, copy2

LEMMA DupOut2Flow ==
    ASSUME IsCall(lens, msgW), NEW d, NEW e, NEW g, NEW h, Flow(d, e, g, h), DupOut2
    PROVE  Flow(d, e, g, h)'
<1>1. d2pc = "out2" /\ nblk_strm2' = Append(nblk_strm2, v2) /\ d2pc' = "flag1"
  BY DEF DupOut2, Write
<1>2. UNCHANGED <<v2, end_nblk_strm2, copy1, call, preVars, dup1Vars, genVars, digestVars, outVars,
                  preOut, midVars, blk_strm, w_strm>>
  BY DEF DupOut2
<1>3. e \in 0..Len(lens) /\ e < Len(lens) /\ v2 = Counts(lens)[e + 1]
  BY <1>1 DEF Flow, D2At
<1>4. /\ D2Flags(e, d2pc') = D2Flags(e, d2pc) /\ D2Counts(e, d2pc') = D2Counts(e, d2pc)
      /\ D2Out1(e, d2pc') = D2Out1(e, d2pc) /\ D2Flag1(e, d2pc') = D2Flag1(e, d2pc)
      /\ D2Flag2(e, d2pc') = D2Flag2(e, d2pc)
  BY <1>1 DEF D2Flags, D2Counts, D2Out1, D2Flag1, D2Flag2
<1>5. D2Out2(e, d2pc) = e /\ D2Out2(e, d2pc') = e + 1
  BY <1>1 DEF D2Out2
<1>6. Window(nblk_strm2', Counts(lens), HCounts(h, hpc), e + 1)
  <2>1. Window(nblk_strm2, Counts(lens), HCounts(h, hpc), e)
    BY <1>5 DEF Flow
  <2> QED BY <1>1, <1>3, <2>1, WindowWrite
<1>7. D2At(e, lens, d2pc', v2')
  BY <1>1, <1>2, <1>3 DEF D2At
<1> QED BY <1>2, <1>4, <1>5, <1>6, <1>7
        DEF Flow, call, preVars, dup1Vars, genVars, digestVars, outVars, preOut, midVars, copy1

LEMMA DupFlag1Flow ==
    ASSUME IsCall(lens, msgW), NEW d, NEW e, NEW g, NEW h, Flow(d, e, g, h), DupFlag1
    PROVE  Flow(d, e, g, h)'
<1>1. /\ d2pc \in {"flag1", "end1"} /\ end_nblk_strm1' = Append(end_nblk_strm1, d2pc = "end1")
      /\ d2pc' = IF d2pc = "end1" THEN "end2" ELSE "flag2"
  BY DEF DupFlag1, Write
<1>2. UNCHANGED <<v2, nblk_strm1, copy2, call, preVars, dup1Vars, genVars, digestVars, outVars,
                  preOut, midVars, blk_strm, w_strm>>
  BY DEF DupFlag1
<1>3. /\ e \in 0..Len(lens) /\ Len(lens) \in Nat
      /\ d2pc = "flag1" => e < Len(lens)
      /\ d2pc = "end1" => e = Len(lens)
  BY CountsGrow DEF Flow, D2At
<1>4. /\ D2Flags(e, d2pc') = D2Flags(e, d2pc) /\ D2Counts(e, d2pc') = D2Counts(e, d2pc)
      /\ D2Out1(e, d2pc') = D2Out1(e, d2pc) /\ D2Out2(e, d2pc') = D2Out2(e, d2pc)
      /\ D2Flag2(e, d2pc') = D2Flag2(e, d2pc)
  BY <1>1 DEF D2Flags, D2Counts, D2Out1, D2Out2, D2Flag2
<1>5. D2Flag1(e, d2pc) = e /\ D2Flag1(e, d2pc') = e + 1
  BY <1>1 DEF D2Flag1
<1>6. Window(end_nblk_strm1', Flags(lens), GFlags(g, gpc), e + 1)
  <2>1. Window(end_nblk_strm1, Flags(lens), GFlags(g, gpc), e)
    BY <1>5 DEF Flow
  <2>2. Flags(lens)[e + 1] = (e + 1 = Len(lens) + 1)
    BY <1>3, FlagIs
  <2>3. (e + 1 = Len(lens) + 1) <=> (d2pc = "end1")
    BY <1>1, <1>3
  <2>4. (d2pc = "end1") = Flags(lens)[e + 1]
    BY <2>2, <2>3, Zenon
  <2> QED BY <1>1, <2>1, <2>4, WindowWrite
<1>7. D2At(e, lens, d2pc', v2')
  BY <1>1, <1>3 DEF D2At
<1> QED BY <1>2, <1>4, <1>5, <1>6, <1>7
        DEF Flow, call, preVars, dup1Vars, genVars, digestVars, outVars, preOut, midVars, copy2

LEMMA DupFlag2Flow ==
    ASSUME IsCall(lens, msgW), NEW d, NEW e, NEW g, NEW h, Flow(d, e, g, h), DupFlag2,
           NEW f, f = IF d2pc = "end2" THEN e ELSE e + 1
    PROVE  Flow(d, f, g, h)'
<1>1. /\ d2pc \in {"flag2", "end2"} /\ end_nblk_strm2' = Append(end_nblk_strm2, d2pc = "end2")
      /\ d2pc' = IF d2pc = "end2" THEN "done" ELSE "e"
  BY DEF DupFlag2, Write
<1>2. UNCHANGED <<v2, nblk_strm2, copy1, call, preVars, dup1Vars, genVars, digestVars, outVars,
                  preOut, midVars, blk_strm, w_strm>>
  BY DEF DupFlag2
<1>3. /\ e \in 0..Len(lens) /\ Len(lens) \in Nat
      /\ d2pc = "flag2" => e < Len(lens)
      /\ d2pc = "end2" => e = Len(lens)
  BY CountsGrow DEF Flow, D2At
<1>4. /\ D2Flags(f, d2pc') = D2Flags(e, d2pc) /\ D2Counts(f, d2pc') = D2Counts(e, d2pc)
      /\ D2Out1(f, d2pc') = D2Out1(e, d2pc) /\ D2Out2(f, d2pc') = D2Out2(e, d2pc)
      /\ D2Flag1(f, d2pc') = D2Flag1(e, d2pc)
  BY <1>1 DEF D2Flags, D2Counts, D2Out1, D2Out2, D2Flag1
<1>5. D2Flag2(e, d2pc) = e /\ D2Flag2(f, d2pc') = e + 1
  BY <1>1 DEF D2Flag2
<1>6. Window(end_nblk_strm2', Flags(lens), HFlags(h, hpc), e + 1)
  <2>1. Window(end_nblk_strm2, Flags(lens), HFlags(h, hpc), e)
    BY <1>5 DEF Flow
  <2>2. Flags(lens)[e + 1] = (e + 1 = Len(lens) + 1)
    BY <1>3, FlagIs
  <2>3. (e + 1 = Len(lens) + 1) <=> (d2pc = "end2")
    BY <1>1, <1>3
  <2>4. (d2pc = "end2") = Flags(lens)[e + 1]
    BY <2>2, <2>3, Zenon
  <2> QED BY <1>1, <2>1, <2>4, WindowWrite
<1>7. D2At(f, lens, d2pc', v2')
  BY <1>1, <1>3 DEF D2At
<1> QED BY <1>2, <1>4, <1>5, <1>6, <1>7
        DEF Flow, call, preVars, dup1Vars, genVars, digestVars, outVars, preOut, midVars, copy1

-----------------------------------------------------------------------------
(* generateMsgSchedule *)

\* The numbers of the message a process is at.
LEMMA AtMessage ==
    ASSUME IsCall(lens, msgW), NEW k \in 0..Len(lens)
    PROVE  /\ Len(lens) \in Nat /\ BlocksBefore(lens, k + 1) \in Nat
           /\ k < Len(lens) => /\ k + 1 \in 1..Len(lens) /\ Counts(lens)[k + 1] = blk_num(lens[k + 1])
                               /\ Counts(lens)[k + 1] \in Nat \ {0}
                               /\ BlocksBefore(lens, (k + 1) + 1) = BlocksBefore(lens, k + 1) + Counts(lens)[k + 1]
<1>1. Growing(Counts(lens), Len(lens)) /\ Len(lens) \in Nat
  BY CountsGrow
<1>2. k + 1 \in 1..Len(lens) + 1
  BY <1>1
<1>3. BlocksBefore(lens, k + 1) \in Nat
  BY <1>1, <1>2 DEF Growing, BlocksBefore
<1>4. ASSUME k < Len(lens) PROVE k + 1 \in 1..Len(lens) /\ Counted(lens, k + 1)
  <2>1. k + 1 \in 1..Len(lens)
    BY <1>1, <1>4
  <2> QED BY <2>1, CountsGrow
<1> QED BY <1>1, <1>3, <1>4 DEF Counted

LEMMA GenFlagFlow ==
    ASSUME IsCall(lens, msgW), NEW d, NEW e, NEW g, NEW h, Flow(d, e, g, h), GenFlag
    PROVE  Flow(d, e, g, h)'
<1>1. /\ gpc = "end" /\ end_nblk_strm1 # <<>> /\ end_nblk_strm1' = Tail(end_nblk_strm1)
      /\ gpc' = IF Head(end_nblk_strm1) THEN "done" ELSE "n"
  BY DEF GenFlag, Read
<1>2. UNCHANGED <<gn, gblk, t, nblk_strm1, call, preVars, dup1Vars, dup2Vars, digestVars, outVars,
                  preOut, midVars, copy2, blk_strm, w_strm>>
  BY DEF GenFlag
<1>3. g \in 0..Len(lens) /\ Len(lens) \in Nat
  BY CountsGrow DEF Flow, GAt
<1>4. /\ GCounts(g, gpc') = GCounts(g, gpc) /\ GBlocks(lens, g, gpc', gn) = GBlocks(lens, g, gpc, gn)
      /\ GWords(lens, g, gpc', gn, t) = GWords(lens, g, gpc, gn, t)
  BY <1>1 DEF GCounts, GBlocks, GWords
<1>5. GFlags(g, gpc) = g /\ GFlags(g, gpc') = g + 1
  BY <1>1 DEF GFlags
<1>6. /\ Head(end_nblk_strm1) = Flags(lens)[g + 1]
      /\ Window(end_nblk_strm1', Flags(lens), g + 1, D2Flag1(e, d2pc))
  <2>1. Window(end_nblk_strm1, Flags(lens), g, D2Flag1(e, d2pc))
    BY <1>5 DEF Flow
  <2> QED BY <1>1, <2>1, WindowRead
<1>7. GAt(g, lens, msgW, gpc', gn, gblk, t)
  <2>1. Flags(lens)[g + 1] = (g + 1 = Len(lens) + 1)
    BY <1>3, FlagIs
  <2>2. CASE g = Len(lens)
    <3>1. gpc' = "done"
      BY <1>1, <1>6, <2>1, <2>2
    <3> QED BY <1>3, <2>2, <3>1 DEF GAt
  <2>3. CASE g # Len(lens)
    <3>1. ~(g + 1 = Len(lens) + 1)
      BY <1>3, <2>3
    <3>2. gpc' = "n"
      BY <1>1, <1>6, <2>1, <3>1
    <3> QED BY <1>3, <2>3, <3>2 DEF GAt
  <2> QED BY <2>2, <2>3
<1> QED BY <1>2, <1>4, <1>5, <1>6, <1>7
        DEF Flow, call, preVars, dup1Vars, dup2Vars, digestVars, outVars, preOut, midVars, copy2

LEMMA GenCountFlow ==
    ASSUME IsCall(lens, msgW), NEW d, NEW e, NEW g, NEW h, Flow(d, e, g, h), GenCount
    PROVE  Flow(d, e, g, h)'
<1> DEFINE C == Counts(lens)[g + 1]  y == BlocksBefore(lens, g + 1)
<1>1. /\ gpc = "n" /\ nblk_strm1 # <<>> /\ nblk_strm1' = Tail(nblk_strm1)
      /\ gn' = Head(nblk_strm1) /\ gpc' = "blk"
  BY DEF GenCount, Read
<1>2. UNCHANGED <<gblk, t, end_nblk_strm1, call, preVars, dup1Vars, dup2Vars, digestVars, outVars,
                  preOut, midVars, copy2, blk_strm, w_strm>>
  BY DEF GenCount
<1>3. g \in 0..Len(lens) /\ g < Len(lens)
  BY <1>1 DEF Flow, GAt
<1>4. C \in Nat \ {0} /\ y \in Nat
  BY <1>3, AtMessage
<1>5. GCounts(g, gpc) = g /\ GCounts(g, gpc') = g + 1 /\ GFlags(g, gpc') = GFlags(g, gpc)
  BY <1>1 DEF GCounts, GFlags
<1>6. gn' = C /\ Window(nblk_strm1', Counts(lens), g + 1, D2Out1(e, d2pc))
  <2>1. Window(nblk_strm1, Counts(lens), g, D2Out1(e, d2pc))
    BY <1>5 DEF Flow
  <2> QED BY <1>1, <2>1, WindowRead
<1>7. GBlocks(lens, g, gpc', gn') = GBlocks(lens, g, gpc, gn)
  <2>1. GBlocks(lens, g, gpc', gn') = y + (C - C) /\ GBlocks(lens, g, gpc, gn) = y
    BY <1>1, <1>6 DEF GBlocks
  <2> HIDE DEF C, y
  <2> QED BY <1>4, <2>1
<1>8. GWords(lens, g, gpc', gn', t) = GWords(lens, g, gpc, gn, t)
  BY <1>1, <1>7 DEF GWords
<1>9. GAt(g, lens, msgW, gpc', gn', gblk, t)
  BY <1>1, <1>3, <1>4, <1>6 DEF GAt
<1> QED BY <1>2, <1>5, <1>6, <1>7, <1>8, <1>9
        DEF Flow, call, preVars, dup1Vars, dup2Vars, digestVars, outVars, preOut, midVars, copy2

\* All blocks of a message are expanded.
LEMMA GenBlockEndsFlow ==
    ASSUME IsCall(lens, msgW), NEW d, NEW e, NEW g, NEW h, Flow(d, e, g, h), GenBlock, gn = 0
    PROVE  Flow(d, e, g + 1, h)'
<1> DEFINE C == Counts(lens)[g + 1]  y == BlocksBefore(lens, g + 1)
<1>1. gpc = "blk" /\ gpc' = "end"
  BY DEF GenBlock
<1>2. UNCHANGED <<gn, gblk, t, blk_strm, call, preVars, dup1Vars, dup2Vars, digestVars, outVars,
                  preOut, midVars, copy1, copy2, w_strm>>
  BY DEF GenBlock
<1>3. g \in 0..Len(lens) /\ g < Len(lens)
  BY <1>1 DEF Flow, GAt
<1>4. C \in Nat \ {0} /\ y \in Nat /\ BlocksBefore(lens, (g + 1) + 1) = y + C /\ Len(lens) \in Nat
  BY <1>3, AtMessage
<1>5. GCounts(g + 1, gpc') = GCounts(g, gpc) /\ GFlags(g + 1, gpc') = GFlags(g, gpc)
  BY <1>1 DEF GCounts, GFlags
<1>6. GBlocks(lens, g + 1, gpc', gn) = GBlocks(lens, g, gpc, gn)
  <2>1. GBlocks(lens, g + 1, gpc', gn) = y + C /\ GBlocks(lens, g, gpc, gn) = y + (C - 0)
    BY <1>1, <1>4 DEF GBlocks
  <2> HIDE DEF C, y
  <2> QED BY <1>4, <2>1
<1>7. GWords(lens, g + 1, gpc', gn, t) = GWords(lens, g, gpc, gn, t)
  BY <1>1, <1>6 DEF GWords
<1>8. GAt(g + 1, lens, msgW, gpc', gn, gblk, t)
  BY <1>1, <1>3, <1>4 DEF GAt
<1> QED BY <1>2, <1>5, <1>6, <1>7, <1>8
        DEF Flow, call, preVars, dup1Vars, dup2Vars, digestVars, outVars, preOut, midVars, copy1, copy2

\* A block is taken from the stream.
LEMMA GenBlockReadsFlow ==
    ASSUME IsCall(lens, msgW), NEW d, NEW e, NEW g, NEW h, Flow(d, e, g, h), GenBlock, gn # 0
    PROVE  Flow(d, e, g, h)'
<1> DEFINE C == Counts(lens)[g + 1]  y == BlocksBefore(lens, g + 1)  b == GBlocks(lens, g, gpc, gn)
<1>1. /\ gpc = "blk" /\ gpc' = "w" /\ blk_strm # <<>> /\ blk_strm' = Tail(blk_strm)
      /\ gblk' = Head(blk_strm) /\ gn' = gn - 1 /\ t' = 0
  BY DEF GenBlock, Read
<1>2. UNCHANGED <<call, preVars, dup1Vars, dup2Vars, digestVars, outVars,
                  preOut, midVars, copy1, copy2, w_strm>>
  BY DEF GenBlock
<1>3. g \in 0..Len(lens) /\ g < Len(lens) /\ gn \in 0..C
  BY <1>1 DEF Flow, GAt
<1>4. C \in Nat \ {0} /\ y \in Nat /\ Len(lens) \in Nat
  BY <1>3, AtMessage
<1>5. GCounts(g, gpc') = GCounts(g, gpc) /\ GFlags(g, gpc') = GFlags(g, gpc)
  BY <1>1 DEF GCounts, GFlags
<1>6. GBlocks(lens, g, gpc', gn') = b + 1 /\ b \in Nat
  <2>1. GBlocks(lens, g, gpc', gn') = y + (C - (gn - 1)) /\ b = y + (C - gn)
    BY <1>1 DEF GBlocks
  <2> HIDE DEF C, y, b
  <2> QED BY <1>3, <1>4, <2>1
<1>7. Head(blk_strm) = Blocks(lens, msgW)[b + 1] /\ Window(blk_strm', Blocks(lens, msgW), b + 1, BlocksSent(lens, msg, blk, ppc))
  <2>1. Window(blk_strm, Blocks(lens, msgW), b, BlocksSent(lens, msg, blk, ppc))
    BY DEF Flow
  <2> HIDE DEF b
  <2> QED BY <1>1, <2>1, WindowRead
<1>8. GWords(lens, g, gpc', gn', t') = GWords(lens, g, gpc, gn, t)
  <2>1. GWords(lens, g, gpc', gn', t') = ROUNDS * (GBlocks(lens, g, gpc', gn') - 1) + 0
    BY <1>1 DEF GWords
  <2>2. GWords(lens, g, gpc, gn, t) = ROUNDS * b
    BY <1>1 DEF GWords
  <2> HIDE DEF b
  <2>3. ROUNDS * b \in Nat
    BY <1>6, RoundsAre, SMT
  <2>4. (b + 1) - 1 = b
    BY <1>6
  <2> QED BY <1>6, <2>1, <2>2, <2>3, <2>4
<1>9. GAt(g, lens, msgW, gpc', gn', gblk', t')
  <2>1. 0 \in 0..ROUNDS - 1
    BY RoundsAre
  <2>2. gn' \in 0..C - 1
    <3> HIDE DEF C
    <3> QED BY <1>1, <1>3, <1>4
  <2>3. gblk' = Blocks(lens, msgW)[GBlocks(lens, g, gpc', gn')]
    BY <1>1, <1>6, <1>7
  <2> HIDE DEF b
  <2> QED BY <1>1, <1>3, <2>1, <2>2, <2>3 DEF GAt
<1> HIDE DEF b
<1> QED BY <1>2, <1>5, <1>6, <1>7, <1>8, <1>9
        DEF Flow, call, preVars, dup1Vars, dup2Vars, digestVars, outVars, preOut, midVars, copy1, copy2

LEMMA GenWordFlow ==
    ASSUME IsCall(lens, msgW), NEW d, NEW e, NEW g, NEW h, Flow(d, e, g, h), GenWord
    PROVE  Flow(d, e, g, h)'
<1> DEFINE C == Counts(lens)[g + 1]  y == BlocksBefore(lens, g + 1)  b == GBlocks(lens, g, gpc, gn)
           c == b - 1  x == ROUNDS * c
<1>0. ROUNDS \in Nat \ {0}
  BY RoundsAre
<1>1. /\ gpc = "w" /\ w_strm' = Append(w_strm, W(gblk, t)) /\ t' = t + 1
      /\ gpc' = IF t < ROUNDS - 1 THEN "w" ELSE "blk"
  BY DEF GenWord, Write, LastWord
<1>2. UNCHANGED <<gn, gblk, call, preVars, dup1Vars, dup2Vars, digestVars, outVars,
                  preOut, midVars, copy1, copy2, blk_strm>>
  BY DEF GenWord
<1>3. /\ g \in 0..Len(lens) /\ g < Len(lens) /\ gn \in 0..C - 1 /\ t \in 0..ROUNDS - 1
      /\ gblk = Blocks(lens, msgW)[b]
  BY <1>1 DEF Flow, GAt
<1>4. C \in Nat \ {0} /\ y \in Nat /\ Len(lens) \in Nat
  BY <1>3, AtMessage
<1>5. /\ GCounts(g, gpc') = GCounts(g, gpc) /\ GFlags(g, gpc') = GFlags(g, gpc)
      /\ GBlocks(lens, g, gpc', gn) = GBlocks(lens, g, gpc, gn)
  BY <1>1 DEF GCounts, GFlags, GBlocks
<1>6. c \in Nat /\ b = c + 1
  <2>1. b = y + (C - gn)
    BY <1>1 DEF GBlocks
  <2> HIDE DEF C, y, b
  <2> QED BY <1>3, <1>4, <2>1
<1>7. x \in Nat /\ ROUNDS * (c + 1) = x + ROUNDS
  <2> HIDE DEF c
  <2> QED BY <1>0, <1>6, SMT
<1>8. Schedule(lens, msgW)[x + t + 1] = W(gblk, t)
  <2> HIDE DEF b, c
  <2>1. Schedule(lens, msgW)[x + t + 1] = W(Blocks(lens, msgW)[c + 1], t)
    BY <1>3, <1>6, ScheduleIs
  <2> QED BY <1>3, <1>6, <2>1
<1>9. GWords(lens, g, gpc, gn, t) = x + t
  BY <1>1 DEF GWords
<1>10. GWords(lens, g, gpc', gn, t') = x + t + 1
  <2>1. CASE t < ROUNDS - 1
    <3>1. GWords(lens, g, gpc', gn, t') = x + (t + 1)
      BY <1>1, <1>5, <2>1 DEF GWords
    <3> HIDE DEF x
    <3> QED BY <1>3, <1>7, <3>1
  <2>2. CASE ~(t < ROUNDS - 1)
    <3>1. GWords(lens, g, gpc', gn, t') = ROUNDS * b
      BY <1>1, <1>5, <2>2 DEF GWords
    <3> HIDE DEF x, b, c
    <3>2. ROUNDS * b = x + ROUNDS
      BY <1>6, <1>7
    <3>3. t = ROUNDS - 1
      BY <1>0, <1>3, <2>2
    <3> QED BY <1>0, <1>7, <3>1, <3>2, <3>3
  <2> QED BY <2>1, <2>2
<1>11. Window(w_strm', Schedule(lens, msgW), HWords(lens, h, hpc, hn), x + t + 1)
  <2>1. Window(w_strm, Schedule(lens, msgW), HWords(lens, h, hpc, hn), x + t)
    BY <1>9 DEF Flow
  <2> HIDE DEF x
  <2> QED BY <1>1, <1>8, <2>1, WindowWrite
<1>12. GAt(g, lens, msgW, gpc', gn, gblk, t')
  <2>1. CASE t < ROUNDS - 1
    <3>1. gpc' = "w" /\ t' \in 0..ROUNDS - 1
      BY <1>0, <1>1, <1>3, <2>1
    <3> HIDE DEF c
    <3> QED BY <1>3, <1>5, <3>1 DEF GAt
  <2>2. CASE ~(t < ROUNDS - 1)
    <3>1. gpc' = "blk" /\ gn \in 0..C
      <4> HIDE DEF C
      <4> QED BY <1>1, <1>3, <1>4, <2>2
    <3> QED BY <1>3, <3>1 DEF GAt
  <2> QED BY <2>1, <2>2
<1> HIDE DEF b, c, x
<1> QED BY <1>2, <1>5, <1>10, <1>11, <1>12
        DEF Flow, call, preVars, dup1Vars, dup2Vars, digestVars, outVars, preOut, midVars, copy1, copy2

-----------------------------------------------------------------------------
(* sha256Digest *)

LEMMA RoundsOf ==
    ASSUME NEW a \in Nat, NEW b \in Nat
    PROVE  /\ ROUNDS * a \in Nat /\ ROUNDS * b \in Nat /\ b * ROUNDS = ROUNDS * b
           /\ ROUNDS * (a + b) = ROUNDS * a + ROUNDS * b
BY RoundsAre, SMT

LEMMA DigestFlagFlow ==
    ASSUME IsCall(lens, msgW), NEW d, NEW e, NEW g, NEW h, Flow(d, e, g, h), DigestFlag
    PROVE  Flow(d, e, g, h)'
<1>1. /\ hpc = "end" /\ end_nblk_strm2 # <<>> /\ end_nblk_strm2' = Tail(end_nblk_strm2)
      /\ hpc' = IF Head(end_nblk_strm2) THEN "finish" ELSE "n"
  BY DEF DigestFlag, Read
<1>2. UNCHANGED <<hn, digested, nblk_strm2, call, preVars, dup1Vars, dup2Vars, genVars, outVars,
                  preOut, midVars, copy1, blk_strm, w_strm>>
  BY DEF DigestFlag
<1>3. h \in 0..Len(lens) /\ Len(lens) \in Nat
  BY CountsGrow DEF Flow, HAt
<1>4. /\ HCounts(h, hpc') = HCounts(h, hpc) /\ HWords(lens, h, hpc', hn) = HWords(lens, h, hpc, hn)
      /\ HDigests(h, hpc') = HDigests(h, hpc) /\ HFlagsOut(h, hpc') = HFlagsOut(h, hpc)
  BY <1>1 DEF HCounts, HWords, HDigests, HFlagsOut
<1>5. HFlags(h, hpc) = h /\ HFlags(h, hpc') = h + 1
  BY <1>1 DEF HFlags
<1>6. /\ Head(end_nblk_strm2) = Flags(lens)[h + 1]
      /\ Window(end_nblk_strm2', Flags(lens), h + 1, D2Flag2(e, d2pc))
  <2>1. Window(end_nblk_strm2, Flags(lens), h, D2Flag2(e, d2pc))
    BY <1>5 DEF Flow
  <2> QED BY <1>1, <2>1, WindowRead
<1>7. HAt(h, lens, msgW, hpc', hn, digested)
  <2>1. Flags(lens)[h + 1] = (h + 1 = Len(lens) + 1)
    BY <1>3, FlagIs
  <2>2. CASE h = Len(lens)
    <3>1. hpc' = "finish"
      BY <1>1, <1>6, <2>1, <2>2
    <3> QED BY <1>3, <2>2, <3>1 DEF HAt
  <2>3. CASE h # Len(lens)
    <3>1. ~(h + 1 = Len(lens) + 1)
      BY <1>3, <2>3
    <3>2. hpc' = "n"
      BY <1>1, <1>6, <2>1, <3>1
    <3> QED BY <1>3, <2>3, <3>2 DEF HAt
  <2> QED BY <2>2, <2>3
<1> QED BY <1>2, <1>4, <1>5, <1>6, <1>7
        DEF Flow, call, preVars, dup1Vars, dup2Vars, genVars, outVars, preOut, midVars, copy1

LEMMA DigestCountFlow ==
    ASSUME IsCall(lens, msgW), NEW d, NEW e, NEW g, NEW h, Flow(d, e, g, h), DigestCount
    PROVE  Flow(d, e, g, h)'
<1> DEFINE C == Counts(lens)[h + 1]  y == BlocksBefore(lens, h + 1)
<1>1. /\ hpc = "n" /\ nblk_strm2 # <<>> /\ nblk_strm2' = Tail(nblk_strm2)
      /\ hn' = Head(nblk_strm2) * ROUNDS /\ digested' = <<>> /\ hpc' = "w"
  BY DEF DigestCount, Read, FreshState
<1>2. UNCHANGED <<end_nblk_strm2, call, preVars, dup1Vars, dup2Vars, genVars, outVars,
                  preOut, midVars, copy1, blk_strm, w_strm>>
  BY DEF DigestCount
<1>3. h \in 0..Len(lens) /\ h < Len(lens)
  BY <1>1 DEF Flow, HAt
<1>4. C \in Nat \ {0} /\ y \in Nat
  BY <1>3, AtMessage
<1>5. /\ HCounts(h, hpc) = h /\ HCounts(h, hpc') = h + 1 /\ HFlags(h, hpc') = HFlags(h, hpc)
      /\ HDigests(h, hpc') = HDigests(h, hpc) /\ HFlagsOut(h, hpc') = HFlagsOut(h, hpc)
  BY <1>1 DEF HCounts, HFlags, HDigests, HFlagsOut
<1>6. Head(nblk_strm2) = C /\ Window(nblk_strm2', Counts(lens), h + 1, D2Out2(e, d2pc))
  <2>1. Window(nblk_strm2, Counts(lens), h, D2Out2(e, d2pc))
    BY <1>5 DEF Flow
  <2> QED BY <1>1, <2>1, WindowRead
<1>7. hn' = ROUNDS * C /\ ROUNDS * C \in Nat /\ ROUNDS * y \in Nat
  <2> HIDE DEF C, y
  <2> QED BY <1>1, <1>4, <1>6, RoundsOf
<1>8. HWords(lens, h, hpc', hn') = ROUNDS * y /\ HWords(lens, h, hpc, hn) = ROUNDS * y
  <2>1. HWords(lens, h, hpc', hn') = ROUNDS * y + (ROUNDS * C - ROUNDS * C) /\ HWords(lens, h, hpc, hn) = ROUNDS * y
    BY <1>1, <1>7 DEF HWords
  <2> DEFINE u == ROUNDS * y  v == ROUNDS * C
  <2> HIDE DEF u, v
  <2>2. u + (v - v) = u
    BY <1>7 DEF u, v
  <2> QED BY <2>1, <2>2 DEF u, v
<1>9. HAt(h, lens, msgW, hpc', hn', digested')
  <2>1. Window(<<>>, Schedule(lens, msgW), ROUNDS * y, ROUNDS * y)
    BY <1>7, WindowEmpty
  <2>2. Window(digested', Schedule(lens, msgW), ROUNDS * y, HWords(lens, h, hpc', hn'))
    BY <1>1, <1>8, <2>1
  <2>3. hn' \in 0..ROUNDS * C
    <3> DEFINE v == ROUNDS * C
    <3> HIDE DEF v
    <3> QED BY <1>7 DEF v
  <2> QED BY <1>1, <1>3, <2>2, <2>3 DEF HAt
<1> QED BY <1>2, <1>5, <1>6, <1>8, <1>9
        DEF Flow, call, preVars, dup1Vars, dup2Vars, genVars, outVars, preOut, midVars, copy1

LEMMA DigestWordFlow ==
    ASSUME IsCall(lens, msgW), NEW d, NEW e, NEW g, NEW h, Flow(d, e, g, h), DigestWord
    PROVE  Flow(d, e, g, h)'
<1> DEFINE C == Counts(lens)[h + 1]  y == BlocksBefore(lens, h + 1)  u == ROUNDS * y  v == ROUNDS * C
           x == HWords(lens, h, hpc, hn)
<1>1. /\ hpc = "w" /\ hn > 0 /\ w_strm # <<>> /\ w_strm' = Tail(w_strm)
      /\ digested' = Append(digested, Head(w_strm)) /\ hn' = hn - 1 /\ hpc' = hpc
  BY DEF DigestWord, Read
<1>2. UNCHANGED <<call, preVars, dup1Vars, dup2Vars, genVars, outVars,
                  preOut, midVars, copy1, copy2, blk_strm>>
  BY DEF DigestWord
<1>3. /\ h \in 0..Len(lens) /\ h < Len(lens) /\ hn \in 0..v
      /\ Window(digested, Schedule(lens, msgW), u, x)
  BY <1>1 DEF Flow, HAt
<1>4. C \in Nat \ {0} /\ y \in Nat
  BY <1>3, AtMessage
<1>5. u \in Nat /\ v \in Nat
  <2> HIDE DEF C, y
  <2> QED BY <1>4, RoundsOf
<1>6. HWords(lens, h, hpc', hn') = x + 1
  <2>1. HWords(lens, h, hpc', hn') = u + (v - (hn - 1)) /\ x = u + (v - hn)
    BY <1>1 DEF HWords
  <2> HIDE DEF u, v, x
  <2> QED BY <1>3, <1>5, <2>1
<1> HIDE DEF u, v, x
<1>7. /\ Head(w_strm) = Schedule(lens, msgW)[x + 1]
      /\ Window(w_strm', Schedule(lens, msgW), x + 1, GWords(lens, g, gpc, gn, t))
  <2>1. Window(w_strm, Schedule(lens, msgW), x, GWords(lens, g, gpc, gn, t))
    BY DEF Flow, x
  <2> QED BY <1>1, <2>1, WindowRead
<1>8. Window(digested', Schedule(lens, msgW), u, x + 1)
  BY <1>1, <1>3, <1>7, WindowWrite
<1>9. HAt(h, lens, msgW, hpc', hn', digested')
  <2>1. hn' \in 0..v
    BY <1>1, <1>3, <1>5
  <2> QED BY <1>1, <1>3, <1>6, <1>8, <2>1 DEF HAt, u, v
<1>10. /\ HCounts(h, hpc') = HCounts(h, hpc) /\ HFlags(h, hpc') = HFlags(h, hpc)
       /\ HDigests(h, hpc') = HDigests(h, hpc) /\ HFlagsOut(h, hpc') = HFlagsOut(h, hpc)
  BY <1>1
<1> QED BY <1>2, <1>6, <1>7, <1>9, <1>10
        DEF Flow, call, preVars, dup1Vars, dup2Vars, genVars, outVars, preOut, midVars, copy1, copy2

\* All words of the blocks of message h + 1 were read: what is sent is its digest.
LEMMA DigestEmitFlow ==
    ASSUME IsCall(lens, msgW), NEW d, NEW e, NEW g, NEW h, Flow(d, e, g, h), DigestEmit
    PROVE  /\ Flow(d, e, g, h)' /\ h + 1 \in 1..Len(lens) /\ Len(hash_strm) = h
           /\ digested = Sha256(Message(lens, msgW, h + 1))
<1> DEFINE C == Counts(lens)[h + 1]  y == BlocksBefore(lens, h + 1)  u == ROUNDS * y  v == ROUNDS * C
           x == HWords(lens, h, hpc, hn)
<1>1. hpc = "w" /\ hn = 0 /\ hash_strm' = Append(hash_strm, digested) /\ hpc' = "flag"
  BY DEF DigestEmit
<1>2. UNCHANGED <<hn, digested, end_hash_strm, call, preVars, dup1Vars, dup2Vars, genVars,
                  preOut, midVars, copy1, copy2, blk_strm, w_strm>>
  BY DEF DigestEmit
<1>3. /\ h \in 0..Len(lens) /\ h < Len(lens)
      /\ Window(digested, Schedule(lens, msgW), u, x)
  BY <1>1 DEF Flow, HAt
<1>4. C \in Nat \ {0} /\ y \in Nat /\ h + 1 \in 1..Len(lens) /\ C = blk_num(lens[h + 1])
  BY <1>3, AtMessage
<1>5. u \in Nat /\ v \in Nat
  <2> HIDE DEF C, y
  <2> QED BY <1>4, RoundsOf
<1>6. x = u + v /\ HWords(lens, h, hpc', hn) = x
  <2>1. x = u + (v - 0) /\ HWords(lens, h, hpc', hn) = x
    BY <1>1 DEF HWords
  <2> HIDE DEF u, v, x
  <2> QED BY <1>5, <2>1
<1>7. digested = Sha256(Message(lens, msgW, h + 1))
  <2> HIDE DEF x
  <2>1. u = ROUNDS * BlocksBefore(lens, h + 1) /\ x = u + ROUNDS * blk_num(lens[h + 1])
    BY <1>4, <1>6
  <2> HIDE DEF u, v, C, y
  <2> QED BY <1>3, <1>4, <2>1, DigestIs
<1> HIDE DEF u, v, x
<1>8. HDigests(h, hpc) = h /\ HDigests(h, hpc') = h + 1
  BY <1>1 DEF HDigests
<1>9. Window(hash_strm', Digests(lens, msgW), 0, h + 1) /\ Len(hash_strm) = h
  <2>1. Window(hash_strm, Digests(lens, msgW), 0, h)
    BY <1>8 DEF Flow
  <2>2. Digests(lens, msgW)[h + 1] = Sha256(Message(lens, msgW, h + 1))
    BY <1>4 DEF Digests
  <2>3. Len(hash_strm) = h - 0
    BY <2>1, WindowLength
  <2> QED BY <1>1, <1>3, <1>7, <2>1, <2>2, <2>3, WindowWrite
<1>10. HAt(h, lens, msgW, hpc', hn, digested)
  BY <1>1, <1>3 DEF HAt
<1>11. /\ HCounts(h, hpc') = HCounts(h, hpc) /\ HFlags(h, hpc') = HFlags(h, hpc)
       /\ HFlagsOut(h, hpc') = HFlagsOut(h, hpc)
  BY <1>1 DEF HCounts, HFlags, HFlagsOut
<1>12. Flow(d, e, g, h)'
  BY <1>2, <1>6, <1>8, <1>9, <1>10, <1>11
     DEF x, Flow, call, preVars, dup1Vars, dup2Vars, genVars, preOut, midVars, copy1, copy2
<1> QED BY <1>4, <1>7, <1>9, <1>12

LEMMA DigestEndFlagFlow ==
    ASSUME IsCall(lens, msgW), NEW d, NEW e, NEW g, NEW h, Flow(d, e, g, h), DigestEndFlag,
           NEW f, f = IF hpc = "finish" THEN h ELSE h + 1
    PROVE  Flow(d, e, g, f)'
<1> DEFINE C == Counts(lens)[h + 1]  y == BlocksBefore(lens, h + 1)  u == ROUNDS * y  v == ROUNDS * C
<1>1. /\ hpc \in {"flag", "finish"} /\ end_hash_strm' = Append(end_hash_strm, hpc = "finish")
      /\ hpc' = IF hpc = "finish" THEN "done" ELSE "end"
  BY DEF DigestEndFlag
<1>2. UNCHANGED <<hn, digested, hash_strm, call, preVars, dup1Vars, dup2Vars, genVars,
                  preOut, midVars, copy1, copy2, blk_strm, w_strm>>
  BY DEF DigestEndFlag
<1>3. /\ h \in 0..Len(lens) /\ Len(lens) \in Nat
      /\ hpc = "flag" => h < Len(lens) /\ hn = 0
      /\ hpc = "finish" => h = Len(lens)
  BY CountsGrow DEF Flow, HAt
<1>4. /\ HCounts(f, hpc') = HCounts(h, hpc) /\ HFlags(f, hpc') = HFlags(h, hpc)
      /\ HDigests(f, hpc') = HDigests(h, hpc)
  BY <1>1 DEF HCounts, HFlags, HDigests
<1>5. HFlagsOut(h, hpc) = h /\ HFlagsOut(f, hpc') = h + 1
  BY <1>1 DEF HFlagsOut
<1>6. HWords(lens, f, hpc', hn) = HWords(lens, h, hpc, hn)
  <2>1. CASE hpc = "finish"
    BY <1>1, <2>1 DEF HWords
  <2>2. CASE hpc = "flag"
    <3>1. C \in Nat \ {0} /\ y \in Nat /\ BlocksBefore(lens, (h + 1) + 1) = y + C
      BY <1>3, <2>2, AtMessage
    <3>2. HWords(lens, f, hpc', hn) = ROUNDS * (y + C) /\ HWords(lens, h, hpc, hn) = u + (v - 0)
      BY <1>1, <1>3, <2>2, <3>1 DEF HWords
    <3>3. u \in Nat /\ v \in Nat /\ ROUNDS * (y + C) = u + v
      <4> HIDE DEF C, y
      <4> QED BY <3>1, RoundsOf
    <3> HIDE DEF u, v
    <3> QED BY <3>2, <3>3
  <2> QED BY <1>1, <2>1, <2>2
<1>7. Window(end_hash_strm', Flags(lens), 0, h + 1)
  <2>1. Window(end_hash_strm, Flags(lens), 0, h)
    BY <1>5 DEF Flow
  <2>2. Flags(lens)[h + 1] = (h + 1 = Len(lens) + 1)
    BY <1>3, FlagIs
  <2>3. (h + 1 = Len(lens) + 1) <=> (hpc = "finish")
    BY <1>1, <1>3
  <2>4. (hpc = "finish") = Flags(lens)[h + 1]
    BY <2>2, <2>3, Zenon
  <2> QED BY <1>1, <2>1, <2>4, WindowWrite
<1>8. HAt(f, lens, msgW, hpc', hn, digested)
  BY <1>1, <1>3 DEF HAt
<1> QED BY <1>2, <1>4, <1>5, <1>6, <1>7, <1>8
        DEF Flow, call, preVars, dup1Vars, dup2Vars, genVars, preOut, midVars, copy1, copy2

-----------------------------------------------------------------------------
(* preProcessing *)

LEMMA PreStartFlow ==
    ASSUME PreData, NEW d, NEW e, NEW g, NEW h, Flow(d, e, g, h), PreStart
    PROVE  Flow(d, e, g, h)'
<1>1. ppc = "end" /\ ppc' \in {"nblk", "finish"} /\ msg' = msg /\ blk' = blk
  BY DEF PreStart
<1>2. UNCHANGED <<call, dup1Vars, dup2Vars, genVars, digestVars, outVars,
                  preOut, midVars, copy1, copy2, blk_strm, w_strm>>
  BY DEF PreStart
<1>3. /\ FlagsSent(msg', ppc') = FlagsSent(msg, ppc) /\ CountsSent(msg', ppc') = CountsSent(msg, ppc)
      /\ BlocksSent(lens, msg', blk', ppc') = BlocksSent(lens, msg, blk, ppc)
  BY <1>1 DEF FlagsSent, CountsSent, BlocksSent
<1> QED BY <1>2, <1>3
        DEF Flow, call, dup1Vars, dup2Vars, genVars, digestVars, outVars, preOut, midVars, copy1, copy2

LEMMA PreAnnounceFlow ==
    ASSUME PreData, NEW d, NEW e, NEW g, NEW h, Flow(d, e, g, h), PreAnnounce
    PROVE  Flow(d, e, g, h)'
<1>1. /\ ppc = "nblk" /\ nblk_strm' = Append(nblk_strm, blk_num(lens[msg])) /\ ppc' = "end_nblk"
      /\ msg' = msg /\ blk' = blk
  BY DEF PreAnnounce, Write, len
<1>2. UNCHANGED <<end_nblk_strm, call, dup1Vars, dup2Vars, genVars, digestVars, outVars,
                  midVars, copy1, copy2, blk_strm, w_strm>>
  BY DEF PreAnnounce
<1>3. IsCall(lens, msgW) /\ msg \in 1..Len(lens)
  BY <1>1 DEF PreData
<1>4. /\ FlagsSent(msg', ppc') = FlagsSent(msg, ppc)
      /\ BlocksSent(lens, msg', blk', ppc') = BlocksSent(lens, msg, blk, ppc)
  BY <1>1 DEF FlagsSent, BlocksSent
<1>5. CountsSent(msg, ppc) = msg - 1 /\ CountsSent(msg', ppc') = (msg - 1) + 1
  BY <1>1, <1>3 DEF CountsSent
<1>6. Window(nblk_strm', Counts(lens), D1Counts(d, d1pc), (msg - 1) + 1)
  <2>1. Window(nblk_strm, Counts(lens), D1Counts(d, d1pc), msg - 1)
    BY <1>5 DEF Flow
  <2>2. Counts(lens)[msg] = blk_num(lens[msg]) /\ (msg - 1) + 1 = msg
    BY <1>3, CountsGrow DEF Counted
  <2>3. blk_num(lens[msg]) = Counts(lens)[(msg - 1) + 1]
    BY <2>2
  <2> QED BY <1>1, <2>1, <2>3, WindowWrite
<1> QED BY <1>2, <1>4, <1>5, <1>6
        DEF Flow, call, dup1Vars, dup2Vars, genVars, digestVars, outVars, midVars, copy1, copy2

LEMMA PreEndFlagFlow ==
    ASSUME PreData, NEW d, NEW e, NEW g, NEW h, Flow(d, e, g, h), PreEndFlag
    PROVE  Flow(d, e, g, h)'
<1>1. /\ ppc \in {"end_nblk", "finish"} /\ end_nblk_strm' = Append(end_nblk_strm, ppc = "finish")
      /\ ppc' = IF ppc = "finish" THEN "done" ELSE "fill"
      /\ msg' = msg /\ blk' = 1
  BY DEF PreEndFlag, Write
<1>2. UNCHANGED <<nblk_strm, call, dup1Vars, dup2Vars, genVars, digestVars, outVars,
                  midVars, copy1, copy2, blk_strm, w_strm>>
  BY DEF PreEndFlag
<1>3. /\ IsCall(lens, msgW) /\ msg \in 1..Len(lens) + 1
      /\ ppc = "end_nblk" => msg \in 1..Len(lens)
      /\ ppc = "finish" => msg = Len(lens) + 1
  BY DEF PreData
<1>4. Growing(Counts(lens), Len(lens)) /\ Len(lens) \in Nat
  BY <1>3, CountsGrow
<1>5. BlocksBefore(lens, msg) \in Nat
  BY <1>3, <1>4 DEF Growing, BlocksBefore
<1>6. /\ CountsSent(msg', ppc') = CountsSent(msg, ppc)
      /\ BlocksSent(lens, msg', blk', ppc') = BlocksSent(lens, msg, blk, ppc)
  <2>1. BlocksBefore(lens, msg) + (1 - 1) = BlocksBefore(lens, msg)
    BY <1>5
  <2> QED BY <1>1, <2>1 DEF CountsSent, BlocksSent
<1>7. FlagsSent(msg, ppc) = msg - 1 /\ FlagsSent(msg', ppc') = (msg - 1) + 1
  BY <1>1, <1>3, <1>4 DEF FlagsSent
<1>8. Window(end_nblk_strm', Flags(lens), D1Flags(d, d1pc), (msg - 1) + 1)
  <2>1. Window(end_nblk_strm, Flags(lens), D1Flags(d, d1pc), msg - 1)
    BY <1>7 DEF Flow
  <2>2. Flags(lens)[msg] = (msg = Len(lens) + 1) /\ (msg - 1) + 1 = msg
    BY <1>3, <1>4, FlagIs
  <2>3. (msg = Len(lens) + 1) <=> (ppc = "finish")
    BY <1>1, <1>3, <1>4
  <2>4. (ppc = "finish") = Flags(lens)[msg]
    BY <2>2, <2>3, Zenon
  <2>5. (ppc = "finish") = Flags(lens)[(msg - 1) + 1]
    BY <2>2, <2>4, Zenon
  <2> QED BY <1>1, <2>1, <2>5, WindowWrite
<1> QED BY <1>2, <1>6, <1>7, <1>8
        DEF Flow, call, dup1Vars, dup2Vars, genVars, digestVars, outVars, midVars, copy1, copy2

LEMMA PreFillFlow ==
    ASSUME PreData, NEW d, NEW e, NEW g, NEW h, Flow(d, e, g, h), PreFill
    PROVE  Flow(d, e, g, h)'
<1>1. ppc' = ppc /\ msg' = msg /\ blk' = blk
  BY DEF PreFill
<1>2. UNCHANGED <<call, dup1Vars, dup2Vars, genVars, digestVars, outVars,
                  preOut, midVars, copy1, copy2, blk_strm, w_strm>>
  BY DEF PreFill
<1> QED BY <1>1, <1>2
        DEF Flow, call, dup1Vars, dup2Vars, genVars, digestVars, outVars, preOut, midVars, copy1, copy2

LEMMA PreSendFlow ==
    ASSUME PreData, NEW d, NEW e, NEW g, NEW h, Flow(d, e, g, h), PreSend
    PROVE  Flow(d, e, g, h)'
<1> DEFINE C == blk_num(lens[msg])  y == BlocksBefore(lens, msg)  x == BlocksSent(lens, msg, blk, ppc)
<1>1. /\ M = BlockOf(lens, msgW, msg, blk) /\ blk \in 1..C
      /\ ppc = "fill" /\ msg \in 1..Len(lens)
      /\ \/ blk < C /\ blk' = blk + 1 /\ ppc' = ppc /\ msg' = msg
         \/ blk = C /\ ppc' = "end" /\ msg' = msg + 1
  BY PreSendData
<1>2. UNCHANGED <<call, dup1Vars, dup2Vars, genVars, digestVars, outVars,
                  preOut, midVars, copy1, copy2, w_strm>>
  BY DEF PreSend
<1>3. blk_strm' = Append(blk_strm, M)
  BY DEF PreSend, Write
<1>4. IsCall(lens, msgW)
  BY DEF PreData
<1>5. C \in Nat \ {0} /\ y \in Nat /\ BlocksBefore(lens, msg + 1) = y + C /\ Len(lens) \in Nat
  BY <1>1, <1>4, CountsGrow DEF Counted
<1>6. x \in Nat /\ x + 1 = y + blk /\ BlocksSent(lens, msg', blk', ppc') = x + 1
  <2>1. x = y + (blk - 1)
    BY <1>1 DEF BlocksSent
  <2>2. CASE blk < C /\ blk' = blk + 1 /\ ppc' = ppc /\ msg' = msg
    <3>1. BlocksSent(lens, msg', blk', ppc') = y + ((blk + 1) - 1)
      BY <1>1, <2>2 DEF BlocksSent
    <3> HIDE DEF x, y, C
    <3> QED BY <1>1, <1>5, <2>1, <3>1
  <2>3. CASE blk = C /\ ppc' = "end" /\ msg' = msg + 1
    <3>1. BlocksSent(lens, msg', blk', ppc') = y + C
      BY <1>5, <2>3 DEF BlocksSent
    <3> HIDE DEF x, y, C
    <3> QED BY <1>1, <1>5, <2>1, <2>3, <3>1
  <2> QED BY <1>1, <2>2, <2>3
<1>7. Blocks(lens, msgW)[x + 1] = M
  <2>1. Blocks(lens, msgW)[y + blk] = M
    BY <1>1, <1>4, BlocksAre
  <2> HIDE DEF x, y
  <2> QED BY <1>6, <2>1
<1>8. Window(blk_strm', Blocks(lens, msgW), GBlocks(lens, g, gpc, gn), x + 1)
  <2>1. Window(blk_strm, Blocks(lens, msgW), GBlocks(lens, g, gpc, gn), x)
    BY DEF Flow
  <2> HIDE DEF x
  <2> QED BY <1>3, <1>7, <2>1, WindowWrite
<1>9. FlagsSent(msg', ppc') = FlagsSent(msg, ppc) /\ CountsSent(msg', ppc') = CountsSent(msg, ppc)
  <2> HIDE DEF C
  <2> QED BY <1>1, <1>5 DEF FlagsSent, CountsSent
<1> HIDE DEF x
<1> QED BY <1>2, <1>6, <1>8, <1>9
        DEF Flow, call, dup1Vars, dup2Vars, genVars, digestVars, outVars, preOut, midVars, copy1, copy2

-----------------------------------------------------------------------------
(* All of it is kept by every step *)

FlowInv == PreData /\ \E d, e, g, h : Flow(d, e, g, h)

LEMMA FlowStep == FlowInv /\ [Next]_vars => FlowInv'
<1> SUFFICES ASSUME FlowInv, [Next]_vars PROVE FlowInv'
  OBVIOUS
<1>1. PICK d, e, g, h : Flow(d, e, g, h)
  BY DEF FlowInv
<1>2. PreData /\ IsCall(lens, msgW) /\ PreData'
  BY PreDataStep DEF FlowInv, PreData
<1> SUFFICES \E d0, e0, g0, h0 : Flow(d0, e0, g0, h0)'
  BY <1>2 DEF FlowInv
<1>3. CASE preProcessing
  BY <1>1, <1>2, <1>3, PreStartFlow, PreAnnounceFlow, PreEndFlagFlow, PreFillFlow, PreSendFlow DEF preProcessing
<1>4. CASE dupStage1
  BY <1>1, <1>2, <1>4, DupReadFlagFlow, DupPassFlagFlow, DupReadValueFlow, DupPassValueFlow DEF dupStage1
<1>5. CASE dupStage2
  <2>1. CASE DupFlag2
    <3>1. PICK f : f = IF d2pc = "end2" THEN e ELSE e + 1
      OBVIOUS
    <3>2. Flow(d, f, g, h)'
      BY <1>1, <1>2, <2>1, <3>1, DupFlag2Flow
    <3> QED BY <3>2
  <2> QED BY <1>1, <1>2, <1>5, <2>1, DupFlagFlow, DupValueFlow, DupOut1Flow, DupOut2Flow, DupFlag1Flow DEF dupStage2
<1>6. CASE generateMsgSchedule
  BY <1>1, <1>2, <1>6, GenFlagFlow, GenCountFlow, GenBlockEndsFlow, GenBlockReadsFlow, GenWordFlow
     DEF generateMsgSchedule
<1>7. CASE sha256Digest
  <2>1. CASE DigestEndFlag
    <3>1. PICK f : f = IF hpc = "finish" THEN h ELSE h + 1
      OBVIOUS
    <3>2. Flow(d, e, g, f)'
      BY <1>1, <1>2, <2>1, <3>1, DigestEndFlagFlow
    <3> QED BY <3>2
  <2> QED BY <1>1, <1>2, <1>7, <2>1, DigestFlagFlow, DigestCountFlow, DigestWordFlow, DigestEmitFlow DEF sha256Digest
<1>8. CASE UNCHANGED vars
  <2>1. Flow(d, e, g, h)'
    BY <1>1, <1>8
       DEF Flow, vars, call, preVars, dup1Vars, dup2Vars, genVars, digestVars, outVars, preOut, midVars, copy1, copy2
  <2> QED BY <2>1
<1> QED BY <1>3, <1>4, <1>5, <1>6, <1>7, <1>8 DEF Next, Finished

LEMMA FlowInvariance == Spec => []FlowInv
<1>1. Init => FlowInv
  BY InitPreData, FlowStarts DEF FlowInv
<1> QED BY <1>1, FlowStep, PTL DEF Spec

-----------------------------------------------------------------------------
(* What a call leaves behind *)

\* A FIFO of which all was read is empty.
LEMMA AllRead ==
    ASSUME NEW f, NEW S, NEW r, NEW w, Window(f, S, r, w), r = w
    PROVE  f = <<>>
BY WindowLength

LEMMA CallIsClean == FlowInv => NothingLeftBehind
<1> SUFFICES ASSUME FlowInv, Returned PROVE NothingLeftBehind
  BY DEF NothingLeftBehind
<1>1. PICK d, e, g, h : Flow(d, e, g, h)
  BY DEF FlowInv
<1>2. ppc = "done" /\ d1pc = "done" /\ d2pc = "done" /\ gpc = "done" /\ hpc = "done"
  BY DEF Returned
<1>3. IsCall(lens, msgW) /\ msg = Len(lens) + 1 /\ msgRead = WordAt(lens, msgW, msg) /\ Len(lens) \in Nat
  BY <1>2, CountsGrow DEF FlowInv, PreData
<1>4. d = Len(lens) /\ e = Len(lens) /\ g = Len(lens) /\ h = Len(lens)
  BY <1>1, <1>2 DEF Flow, D1At, D2At, GAt, HAt
<1> DEFINE N == Len(lens)  b == BlocksBefore(lens, N + 1)
<1>5. /\ D1Flags(d, d1pc) = N + 1 /\ D1Counts(d, d1pc) = N /\ D1FlagsOut(d, d1pc) = N + 1
      /\ FlagsSent(msg, ppc) = N + 1 /\ CountsSent(msg, ppc) = N /\ BlocksSent(lens, msg, blk, ppc) = b
  BY <1>2, <1>3, <1>4 DEF D1Flags, D1Counts, D1FlagsOut, FlagsSent, CountsSent, BlocksSent
<1>6. /\ D2Flags(e, d2pc) = N + 1 /\ D2Counts(e, d2pc) = N /\ D2Out1(e, d2pc) = N /\ D2Out2(e, d2pc) = N
      /\ D2Flag1(e, d2pc) = N + 1 /\ D2Flag2(e, d2pc) = N + 1
  BY <1>2, <1>4 DEF D2Flags, D2Counts, D2Out1, D2Out2, D2Flag1, D2Flag2
<1>7. /\ GFlags(g, gpc) = N + 1 /\ GCounts(g, gpc) = N /\ GBlocks(lens, g, gpc, gn) = b
      /\ GWords(lens, g, gpc, gn, t) = ROUNDS * b
  BY <1>2, <1>4 DEF GFlags, GCounts, GBlocks, GWords
<1>8. HFlags(h, hpc) = N + 1 /\ HCounts(h, hpc) = N /\ HWords(lens, h, hpc, hn) = ROUNDS * b
  BY <1>2, <1>4 DEF HFlags, HCounts, HWords
<1> HIDE DEF b
<1>9. end_nblk_strm = <<>> /\ nblk_strm = <<>>
  BY <1>1, <1>5, AllRead DEF Flow
<1>10. mid_e = <<>> /\ mid_v = <<>>
  BY <1>1, <1>4, <1>5, <1>6, AllRead DEF Flow
<1>11. end_nblk_strm1 = <<>> /\ nblk_strm1 = <<>>
  BY <1>1, <1>6, <1>7, AllRead DEF Flow
<1>12. end_nblk_strm2 = <<>> /\ nblk_strm2 = <<>>
  BY <1>1, <1>6, <1>8, AllRead DEF Flow
<1>13. blk_strm = <<>> /\ w_strm = <<>>
  BY <1>1, <1>5, <1>7, <1>8, AllRead DEF Flow
<1>14. msgRead = TotalWords
  <2>1. WordCounts(lens, msgW) = [k \in DOMAIN lens |-> WordsOf(lens[k])]
    BY DEF WordCounts, WordsIn, WordsOf, WordBytes
  <2> QED BY <1>3, <2>1 DEF TotalWords, FirstWord, WordAt
<1> QED BY <1>9, <1>10, <1>11, <1>12, <1>13, <1>14 DEF NothingLeftBehind

\* Once a call has returned, for messages of any number and length and streams
\* of any depth, every stream is empty and every word of the messages was read.
THEOREM NothingIsLeft == Spec => []NothingLeftBehind
BY FlowInvariance, CallIsClean, PTL

-----------------------------------------------------------------------------
(* The processes together are a hash function                              *)

\* The messages as the caller names them.
Sent == [m \in DOMAIN lens |-> [first |-> WordBytes * FirstWord(m), bytes |-> lens[m]]]

LEMMA SentIs ==
    ASSUME IsCall(lens, msgW)
    PROVE  Len(Sent) = Len(lens) /\ \A m \in 1..Len(lens) : Sent[m] = Message(lens, msgW, m)
<1>1. DOMAIN lens = 1..Len(lens) /\ Len(lens) \in Nat
  BY DEF IsCall
<1>2. WordCounts(lens, msgW) = [k \in DOMAIN lens |-> WordsOf(lens[k])] /\ WordBytes = msgW \div 8
  BY DEF WordCounts, WordsIn, WordsOf, WordBytes
<1>3. ASSUME NEW m \in 1..Len(lens) PROVE Sent[m] = Message(lens, msgW, m)
  <2>1. FirstWord(m) = WordAt(lens, msgW, m)
    BY <1>2 DEF FirstWord, WordAt
  <2>2. WordBytes * FirstWord(m) = ByteAt(lens, msgW, m)
    BY <1>2, <2>1 DEF ByteAt
  <2>3. Sent[m] = [first |-> WordBytes * FirstWord(m), bytes |-> lens[m]]
    BY <1>1 DEF Sent
  <2> QED BY <2>2, <2>3 DEF Message
<1>4. Len(Sent) = Len(lens)
  BY <1>1 DEF Sent
<1> QED BY <1>3, <1>4

\* What is not in a set is so by a value the abstract state can take.
LEMMA NotThere == ASSUME NEW S, NEW x, ~(x \in S) PROVE (x \in S) = FALSE
BY SMT

LEMMA There == ASSUME NEW S, NEW x, x \in S PROVE (x \in S) = TRUE
BY SMT

\* The end flag is out when the digest process is done.
EndFlagAt(f, pc) == TRUE \in Range(f) <=> pc = "done"

LEMMA EndedIs ==
    ASSUME NEW ls, Len(ls) \in Nat, NEW h \in 0..Len(ls), NEW pc, pc = "done" => h = Len(ls),
           NEW f, Window(f, Flags(ls), 0, HFlagsOut(h, pc))
    PROVE  EndFlagAt(f, pc)
<1> DEFINE n == HFlagsOut(h, pc)
<1>1. n = IF pc = "done" THEN h + 1 ELSE h
  BY DEF HFlagsOut
<1> HIDE DEF n
<1>2. n \in Nat /\ n - 0 = n
  BY <1>1
<1>3. f = [k \in 1..n |-> Flags(ls)[0 + k]]
  BY <1>2 DEF Window, n
<1>4. \A k \in 1..n : f[k] = (k = Len(ls) + 1)
  <2>1. ASSUME NEW k \in 1..n PROVE f[k] = (k = Len(ls) + 1)
    <3>1. k \in Nat /\ 0 + k = k
      BY <1>2
    <3>2. f[k] = Flags(ls)[k]
      BY <1>3, <3>1
    <3> QED BY <3>1, <3>2, FlagIs, Zenon
  <2> QED BY <2>1
<1>5. DOMAIN f = 1..n
  BY <1>3
<1>6. CASE pc = "done"
  <2>1. Len(ls) + 1 \in 1..n
    BY <1>1, <1>6
  <2>2. f[Len(ls) + 1] = TRUE
    BY <1>4, <2>1, Zenon
  <2> QED BY <1>5, <1>6, <2>1, <2>2, Zenon DEF Range, EndFlagAt
<1>7. CASE pc # "done"
  <2>1. \A k \in 1..n : k # Len(ls) + 1
    BY <1>1, <1>7
  <2>2. \A k \in 1..n : f[k] = FALSE
    BY <1>4, <2>1, Zenon
  <2> QED BY <1>5, <1>7, <2>2, Zenon DEF Range, EndFlagAt
<1> QED BY <1>6, <1>7, Zenon DEF EndFlagAt

\* No word is made of a block that was not sent.
LEMMA WordsOfSentBlocks ==
    ASSUME IsCall(lens, msgW), NEW d, NEW e, NEW g, NEW h, Flow(d, e, g, h), NEW k \in Nat,
           ROUNDS * k <= HWords(lens, h, hpc, hn)
    PROVE  k <= BlocksSent(lens, msg, blk, ppc)
<1> DEFINE b == GBlocks(lens, g, gpc, gn)  s == BlocksSent(lens, msg, blk, ppc)
           w == GWords(lens, g, gpc, gn, t)  r == HWords(lens, h, hpc, hn)
<1>0. ROUNDS \in Nat \ {0}
  BY RoundsAre
<1>1. b \in Nat /\ s \in Nat /\ b <= s
  <2>1. Window(blk_strm, Blocks(lens, msgW), b, s)
    BY DEF Flow
  <2> QED BY <2>1 DEF Window
<1>2. r \in Nat /\ w \in Nat /\ r <= w
  <2>1. Window(w_strm, Schedule(lens, msgW), r, w)
    BY DEF Flow
  <2> QED BY <2>1 DEF Window
<1>3. w <= ROUNDS * b
  <2>1. CASE gpc = "w"
    <3> DEFINE c == b - 1
    <3>1. w = ROUNDS * c + t /\ t \in 0..ROUNDS - 1
      BY <2>1 DEF GWords, Flow, GAt
    <3>2. c \in Nat
      <4>1. g \in 0..Len(lens) /\ g < Len(lens) /\ gn \in 0..Counts(lens)[g + 1] - 1
        BY <2>1 DEF Flow, GAt
      <4>2. Counts(lens)[g + 1] \in Nat /\ BlocksBefore(lens, g + 1) \in Nat
        BY <4>1, AtMessage
      <4>3. b = BlocksBefore(lens, g + 1) + (Counts(lens)[g + 1] - gn)
        BY <2>1 DEF GBlocks
      <4> HIDE DEF b
      <4> QED BY <4>1, <4>2, <4>3
    <3>3. b = c + 1
      <4> HIDE DEF b
      <4> QED BY <1>1
    <3> HIDE DEF c, b, w
    <3>4. ROUNDS * c \in Nat /\ ROUNDS * b = ROUNDS * c + ROUNDS
      BY <1>0, <3>2, <3>3, SMT
    <3> QED BY <1>0, <3>1, <3>4
  <2>2. CASE gpc # "w"
    <3>1. w = ROUNDS * b
      BY <2>2 DEF GWords
    <3> HIDE DEF w, b
    <3> QED BY <1>2, <3>1
  <2> QED BY <2>1, <2>2
<1> HIDE DEF b, s, w, r
<1>4. ROUNDS * k <= r
  BY DEF r
<1>5. k <= b
  <2> SUFFICES ASSUME b + 1 <= k PROVE FALSE
    BY <1>1
  <2>1. PICK z \in Nat : k = (b + 1) + z
    <3>1. k - (b + 1) \in Nat /\ k = (b + 1) + (k - (b + 1))
      BY <1>1
    <3> QED BY <3>1
  <2>2. ROUNDS * k = ROUNDS * b + ROUNDS + ROUNDS * z /\ ROUNDS * z \in Nat /\ ROUNDS * b \in Nat
    BY <1>0, <1>1, <2>1, SMT
  <2> QED BY <1>0, <1>2, <1>3, <1>4, <2>2
<1>6. k <= s
  BY <1>1, <1>5
<1> QED BY <1>6 DEF s

\* The digest of a message is made only after the message was read.
LEMMA DigestIsOfTaken ==
    ASSUME PreData, NEW d, NEW e, NEW g, NEW h, Flow(d, e, g, h), DigestEmit
    PROVE  h < msg - 1
<1>1. hpc = "w" /\ hn = 0
  BY DEF DigestEmit
<1>2. IsCall(lens, msgW) /\ msg \in 1..Len(lens) + 1
  BY DEF PreData
<1>3. h \in 0..Len(lens) /\ h < Len(lens)
  BY <1>1 DEF Flow, HAt
<1> DEFINE C == Counts(lens)[h + 1]  y == BlocksBefore(lens, h + 1)  k == BlocksBefore(lens, (h + 1) + 1)
           s == BlocksSent(lens, msg, blk, ppc)
<1>4. C \in Nat \ {0} /\ y \in Nat /\ k = y + C /\ Len(lens) \in Nat
  BY <1>2, <1>3, AtMessage
<1>5. k <= s
  <2>1. HWords(lens, h, hpc, hn) = ROUNDS * y + (ROUNDS * C - 0)
    BY <1>1 DEF HWords
  <2>2. ROUNDS * y \in Nat /\ ROUNDS * C \in Nat /\ ROUNDS * (y + C) = ROUNDS * y + ROUNDS * C
    <3> HIDE DEF C, y
    <3> QED BY <1>4, RoundsOf
  <2>3. k \in Nat /\ ROUNDS * k = ROUNDS * (y + C)
    <3> HIDE DEF C, y, k
    <3> QED BY <1>4
  <2> DEFINE u == ROUNDS * y  v == ROUNDS * C  z == ROUNDS * k
  <2> HIDE DEF u, v, z
  <2>4. z <= HWords(lens, h, hpc, hn)
    BY <2>1, <2>2, <2>3 DEF u, v, z
  <2> HIDE DEF C, y, k
  <2> QED BY <1>2, <2>3, <2>4, WordsOfSentBlocks DEF z
<1>6. Growing(Counts(lens), Len(lens))
  BY <1>2, CountsGrow
<1> SUFFICES ASSUME msg <= h + 1 PROVE FALSE
  BY <1>2, <1>3, <1>4
<1>7. msg \in 1..Len(lens) /\ h + 1 \in 1..Len(lens) + 1 /\ (h + 1) + 1 \in 1..Len(lens) + 1
      /\ msg \in 1..h + 1 /\ msg + 1 \in 1..(h + 1) + 1
  BY <1>2, <1>3, <1>4
<1>8. BlocksBefore(lens, msg) <= y /\ BlocksBefore(lens, msg + 1) <= k
  BY <1>6, <1>7 DEF Growing, BlocksBefore
<1>9. /\ BlocksBefore(lens, msg) \in Nat /\ blk_num(lens[msg]) \in Nat
      /\ BlocksBefore(lens, msg + 1) = BlocksBefore(lens, msg) + blk_num(lens[msg])
  BY <1>2, <1>7, CountsGrow DEF Counted
<1> HIDE DEF C, y, k
<1>10. CASE ppc = "fill"
  <2>1. blk \in 1..blk_num(lens[msg])
    BY <1>10 DEF PreData, Filling
  <2>2. s = BlocksBefore(lens, msg) + (blk - 1)
    BY <1>10 DEF BlocksSent
  <2> HIDE DEF s
  <2> QED BY <1>4, <1>5, <1>8, <1>9, <2>1, <2>2
<1>11. CASE ppc # "fill"
  <2>1. s = BlocksBefore(lens, msg)
    BY <1>11 DEF BlocksSent
  <2> HIDE DEF s
  <2> QED BY <1>4, <1>5, <1>8, <1>9, <2>1
<1> QED BY <1>10, <1>11

\* A step of the abstract specification, or none, as the caller sees it.
Stutters == Sent' = Sent /\ msg' = msg /\ hash_strm' = hash_strm
            /\ (TRUE \in Range(end_hash_strm))' = (TRUE \in Range(end_hash_strm))

LEMMA StutterMaps == Stutters => UNCHANGED Abstract!vars
BY DEF Stutters, Abstract!vars, Sent

LEMMA SentStays == UNCHANGED call => Sent' = Sent
BY DEF call, Sent, FirstWord, WordBytes, WordsOf

LEMMA HashStarts == Init => Abstract!Init
<1> SUFFICES ASSUME Init PROVE Abstract!Init
  OBVIOUS
<1>1. msg - 1 = 0 /\ hash_strm = <<>> /\ end_hash_strm = <<>>
  BY DEF Init
<1>2. DOMAIN << >> = {}
  OBVIOUS
<1>3. (TRUE \in Range(end_hash_strm)) = FALSE
  <2>1. DOMAIN end_hash_strm = {}
    BY <1>1, <1>2
  <2>2. ~(TRUE \in Range(end_hash_strm))
    BY <2>1, Zenon DEF Range
  <2> QED BY <2>2, NotThere, Zenon
<1> QED BY <1>1, <1>3 DEF Abstract!Init

LEMMA PreSendMaps == FlowInv /\ PreSend => Abstract!Take \/ UNCHANGED Abstract!vars
<1> SUFFICES ASSUME FlowInv, PreSend PROVE Abstract!Take \/ UNCHANGED Abstract!vars
  OBVIOUS
<1>1. /\ msg \in 1..Len(lens) /\ IsCall(lens, msgW) /\ Len(lens) \in Nat
      /\ msg' = msg \/ msg' = msg + 1
  BY PreSendData, CountsGrow DEF FlowInv, PreData
<1>2. Sent' = Sent
  BY SentStays DEF PreSend
<1>3. hash_strm' = hash_strm /\ end_hash_strm' = end_hash_strm
  BY DEF PreSend, outVars
<1>4. (TRUE \in Range(end_hash_strm))' = (TRUE \in Range(end_hash_strm))
  BY <1>3
<1>5. CASE msg' = msg
  BY <1>2, <1>3, <1>4, <1>5, StutterMaps DEF Stutters
<1>6. CASE msg' = msg + 1
  <2>1. msg - 1 < Len(Sent) /\ (msg - 1)' = (msg - 1) + 1
    BY <1>1, <1>6, SentIs
  <2> QED BY <1>2, <1>3, <1>4, <2>1 DEF Abstract!Take, Sent
<1> QED BY <1>1, <1>5, <1>6

LEMMA EmitMaps == FlowInv /\ DigestEmit => Abstract!Digest
<1> SUFFICES ASSUME FlowInv, DigestEmit PROVE Abstract!Digest
  OBVIOUS
<1>1. PICK d, e, g, h : Flow(d, e, g, h)
  BY DEF FlowInv
<1>2. PreData /\ IsCall(lens, msgW)
  BY DEF FlowInv, PreData
<1>3. /\ h + 1 \in 1..Len(lens) /\ Len(hash_strm) = h
      /\ digested = Sha256(Message(lens, msgW, h + 1)) /\ h < msg - 1
  BY <1>1, <1>2, DigestEmitFlow, DigestIsOfTaken
<1>4. Sent[Len(hash_strm) + 1] = Message(lens, msgW, h + 1)
  BY <1>2, <1>3, SentIs
<1>5. Sent' = Sent
  BY SentStays DEF DigestEmit
<1>6. msg' = msg /\ end_hash_strm' = end_hash_strm /\ hash_strm' = Append(hash_strm, digested)
  BY DEF DigestEmit, preVars
<1>7. (TRUE \in Range(end_hash_strm))' = (TRUE \in Range(end_hash_strm)) /\ (msg - 1)' = msg - 1
  BY <1>6
<1>8. hash_strm' = Append(hash_strm, Sha256(Sent[Len(hash_strm) + 1]))
  BY <1>3, <1>4, <1>6
<1> QED BY <1>3, <1>5, <1>7, <1>8 DEF Abstract!Digest, Sent

LEMMA EndFlagMaps == FlowInv /\ DigestEndFlag => Abstract!End \/ UNCHANGED Abstract!vars
<1> SUFFICES ASSUME FlowInv, DigestEndFlag PROVE Abstract!End \/ UNCHANGED Abstract!vars
  OBVIOUS
<1>1. PICK d, e, g, h : Flow(d, e, g, h)
  BY DEF FlowInv
<1>2. IsCall(lens, msgW) /\ Len(lens) \in Nat
  BY CountsGrow DEF FlowInv, PreData
<1>3. PICK f : f = IF hpc = "finish" THEN h ELSE h + 1
  OBVIOUS
<1>4. Flow(d, e, g, f)'
  BY <1>1, <1>2, <1>3, DigestEndFlagFlow
<1>5. /\ hpc \in {"flag", "finish"} /\ hpc' = IF hpc = "finish" THEN "done" ELSE "end"
      /\ msg' = msg /\ hash_strm' = hash_strm /\ lens' = lens
  BY DEF DigestEndFlag, call, preVars
<1>6. Sent' = Sent
  BY SentStays DEF DigestEndFlag
<1>7. (TRUE \in Range(end_hash_strm)) = FALSE
  <2>1. h \in 0..Len(lens) /\ Window(end_hash_strm, Flags(lens), 0, HFlagsOut(h, hpc))
    BY <1>1 DEF Flow, HAt
  <2>2. hpc # "done"
    BY <1>5
  <2>3. EndFlagAt(end_hash_strm, hpc)
    BY <1>2, <2>1, <2>2, EndedIs
  <2>4. ~(TRUE \in Range(end_hash_strm))
    BY <2>2, <2>3, Zenon DEF EndFlagAt
  <2> QED BY <2>4, NotThere, Zenon
<1>8. EndFlagAt(end_hash_strm', hpc')
  <2>1. f \in 0..Len(lens) /\ (hpc' = "done" => f = Len(lens))
        /\ Window(end_hash_strm', Flags(lens), 0, HFlagsOut(f, hpc'))
    BY <1>4, <1>5 DEF Flow, HAt
  <2> QED BY <1>2, <2>1, EndedIs
<1>9. CASE hpc = "flag"
  <2>1. hpc' # "done"
    BY <1>5, <1>9
  <2>2. ~(TRUE \in Range(end_hash_strm'))
    BY <1>8, <2>1, Zenon DEF EndFlagAt
  <2>3. (TRUE \in Range(end_hash_strm')) = FALSE
    BY <2>2, NotThere, Zenon
  <2>4. (TRUE \in Range(end_hash_strm))' = (TRUE \in Range(end_hash_strm))
    BY <1>7, <2>3, Zenon
  <2> QED BY <1>5, <1>6, <2>4, StutterMaps DEF Stutters
<1>10. CASE hpc = "finish"
  <2>1. hpc' = "done"
    BY <1>5, <1>10
  <2>2. TRUE \in Range(end_hash_strm')
    BY <1>8, <2>1, Zenon DEF EndFlagAt
  <2>5. (TRUE \in Range(end_hash_strm))' = TRUE /\ ~(TRUE \in Range(end_hash_strm))
    BY <1>7, <2>2, There, Zenon
  <2>3. Len(hash_strm) = Len(Sent)
    <3>1. h = Len(lens) /\ Window(hash_strm, Digests(lens, msgW), 0, HDigests(h, hpc))
      BY <1>1, <1>10 DEF Flow, HAt
    <3>2. HDigests(h, hpc) = h
      BY <1>10 DEF HDigests
    <3>3. Len(hash_strm) = h - 0
      BY <3>1, <3>2, WindowLength
    <3> QED BY <1>2, <3>1, <3>3, SentIs
  <2>4. (msg - 1)' = msg - 1
    BY <1>5
  <2> QED BY <1>5, <1>6, <2>3, <2>4, <2>5 DEF Abstract!End, Sent
<1> QED BY <1>5, <1>9, <1>10

LEMMA StepMaps == FlowInv /\ [Next]_vars => [Abstract!Next]_(Abstract!vars)
<1> SUFFICES ASSUME FlowInv, [Next]_vars PROVE Abstract!Next \/ UNCHANGED Abstract!vars
  OBVIOUS
<1>1. CASE PreSend
  BY <1>1, PreSendMaps DEF Abstract!Next
<1>2. CASE DigestEmit
  BY <1>2, EmitMaps DEF Abstract!Next
<1>3. CASE DigestEndFlag
  BY <1>3, EndFlagMaps DEF Abstract!Next
<1>4. CASE UNCHANGED <<call, msg, hash_strm, end_hash_strm>>
  <2>1. Sent' = Sent
    BY <1>4, SentStays
  <2>2. msg' = msg /\ hash_strm' = hash_strm /\ end_hash_strm' = end_hash_strm
    BY <1>4
  <2>3. (TRUE \in Range(end_hash_strm))' = (TRUE \in Range(end_hash_strm))
    BY <2>2
  <2> QED BY <2>1, <2>2, <2>3, StutterMaps DEF Stutters
<1>5. CASE preProcessing /\ ~PreSend
  <2>1. UNCHANGED <<call, msg, hash_strm, end_hash_strm>>
    BY <1>5 DEF preProcessing, PreStart, PreAnnounce, PreEndFlag, PreFill, call, outVars
  <2> QED BY <1>4, <2>1
<1>6. CASE dupStage1
  <2>1. UNCHANGED <<call, msg, hash_strm, end_hash_strm>>
    BY <1>6 DEF dupStage1, DupReadFlag, DupPassFlag, DupReadValue, DupPassValue, call, preVars, outVars
  <2> QED BY <1>4, <2>1
<1>7. CASE dupStage2
  <2>1. UNCHANGED <<call, msg, hash_strm, end_hash_strm>>
    BY <1>7 DEF dupStage2, DupFlag, DupValue, DupOut1, DupOut2, DupFlag1, DupFlag2, call, preVars, outVars
  <2> QED BY <1>4, <2>1
<1>8. CASE generateMsgSchedule
  <2>1. UNCHANGED <<call, msg, hash_strm, end_hash_strm>>
    BY <1>8 DEF generateMsgSchedule, GenFlag, GenCount, GenBlock, GenWord, call, preVars, outVars
  <2> QED BY <1>4, <2>1
<1>9. CASE DigestFlag \/ DigestCount \/ DigestWord
  <2>1. UNCHANGED <<call, msg, hash_strm, end_hash_strm>>
    BY <1>9 DEF DigestFlag, DigestCount, DigestWord, call, preVars, outVars
  <2> QED BY <1>4, <2>1
<1>10. CASE UNCHANGED vars
  <2>1. UNCHANGED <<call, msg, hash_strm, end_hash_strm>>
    BY <1>10 DEF vars, call, preVars, outVars
  <2> QED BY <1>4, <2>1
<1> QED BY <1>1, <1>2, <1>3, <1>5, <1>6, <1>7, <1>8, <1>9, <1>10 DEF Next, sha256Digest, Finished

\* For messages of any number and length, words of either width and streams of
\* any depth, the processes are a hash function: the digest of each message is
\* made of its padded blocks, in order, after it was read, then the end flag.
THEOREM HashesTheMessages == Spec => IsHashFunction
<1>1. Spec => []FlowInv
  BY FlowInvariance
<1>2. Init => Abstract!Init
  BY HashStarts
<1>3. FlowInv /\ [Next]_vars => [Abstract!Next]_(Abstract!vars)
  BY StepMaps
<1> QED BY <1>1, <1>2, <1>3, PTL DEF Spec, IsHashFunction, Abstract!Spec
=============================================================================
