---------------------------- MODULE Sha256Dataflow ----------------------------
(***************************************************************************)
(* sha256_top (sha224_256.hpp): preProcessing pads the messages into       *)
(* blocks, dup_strm copies the block counts for the two processes behind   *)
(* it, generateMsgSchedule expands a block into the words of its rounds,   *)
(* and sha256Digest consumes them.  The count of a message takes two ways  *)
(* to two processes that wait for each other: the digest for the words,    *)
(* the schedule for room on w_strm.                                        *)
(*                                                                         *)
(* The caller's streams hold all the messages when the call starts, as the *)
(* test's do: a message is its length, and its bytes are numbered through  *)
(* all the messages.  The rounds' arithmetic is left out: a digest is the  *)
(* sequence of the words that went into it.                                *)
(***************************************************************************)
EXTENDS Sha256Padding

CONSTANTS ROUNDS,       \* words of the schedule of a block       (64)
          BlkDepth,     \* depth of blk_strm                     (128)
          NblkDepth,    \* depth of nblk_strm*, end_nblk_strm*    (64)
          MidDepth,     \* depth of dup_mid_v and dup_mid_e        (8)
          WDepth,       \* depth of w_strm                       (160)
          AloneLens,    \* lengths of the message of a call of one
          MsgLens,      \* lengths of the messages of a call of several
          MaxMessages,  \* messages of a call
          MaxBlocks     \* blocks of a call

ASSUME DataflowAssumption ==
    /\ ROUNDS \in Nat /\ ROUNDS >= BLOCK_WORDS
    /\ {BlkDepth, NblkDepth, MidDepth, WDepth} \subseteq Nat \ {0}
    /\ AloneLens \cup MsgLens \subseteq Nat /\ {MaxMessages, MaxBlocks} \subseteq Nat

VARIABLES
    lens, msgW,                                 \* the messages, the bits of a word of msg_strm
    \* preProcessing
    ppc, msg, blk, i, M, msgRead,
    \* dup_strm: its two stages
    d1pc, d2pc, e1, v1, v2,
    \* generateMsgSchedule
    gpc, gn, gblk, t,
    \* sha256Digest
    hpc, hn, digested,
    \* the streams between them
    nblk_strm, end_nblk_strm, mid_v, mid_e,
    nblk_strm1, end_nblk_strm1, nblk_strm2, end_nblk_strm2, blk_strm, w_strm,
    \* what the caller gets
    hash_strm, end_hash_strm

call == <<lens, msgW>>
preVars == <<ppc, msg, blk, i, M, msgRead>>
dup1Vars == <<d1pc, e1, v1>>
dup2Vars == <<d2pc, v2>>
genVars == <<gpc, gn, gblk, t>>
digestVars == <<hpc, hn, digested>>
outVars == <<hash_strm, end_hash_strm>>
preOut == <<nblk_strm, end_nblk_strm>>
midVars == <<mid_v, mid_e>>
copy1 == <<nblk_strm1, end_nblk_strm1>>
copy2 == <<nblk_strm2, end_nblk_strm2>>
vars == <<call, preVars, dup1Vars, dup2Vars, genVars, digestVars, outVars,
          preOut, midVars, copy1, copy2, blk_strm, w_strm>>

Room(fifo, depth) == Len(fifo) < depth
Write(fifo, fifoNext, depth, x) == Room(fifo, depth) /\ fifoNext = Append(fifo, x)
Read(fifo, fifoNext) == fifo # <<>> /\ fifoNext = Tail(fifo)

\* The words of the message stream a message of len bytes takes, and where
\* the words of message m start.
WordBytes == msgW \div 8
WordsOf(len) == (len + WordBytes - 1) \div WordBytes
Before(counts, m) == LET sum[k \in 1..m] == IF k = 1 THEN 0 ELSE sum[k - 1] + counts[k - 1]
                     IN  sum[m]
FirstWord(m) == Before([k \in DOMAIN lens |-> WordsOf(lens[k])], m)

\* Word p of the message stream; bytes behind a message's last are junk.
Junk == -1
MessageAt(p) == CHOOSE m \in DOMAIN lens : FirstWord(m) <= p /\ p < FirstWord(m + 1)
StreamWord(p) == LET end == WordBytes * FirstWord(MessageAt(p)) + lens[MessageAt(p)]
                     last == WordBytes * (p + 1)
                 IN  [k \in 1..WordBytes |-> IF last - k < end THEN 256 + last - k ELSE Junk]
TotalWords == FirstWord(Len(lens) + 1)

-----------------------------------------------------------------------------
(* The start of a call *)

Init == /\ lens \in BoundedSeq(MsgLens, MaxMessages) \cup {<<n>> : n \in AloneLens}
        /\ Before([k \in DOMAIN lens |-> blk_num(lens[k])], Len(lens) + 1) <= MaxBlocks
        /\ msgW \in {32, 64}
        /\ ppc = "end" /\ msg = 1 /\ blk = 1 /\ i = 0 /\ M = <<>> /\ msgRead = 0
        /\ d1pc = "e" /\ e1 = FALSE /\ v1 = 0 /\ d2pc = "e" /\ v2 = 0
        /\ gpc = "end" /\ gn = 0 /\ gblk = <<>> /\ t = 0
        /\ hpc = "end" /\ hn = 0 /\ digested = <<>>
        /\ nblk_strm = <<>> /\ end_nblk_strm = <<>> /\ mid_v = <<>> /\ mid_e = <<>>
        /\ nblk_strm1 = <<>> /\ end_nblk_strm1 = <<>>
        /\ nblk_strm2 = <<>> /\ end_nblk_strm2 = <<>>
        /\ blk_strm = <<>> /\ w_strm = <<>>
        /\ hash_strm = <<>> /\ end_hash_strm = <<>>

-----------------------------------------------------------------------------
(* preProcessing *)

len == lens[msg]
kind == SentBlocks(len)[blk]

\* The end flag and the length of the next message, or the end of the call.
PreStart == /\ ppc = "end"
            /\ ppc' = IF msg <= Len(lens) THEN "nblk" ELSE "finish"
            /\ UNCHANGED <<call, msg, blk, i, M, msgRead>>
            /\ UNCHANGED <<dup1Vars, dup2Vars, genVars, digestVars, outVars,
                           preOut, midVars, copy1, copy2, blk_strm, w_strm>>

PreAnnounce == /\ ppc = "nblk"
               /\ Write(nblk_strm, nblk_strm', NblkDepth, blk_num(len))
               /\ ppc' = "end_nblk"
               /\ UNCHANGED <<call, msg, blk, i, M, msgRead, end_nblk_strm>>
               /\ UNCHANGED <<dup1Vars, dup2Vars, genVars, digestVars, outVars,
                              midVars, copy1, copy2, blk_strm, w_strm>>

PreEndFlag == /\ ppc \in {"end_nblk", "finish"}
              /\ Write(end_nblk_strm, end_nblk_strm', NblkDepth, ppc = "finish")
              /\ ppc' = IF ppc = "finish" THEN "done" ELSE "fill"
              /\ blk' = 1 /\ i' = 0 /\ M' = <<>>
              /\ UNCHANGED <<call, msg, msgRead, nblk_strm>>
              /\ UNCHANGED <<dup1Vars, dup2Vars, genVars, digestVars, outVars,
                             midVars, copy1, copy2, blk_strm, w_strm>>

\* Step i of the loop that fills a block: one word of it, or two with a wide stream.
Steps == BLOCK_WORDS \div (msgW \div 32)
Reads == IF msgW = 32 THEN Reads32(kind, len, i) ELSE Reads64(kind, len, i)
Filled(l) == IF msgW = 32 THEN <<M32(kind, len, i, l)>> ELSE M64(kind, len, i, l)

\* From the message, or padding.
PreFill == /\ ppc = "fill" /\ i < Steps
           /\ Reads => msgRead < TotalWords
           /\ M' = M \o Filled(IF Reads THEN StreamWord(msgRead) ELSE Zero \o Zero)
           /\ msgRead' = IF Reads THEN msgRead + 1 ELSE msgRead
           /\ i' = i + 1
           /\ UNCHANGED <<call, ppc, msg, blk>>
           /\ UNCHANGED <<dup1Vars, dup2Vars, genVars, digestVars, outVars,
                          preOut, midVars, copy1, copy2, blk_strm, w_strm>>

PreSend == /\ ppc = "fill" /\ i = Steps
           /\ Write(blk_strm, blk_strm', BlkDepth, M)
           /\ i' = 0 /\ M' = <<>>
           /\ IF blk < Len(SentBlocks(len))
              THEN blk' = blk + 1 /\ UNCHANGED <<ppc, msg>>
              ELSE ppc' = "end" /\ msg' = msg + 1 /\ blk' = 1
           /\ UNCHANGED <<call, msgRead>>
           /\ UNCHANGED <<dup1Vars, dup2Vars, genVars, digestVars, outVars,
                          preOut, midVars, copy1, copy2, w_strm>>

preProcessing == PreStart \/ PreAnnounce \/ PreEndFlag \/ PreFill \/ PreSend

-----------------------------------------------------------------------------
(* dup_strm *)

\* Stage 1: the flag, and the value when it is not the end.
DupReadFlag == /\ d1pc = "e"
               /\ Read(end_nblk_strm, end_nblk_strm')
               /\ e1' = Head(end_nblk_strm) /\ d1pc' = "mid_e"
               /\ UNCHANGED <<call, v1, nblk_strm>>
               /\ UNCHANGED <<preVars, dup2Vars, genVars, digestVars, outVars,
                              midVars, copy1, copy2, blk_strm, w_strm>>

DupPassFlag == /\ d1pc = "mid_e"
               /\ Write(mid_e, mid_e', MidDepth, e1)
               /\ d1pc' = IF e1 THEN "done" ELSE "v"
               /\ UNCHANGED <<call, e1, v1, mid_v>>
               /\ UNCHANGED <<preVars, dup2Vars, genVars, digestVars, outVars,
                              preOut, copy1, copy2, blk_strm, w_strm>>

DupReadValue == /\ d1pc = "v"
                /\ Read(nblk_strm, nblk_strm')
                /\ v1' = Head(nblk_strm) /\ d1pc' = "mid_v"
                /\ UNCHANGED <<call, e1, end_nblk_strm>>
                /\ UNCHANGED <<preVars, dup2Vars, genVars, digestVars, outVars,
                               midVars, copy1, copy2, blk_strm, w_strm>>

DupPassValue == /\ d1pc = "mid_v"
                /\ Write(mid_v, mid_v', MidDepth, v1)
                /\ d1pc' = "e"
                /\ UNCHANGED <<call, e1, v1, mid_e>>
                /\ UNCHANGED <<preVars, dup2Vars, genVars, digestVars, outVars,
                               preOut, copy1, copy2, blk_strm, w_strm>>

dupStage1 == DupReadFlag \/ DupPassFlag \/ DupReadValue \/ DupPassValue

\* Stage 2: each value twice, then its flag twice; the end flag twice.
DupFlag == /\ d2pc = "e"
           /\ Read(mid_e, mid_e')
           /\ d2pc' = IF Head(mid_e) THEN "end1" ELSE "v"
           /\ UNCHANGED <<call, v2, mid_v>>
           /\ UNCHANGED <<preVars, dup1Vars, genVars, digestVars, outVars,
                          preOut, copy1, copy2, blk_strm, w_strm>>

DupValue == /\ d2pc = "v"
            /\ Read(mid_v, mid_v')
            /\ v2' = Head(mid_v) /\ d2pc' = "out1"
            /\ UNCHANGED <<call, mid_e>>
            /\ UNCHANGED <<preVars, dup1Vars, genVars, digestVars, outVars,
                           preOut, copy1, copy2, blk_strm, w_strm>>

DupOut1 == /\ d2pc = "out1"
           /\ Write(nblk_strm1, nblk_strm1', NblkDepth, v2)
           /\ d2pc' = "out2"
           /\ UNCHANGED <<call, v2, end_nblk_strm1, copy2>>
           /\ UNCHANGED <<preVars, dup1Vars, genVars, digestVars, outVars,
                          preOut, midVars, blk_strm, w_strm>>

DupOut2 == /\ d2pc = "out2"
           /\ Write(nblk_strm2, nblk_strm2', NblkDepth, v2)
           /\ d2pc' = "flag1"
           /\ UNCHANGED <<call, v2, end_nblk_strm2, copy1>>
           /\ UNCHANGED <<preVars, dup1Vars, genVars, digestVars, outVars,
                          preOut, midVars, blk_strm, w_strm>>

DupFlag1 == /\ d2pc \in {"flag1", "end1"}
            /\ Write(end_nblk_strm1, end_nblk_strm1', NblkDepth, d2pc = "end1")
            /\ d2pc' = IF d2pc = "end1" THEN "end2" ELSE "flag2"
            /\ UNCHANGED <<call, v2, nblk_strm1, copy2>>
            /\ UNCHANGED <<preVars, dup1Vars, genVars, digestVars, outVars,
                           preOut, midVars, blk_strm, w_strm>>

DupFlag2 == /\ d2pc \in {"flag2", "end2"}
            /\ Write(end_nblk_strm2, end_nblk_strm2', NblkDepth, d2pc = "end2")
            /\ d2pc' = IF d2pc = "end2" THEN "done" ELSE "e"
            /\ UNCHANGED <<call, v2, nblk_strm2, copy1>>
            /\ UNCHANGED <<preVars, dup1Vars, genVars, digestVars, outVars,
                           preOut, midVars, blk_strm, w_strm>>

dupStage2 == DupFlag \/ DupValue \/ DupOut1 \/ DupOut2 \/ DupFlag1 \/ DupFlag2

-----------------------------------------------------------------------------
(* generateMsgSchedule *)

\* Word t of the schedule of block b; words past the block are made of it.
W(b, r) == IF r < BLOCK_WORDS THEN b[r + 1] ELSE [of |-> b, round |-> r]

GenFlag == /\ gpc = "end"
           /\ Read(end_nblk_strm1, end_nblk_strm1')
           /\ gpc' = IF Head(end_nblk_strm1) THEN "done" ELSE "n"
           /\ UNCHANGED <<call, gn, gblk, t, nblk_strm1>>
           /\ UNCHANGED <<preVars, dup1Vars, dup2Vars, digestVars, outVars,
                          preOut, midVars, copy2, blk_strm, w_strm>>

GenCount == /\ gpc = "n"
            /\ Read(nblk_strm1, nblk_strm1')
            /\ gn' = Head(nblk_strm1) /\ gpc' = "blk"
            /\ UNCHANGED <<call, gblk, t, end_nblk_strm1>>
            /\ UNCHANGED <<preVars, dup1Vars, dup2Vars, digestVars, outVars,
                           preOut, midVars, copy2, blk_strm, w_strm>>

GenBlock == /\ gpc = "blk"
            /\ IF gn = 0 THEN gpc' = "end" /\ UNCHANGED <<gn, gblk, t, blk_strm>>
               ELSE /\ Read(blk_strm, blk_strm')
                    /\ gblk' = Head(blk_strm) /\ gn' = gn - 1 /\ t' = 0
                    /\ gpc' = "w"
            /\ UNCHANGED <<call, preVars, dup1Vars, dup2Vars, digestVars, outVars,
                           preOut, midVars, copy1, copy2, w_strm>>

\* mutant: the loop that extends the words runs one round short, or one too many
LastWord_Short == ROUNDS - 2
LastWord_Long == ROUNDS
LastWord == ROUNDS - 1

GenWord == /\ gpc = "w"
           /\ Write(w_strm, w_strm', WDepth, W(gblk, t))
           /\ t' = t + 1
           /\ gpc' = IF t < LastWord THEN "w" ELSE "blk"
           /\ UNCHANGED <<call, gn, gblk>>
           /\ UNCHANGED <<preVars, dup1Vars, dup2Vars, digestVars, outVars,
                          preOut, midVars, copy1, copy2, blk_strm>>

generateMsgSchedule == GenFlag \/ GenCount \/ GenBlock \/ GenWord

-----------------------------------------------------------------------------
(* sha256Digest *)

DigestFlag == /\ hpc = "end"
              /\ Read(end_nblk_strm2, end_nblk_strm2')
              /\ hpc' = IF Head(end_nblk_strm2) THEN "finish" ELSE "n"
              /\ UNCHANGED <<call, hn, digested, nblk_strm2>>
              /\ UNCHANGED <<preVars, dup1Vars, dup2Vars, genVars, outVars,
                             preOut, midVars, copy1, blk_strm, w_strm>>

\* mutant: H is not initialised for each message
FreshState_Kept == digested
FreshState == <<>>

\* The number of blocks; H is initialised.  hn counts the words still to read.
DigestCount == /\ hpc = "n"
               /\ Read(nblk_strm2, nblk_strm2')
               /\ hn' = Head(nblk_strm2) * ROUNDS
               /\ digested' = FreshState
               /\ hpc' = "w"
               /\ UNCHANGED <<call, end_nblk_strm2>>
               /\ UNCHANGED <<preVars, dup1Vars, dup2Vars, genVars, outVars,
                              preOut, midVars, copy1, blk_strm, w_strm>>

DigestWord == /\ hpc = "w" /\ hn > 0
              /\ Read(w_strm, w_strm')
              /\ digested' = Append(digested, Head(w_strm))
              /\ hn' = hn - 1
              /\ UNCHANGED <<call, hpc>>
              /\ UNCHANGED <<preVars, dup1Vars, dup2Vars, genVars, outVars,
                             preOut, midVars, copy1, copy2, blk_strm>>

\* hash_strm, then end_hash_strm; the caller keeps room on both.
DigestEmit == /\ hpc = "w" /\ hn = 0
              /\ hash_strm' = Append(hash_strm, digested)
              /\ hpc' = "flag"
              /\ UNCHANGED <<call, hn, digested, end_hash_strm>>
              /\ UNCHANGED <<preVars, dup1Vars, dup2Vars, genVars,
                             preOut, midVars, copy1, copy2, blk_strm, w_strm>>

DigestEndFlag == /\ hpc \in {"flag", "finish"}
                 /\ end_hash_strm' = Append(end_hash_strm, hpc = "finish")
                 /\ hpc' = IF hpc = "finish" THEN "done" ELSE "end"
                 /\ UNCHANGED <<call, hn, digested, hash_strm>>
                 /\ UNCHANGED <<preVars, dup1Vars, dup2Vars, genVars,
                                preOut, midVars, copy1, copy2, blk_strm, w_strm>>

sha256Digest == DigestFlag \/ DigestCount \/ DigestWord \/ DigestEmit \/ DigestEndFlag

-----------------------------------------------------------------------------

Returned == ppc = "done" /\ d1pc = "done" /\ d2pc = "done" /\ gpc = "done" /\ hpc = "done"
Finished == Returned /\ UNCHANGED vars

Next == preProcessing \/ dupStage1 \/ dupStage2 \/ generateMsgSchedule \/ sha256Digest
        \/ Finished

\* No step is ever taken back, so it is enough that some process that can step
\* does; that each does, as in the hardware, implies this.
Fairness == WF_vars(Next)

Spec == Init /\ [][Next]_vars /\ Fairness

-----------------------------------------------------------------------------
(* Properties *)

\* The words that should go into the digest of a message: the schedules of the
\* blocks of the message padded as the standard asks.
PaddedBlocks(m) ==
    LET bytes == StandardPadding(m.first, m.bytes)
    IN  [b \in 1..Len(bytes) \div BlockBytes |->
            [w \in 1..BLOCK_WORDS |->
                SubSeq(bytes, (b - 1) * BlockBytes + 4 * w - 3, (b - 1) * BlockBytes + 4 * w)]]
Sha256(m) == FlattenSeq([b \in DOMAIN PaddedBlocks(m) |->
                            [r \in 1..ROUNDS |-> W(PaddedBlocks(m)[b], r - 1)]])

Abstract == INSTANCE HashFunction WITH
    Hash <- Sha256,
    messages <- [m \in DOMAIN lens |-> [first |-> WordBytes * FirstWord(m), bytes |-> lens[m]]],
    taken <- msg - 1,
    digests <- hash_strm,
    ended <- TRUE \in Range(end_hash_strm)

\* The four processes together are a hash function over streams: the digest of
\* every message is made of that message's padded blocks and nothing else, comes
\* in the order of the messages, only after the message was read, and the end
\* flag comes after the last.
IsHashFunction == Abstract!Spec

\* The number of blocks announced to the schedule and the digest is the number
\* of blocks the padding branches then send: one more and the two wait for ever,
\* one less and the last block is taken for the next message's.
AnnouncedBlocksAreSent == [][msg' # msg => blk = blk_num(len)]_vars

\* Once the call has returned every stream is empty and all words of the
\* messages were read: the next call starts clean.
NothingLeftBehind ==
    Returned => /\ {nblk_strm, end_nblk_strm, mid_v, mid_e, nblk_strm1, end_nblk_strm1,
                    nblk_strm2, end_nblk_strm2, blk_strm, w_strm} = {<<>>}
                /\ msgRead = TotalWords

\* Every call returns, however the five processes are scheduled and however
\* shallow the streams between them: the two ways of a count never lock.
CallReturns == <>Returned
=============================================================================
