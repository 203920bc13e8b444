------------------------------- MODULE LzMatch -------------------------------
(***************************************************************************)
(* The match search of the LZ4 core: lzCompress -> lzBestMatchFilter ->    *)
(* lzBooster, three dataflow processes in a row (hlsLz4Core), up to the    *)
(* items the encoder reads.                                                *)
(*                                                                         *)
(*   lzCompress          looks each window of MATCH_LEN bytes up in a      *)
(*                       dictionary of earlier windows, and attaches the   *)
(*                       longest match to the byte;                        *)
(*   lzBestMatchFilter   drops a match a later one reaches beyond;         *)
(*   lzBooster           extends a match byte by byte against a circular   *)
(*                       copy of the last bytes, and swallows the items    *)
(*                       the match covers.                                 *)
(*                                                                         *)
(* Both on-chip memories are declared free of inter-iteration dependences  *)
(* (#pragma HLS dependence inter false), so a pipelined read may miss      *)
(* writes of the iterations just before it.  For the dictionary this is    *)
(* modelled: the last `lag' writes have not landed when a slot is read.    *)
(* For the booster's memory it is a property that no such read is used.    *)
(*                                                                         *)
(* The input is a sequence; position p of the code is element p + 1.       *)
(***************************************************************************)
EXTENDS Integers, Sequences

CONSTANTS Bytes, InputSizes,
          MATCH_LEN, MIN_MATCH, LZ_MAX_OFFSET_LIMIT, MATCH_LEVEL, MIN_OFFSET,
          LEFT_BYTES, MAX_MATCH_LEN, BOOSTER_OFFSET_WINDOW,
          ShortLen, FarOffset,    \* a match of ShortLen (3) is not worth an offset above FarOffset (4096)
          Slots, Hash(_),         \* the dictionary's slots, and the slot of a window
          Depth,                  \* of the FIFOs between the processes (32)
          Lags                    \* how many writes a dictionary read may miss

ResetIndex == 16777215    \* of a reset entry of the dictionary: the largest of 24 bits

ASSUME SearchAssumption ==
    /\ MATCH_LEN \in Nat /\ MIN_MATCH \in 1..MATCH_LEN
    /\ MAX_MATCH_LEN \in Nat /\ MATCH_LEN <= MAX_MATCH_LEN
    /\ MIN_OFFSET \in Nat \ {0} /\ MATCH_LEVEL \in Nat \ {0} /\ LEFT_BYTES \in Nat \ {0}
    /\ LZ_MAX_OFFSET_LIMIT \in Nat \ {0} /\ BOOSTER_OFFSET_WINDOW \in Nat \ {0}
    /\ Depth \in Nat \ {0} /\ Lags \subseteq Nat
    \* a block, whose positions the dictionary can keep
    /\ \A n \in InputSizes : /\ n \in 0..ResetIndex
                             /\ n = 0 \/ n >= LEFT_BYTES + MATCH_LEN
    /\ \A w \in [1..MATCH_LEN -> Bytes] : Hash(w) \in Slots

VARIABLES
    input, lag,
    \* lzCompress: items written so far, dictionary, writes on their way
    searched, dict, landing,
    compressdStream,
    \* lzBestMatchFilter: items read so far, and the ones it holds
    filtered, compare_window,
    bestMatchStream,
    \* lzBooster
    boosted, local_mem, match_loc, match_len, outValue, matchFlag, skip_len, nextMatchCh,
    flushed,
    boosterStream        \* all it has written

searchVars == <<searched, dict, landing>>
filterVars == <<filtered, compare_window>>
boostRegs  == <<match_loc, match_len, outValue, matchFlag, skip_len>>
boostVars  == <<boosted, local_mem, boostRegs, nextMatchCh, flushed, boosterStream>>
vars == <<input, lag, searchVars, compressdStream, filterVars, bestMatchStream, boostVars>>

size == Len(input)
Byte(p) == input[p + 1]
Body == size - LEFT_BYTES       \* positions a match may cover

Item(ch, len, off) == [ch |-> ch, len |-> len, off |-> off]
Plain(p) == Item(Byte(p), 0, 0)

-----------------------------------------------------------------------------
(* lzCompress *)

\* A dictionary slot holds MATCH_LEVEL entries, the most recent first; the
\* bytes of a reset entry are zero.
Window(p) == SubSeq(input, p + 1, p + MATCH_LEN)
Entry(p) == [bytes |-> Window(p), idx |-> p]
ResetSlot == [l \in 1..MATCH_LEVEL |->
                [bytes |-> [m \in 1..MATCH_LEN |-> 0], idx |-> ResetIndex]]
Push(slot, entry) == <<entry>> \o SubSeq(slot, 1, MATCH_LEVEL - 1)

Common(a, b) == CHOOSE n \in 0..MATCH_LEN :
                   /\ \A m \in 1..n : a[m] = b[m]
                   /\ n < MATCH_LEN => a[n + 1] # b[n + 1]

\* mutant: an entry that is not older than the window is looked at as well
Acceptable_AnyIndex(len, p, idx) == len >= MIN_MATCH
\* mutant: the smallest offset is not asked for
Acceptable_AnyOffset(len, p, idx) ==
    /\ len >= MIN_MATCH
    /\ p > idx /\ p - idx < LZ_MAX_OFFSET_LIMIT
Acceptable(len, p, idx) ==
    /\ len >= MIN_MATCH
    /\ p > idx
    /\ p - idx < LZ_MAX_OFFSET_LIMIT
    /\ p - idx - 1 >= MIN_OFFSET
    /\ ~(len = ShortLen /\ p - idx - 1 > FarOffset)

\* The longest acceptable match of a slot, the most recent of equals.
BestOf(slot, p) ==
    LET length == [l \in 1..MATCH_LEVEL |->
                     LET n == Common(Window(p), slot[l].bytes)
                     IN  IF Acceptable(n, p, slot[l].idx) THEN n ELSE 0]
        IsBest(l) == /\ \A k \in 1..MATCH_LEVEL : length[k] <= length[l]
                     /\ \A k \in 1..l - 1 : length[k] < length[l]
        best == CHOOSE l \in 1..MATCH_LEVEL : IsBest(l)
    IN  IF length[best] = 0 THEN Plain(p)
        ELSE Item(Byte(p), length[best], p - slot[best].idx - 1)

FindMatch ==
    /\ searched + MATCH_LEN <= Body
    /\ Len(compressdStream) < Depth
    /\ LET h     == Hash(Window(searched))
           write == <<h, Push(dict[h], Entry(searched))>>
           all   == Append(landing, write)
       IN  /\ compressdStream' = Append(compressdStream, BestOf(dict[h], searched))
           /\ IF Len(all) > lag
              THEN /\ dict' = [dict EXCEPT ![all[1][1]] = all[1][2]]
                   /\ landing' = Tail(all)
              ELSE /\ landing' = all
                   /\ UNCHANGED dict
    /\ searched' = searched + 1
    /\ UNCHANGED <<input, lag, filterVars, bestMatchStream, boostVars>>

\* mutant: the bytes of the last window but the first are not written
SearchRest_NoLeftover ==
    /\ searched + MATCH_LEN > Body
    /\ searched < size
    /\ Len(compressdStream) < Depth
    /\ LET p == IF searched < Body THEN Body ELSE searched
       IN  /\ compressdStream' = Append(compressdStream, Plain(p))
           /\ searched' = p + 1
    /\ UNCHANGED <<input, lag, dict, landing, filterVars, bestMatchStream, boostVars>>

\* lz_compress_leftover and lz_left_bytes: the rest are literals.
SearchRest ==
    /\ searched + MATCH_LEN > Body
    /\ searched < size
    /\ Len(compressdStream) < Depth
    /\ compressdStream' = Append(compressdStream, Plain(searched))
    /\ searched' = searched + 1
    /\ UNCHANGED <<input, lag, dict, landing, filterVars, bestMatchStream, boostVars>>

-----------------------------------------------------------------------------
(* lzBestMatchFilter *)

ReadItem == /\ compressdStream # <<>>
            /\ compressdStream' = Tail(compressdStream)
            /\ filtered' = filtered + 1
            /\ UNCHANGED <<input, lag, searchVars, boostVars>>

FilterFill ==
    /\ size > 0 /\ filtered < MATCH_LEN
    /\ ReadItem
    /\ compare_window' = Append(compare_window, Head(compressdStream))
    /\ UNCHANGED bestMatchStream

\* A later match in the window that reaches beyond the end of this one.
Outreached(item, later) == \E j \in 1..MATCH_LEN : item.len + j - 1 < later[j].len

FilterStep ==
    /\ filtered >= MATCH_LEN /\ filtered < size
    /\ Len(bestMatchStream) < Depth
    /\ ReadItem
    /\ compare_window' = Append(Tail(compare_window), Head(compressdStream))
    /\ LET item == Head(compare_window)
       IN  bestMatchStream' = Append(bestMatchStream,
              IF Outreached(item, compare_window') THEN Item(item.ch, 0, 0) ELSE item)

FilterDrain ==
    /\ filtered = size /\ compare_window # <<>>
    /\ Len(bestMatchStream) < Depth
    /\ bestMatchStream' = Append(bestMatchStream, Head(compare_window))
    /\ compare_window' = Tail(compare_window)
    /\ UNCHANGED <<input, lag, searchVars, filtered, compressdStream, boostVars>>

-----------------------------------------------------------------------------
(* lzBooster *)

\* mutant: an offset of just the window's size is taken to be in the window
InWindow_Equal(off) == off <= BOOSTER_OFFSET_WINDOW
InWindow(off) == off < BOOSTER_OFFSET_WINDOW
Cell(loc) == loc % BOOSTER_OFFSET_WINDOW

\* A byte goes on with the match in hand.
Extends(ch) == matchFlag /\ match_len < MAX_MATCH_LEN /\ ch = nextMatchCh

\* mutant: the positions of a match that is not extended are not skipped
Skipped_None(item) == 0
\* mutant: the byte that carries the match is counted as one to be skipped
Skipped_Whole(item) == item.len
Skipped(item) == item.len - 1

BoostItem(item) ==
    IF skip_len > 0
    THEN /\ skip_len' = skip_len - 1
         /\ UNCHANGED <<match_loc, match_len, outValue, matchFlag, boosterStream>>
    ELSE IF Extends(item.ch)
    THEN /\ match_len' = match_len + 1
         /\ match_loc' = match_loc + 1
         /\ outValue' = [outValue EXCEPT !.len = match_len + 1]
         /\ UNCHANGED <<matchFlag, skip_len, boosterStream>>
    ELSE /\ match_len' = 1
         /\ match_loc' = boosted - item.off
         /\ outValue' = item
         /\ boosterStream' = IF boosted > 0 THEN Append(boosterStream, outValue) ELSE boosterStream
         /\ matchFlag' = (item.len > 0 /\ InWindow(item.off))
         /\ skip_len' = IF item.len > 0 /\ ~InWindow(item.off) THEN Skipped(item) ELSE skip_len

ReadBest == /\ bestMatchStream # <<>>
            /\ bestMatchStream' = Tail(bestMatchStream)
            /\ boosted' = boosted + 1
            /\ UNCHANGED <<input, lag, searchVars, filterVars, compressdStream>>

Boost ==
    /\ size > 0 /\ boosted < Body
    /\ ReadBest
    /\ local_mem' = [local_mem EXCEPT ![Cell(boosted)] = Head(bestMatchStream).ch]
    /\ BoostItem(Head(bestMatchStream))
    /\ nextMatchCh' = local_mem'[Cell(match_loc')]
    /\ UNCHANGED flushed

\* After the loop: the item in hand, then the last LEFT_BYTES as they come.
BoostFlush ==
    /\ size > 0 /\ boosted = Body /\ ~flushed
    /\ flushed' = TRUE
    /\ boosterStream' = Append(boosterStream, outValue)
    /\ UNCHANGED <<boosted, local_mem, boostRegs, nextMatchCh>>
    /\ UNCHANGED <<input, lag, searchVars, compressdStream, filterVars, bestMatchStream>>

BoostRest ==
    /\ flushed /\ boosted < size
    /\ ReadBest
    /\ boosterStream' = Append(boosterStream, Head(bestMatchStream))
    /\ UNCHANGED <<local_mem, boostRegs, nextMatchCh, flushed>>

-----------------------------------------------------------------------------
\* The booster's memory and registers start with whatever they hold.
Init ==
    /\ input \in UNION {[1..n -> Bytes] : n \in InputSizes}
    /\ lag \in Lags
    /\ searched = 0 /\ dict = [h \in Slots |-> ResetSlot] /\ landing = <<>>
    /\ filtered = 0 /\ compare_window = <<>>
    /\ compressdStream = <<>> /\ bestMatchStream = <<>> /\ boosterStream = <<>>
    /\ boosted = 0 /\ match_loc = 0 /\ match_len = 0 /\ matchFlag = FALSE /\ skip_len = 0
    /\ \E garbage \in Bytes : /\ local_mem = [c \in 0..BOOSTER_OFFSET_WINDOW - 1 |-> garbage]
                              /\ nextMatchCh = garbage
                              /\ outValue = Item(garbage, 0, 0)
    /\ flushed = FALSE

Search == FindMatch \/ SearchRest
Filter == FilterFill \/ FilterStep \/ FilterDrain
Booster == Boost \/ BoostFlush \/ BoostRest

Finished == /\ searched = size /\ filtered = size /\ compare_window = <<>> /\ boosted = size
            /\ size > 0 => flushed
Next == Search \/ Filter \/ Booster \/ (Finished /\ UNCHANGED vars)

Fairness == WF_vars(Search) /\ WF_vars(Filter) /\ WF_vars(Booster)
Spec == Init /\ [][Next]_vars /\ Fairness

-----------------------------------------------------------------------------
(* Properties *)

Items == [ch : Bytes, len : 0..MAX_MATCH_LEN, off : 0..LZ_MAX_OFFSET_LIMIT - 1]

TypeOK ==
    /\ \A n \in 1..Len(compressdStream) : compressdStream[n] \in Items
    /\ \A n \in 1..Len(bestMatchStream) : bestMatchStream[n] \in Items
    /\ \A n \in 1..Len(boosterStream) : boosterStream[n] \in Items
    /\ Len(compressdStream) <= Depth /\ Len(bestMatchStream) <= Depth
    /\ searched \in 0..size /\ filtered \in 0..searched /\ boosted \in 0..filtered
    /\ Len(compare_window) <= MATCH_LEN
    /\ local_mem \in [0..BOOSTER_OFFSET_WINDOW - 1 -> Bytes]
    /\ match_loc \in Nat /\ match_len \in 0..MAX_MATCH_LEN
    /\ skip_len \in 0..MATCH_LEN - 1
    /\ matchFlag \in BOOLEAN /\ flushed \in BOOLEAN

Covered(item) == IF item.len > 0 THEN item.len ELSE 1

\* The input position of each item of a sequence of items.
Place(its, n) ==
    LET place[k \in 1..n] == IF k = 1 THEN 0 ELSE place[k - 1] + Covered(its[k - 1])
    IN  place[n]

\* Every item the encoder gets says the truth about the input: a literal is
\* the byte at its place, a match repeats the bytes its offset points back to.
EveryItemIsTrue ==
    \A n \in 1..Len(boosterStream) :
        LET item == boosterStream[n]
            p    == Place(boosterStream, n)
        IN  IF item.len = 0 THEN item.ch = Byte(p)
            ELSE /\ p > item.off
                 /\ \A k \in p..p + item.len - 1 : Byte(k) = Byte(k - item.off - 1)

\* What the encoder relies on: no match is shorter than it can write, none has
\* offset 0 (with the shortest length it would read as the end record), and
\* none reaches into the trailing literals.
ItemsFitEncoder ==
    \A n \in 1..Len(boosterStream) :
        LET item == boosterStream[n]
        IN  item.len > 0 => /\ item.len >= MIN_MATCH
                            /\ item.off >= MIN_OFFSET
                            /\ Place(boosterStream, n) + item.len <= Body

\* The items stand side by side and, in the end, cover the input exactly.
InputIsCovered ==
    Finished => Place(boosterStream, Len(boosterStream) + 1) = size

\* The byte the booster compares with is the one match_loc points to: the
\* circular window still holds it, and it was stored MIN_OFFSET iterations
\* before the read at least, never by the iteration that reads it (the pragma
\* lets such a read return the old byte).
ComparedByteIsOld ==
    (matchFlag /\ skip_len = 0 /\ match_len < MAX_MATCH_LEN /\ boosted < Body) =>
        /\ nextMatchCh = Byte(match_loc)
        /\ match_loc + MIN_OFFSET < boosted

\* All three processes read and write all their items.
AllDone == <>Finished
=============================================================================
