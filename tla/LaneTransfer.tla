----------------------------- MODULE LaneTransfer -----------------------------
(***************************************************************************)
(* What the two sides of the memory-mapped kernel promise to its lanes:    *)
(* each lane has a block of bytes, the other end of the lane receives      *)
(* exactly that block, in order, and all of it eventually, whatever the    *)
(* other lanes do.  mm2multStreamSize promises it from memory to the       *)
(* cores, multStream2MM from the cores to memory; Mm2MultStream and        *)
(* MultStream2Mm are shown to implement it.                                *)
(***************************************************************************)
EXTENDS Integers, Sequences

CONSTANTS Lanes,      \* the lanes of one kernel
          Blocks,     \* Blocks[v]: the blocks lane v may be given
          MaxChunk    \* how many bytes arrive in one step

VARIABLES block,      \* the block of each lane
          delivered   \* what has arrived of it

tvars == <<block, delivered>>

BlockChoices == {b \in [Lanes -> UNION {Blocks[v] : v \in Lanes}] :
                    \A v \in Lanes : b[v] \in Blocks[v]}

TransferInit == /\ block \in BlockChoices
                /\ delivered = [v \in Lanes |-> <<>>]

Deliver(v) ==
    \E n \in 1..MaxChunk :
        /\ Len(delivered[v]) + n <= Len(block[v])
        /\ delivered' = [delivered EXCEPT ![v] =
                             SubSeq(block[v], 1, Len(delivered[v]) + n)]
        /\ UNCHANGED block

\* Another call, once every lane has its block.
Again == /\ delivered = block
         /\ block' \in BlockChoices
         /\ delivered' = [v \in Lanes |-> <<>>]

TransferNext == Again \/ \E v \in Lanes : Deliver(v)

TransferSpec == /\ TransferInit
                /\ [][TransferNext]_tvars
                /\ \A v \in Lanes : WF_tvars(Deliver(v))
=============================================================================
