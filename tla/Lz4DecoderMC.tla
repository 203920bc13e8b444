----------------------------- MODULE Lz4DecoderMC -----------------------------
(* Files for model checking the decoder, chosen for the places where the   *)
(* pieces of a run, the register file, the RAM and the window change over. *)
EXTENDS Lz4Decoder

Run(l, m, d) == [lits |-> l, len |-> m, dist |-> d]
Lz4Block(runs, tail) == [stored |-> FALSE, seqs |-> Append(runs, Run(tail, 0, 0))]
StoredBlock(n) == [stored |-> TRUE, seqs |-> <<Run(n, 0, 0)>>]

\* Overlapping and short matches at every alignment, with and without literals
\* before them, blocks of one word and less.
ShortFiles ==
    UNION {{<<Lz4Block(<<Run(l, m, d)>>, t)>> : m \in {4, 7, 8}, d \in 1..AtMost(l, 3), t \in {0, 2}} :
               l \in 1..5}

\* A stored block before a block, and the shortest blocks.
Mixed == {<<StoredBlock(n), Lz4Block(<<Run(k, 4, n)>>, t)>> : n \in 1..4, k \in 0..1, t \in 0..1}
             \cup {<<Lz4Block(<<>>, t), StoredBlock(n)>> : t \in 1..3, n \in 1..2}

\* Distances around the border between the registers and the RAM.
Border == {<<Lz4Block(<<Run(l, 16, 3), Run(k, 6, d)>>, 1)>> :
               l \in 3..5, k \in 0..2, d \in LowOffset - 2..LowOffset + 6}

\* Distances up to that of the whole window, once the indices have wrapped.
Window == {<<Lz4Block(<<Run(5, HISTORY_SIZE - n, 5), Run(k, 9, d)>>, 1)>> :
               n \in 2..5, k \in 0..3, d \in HISTORY_SIZE - 3..HISTORY_SIZE - 1}

AllFiles == ShortFiles \cup Mixed \cup Border \cup Window
=============================================================================
