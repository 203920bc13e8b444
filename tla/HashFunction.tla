----------------------------- MODULE HashFunction -----------------------------
(***************************************************************************)
(* What a hash function over streams promises its caller: it takes the     *)
(* messages one after the other, may take several before the first digest  *)
(* is out, and puts out the digest of each, in the order of the messages,  *)
(* and the end flag after the last.                                        *)
(***************************************************************************)
EXTENDS Naturals, Sequences

CONSTANT Hash(_)

VARIABLES messages, taken, digests, ended
vars == <<messages, taken, digests, ended>>

Init == taken = 0 /\ digests = <<>> /\ ended = FALSE

Take == /\ taken < Len(messages)
        /\ taken' = taken + 1
        /\ UNCHANGED <<messages, digests, ended>>

Digest == /\ Len(digests) < taken
          /\ digests' = Append(digests, Hash(messages[Len(digests) + 1]))
          /\ UNCHANGED <<messages, taken, ended>>

End == /\ Len(digests) = Len(messages)
       /\ ~ended /\ ended' = TRUE
       /\ UNCHANGED <<messages, taken, digests>>

Next == Take \/ Digest \/ End
Spec == Init /\ [][Next]_vars
=============================================================================
