------------------------------ MODULE LzMatchMC ------------------------------
(* Values for model checking LzMatch. *)
EXTENDS LzMatch
\* Two of the window's bytes, so that different windows share a slot.
MCHash(w) == (w[1] + w[2]) % 2
=============================================================================
