-------------------------- MODULE MCLightingCodec --------------------------
(* A small instance of LightingCodec for TLC. *)
EXTENDS LightingCodec

\* All states of one byte, and of two bytes some.
MCBlocks ==
  [1 .. 4 -> 0 .. 3] \cup {[i \in 1 .. 8 |-> (i * k) % 4] : k \in 0 .. 3}
=============================================================================
