---------------------------- MODULE MCDownsample ----------------------------
(* Downsample for TLC: every block of up to MaxRows rows.                       *)
EXTENDS Downsample

CONSTANT MaxRows

MCNumbers == {-2, -1, 0, 1, 3}
MCBlocks == UNION {[1..n -> MCNumbers \union {NaN}] : n \in 1..MaxRows}
=============================================================================
