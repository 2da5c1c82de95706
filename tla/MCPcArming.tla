----------------------------- MODULE MCPcArming -----------------------------
(* PcArming for TLC: the two arms are interchangeable. *)
EXTENDS PcArming, TLC

SideSymmetry == Permutations(Sides)
=============================================================================
