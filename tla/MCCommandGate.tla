--------------------------- MODULE MCCommandGate ---------------------------
(* CommandGate for TLC: the payloads of the PC's messages, and the symmetry *)
(* of the two arms.                                                         *)
EXTENDS CommandGate, TLC

NoAux == {{}}
SomeAux == {{}, {"joints", "base"}}

SideSymmetry == Permutations(Sides)
=============================================================================
