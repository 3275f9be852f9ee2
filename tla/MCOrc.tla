------------------------------- MODULE MCOrc -------------------------------
(* Instances of Orc: a few cells, and small stand-ins for the thresholds.   *)
EXTENDS Orc, TLC

Symmetric == Permutations(Cells)
SymmetricVars == Permutations(Cells) \cup Permutations(Vars)
=============================================================================
