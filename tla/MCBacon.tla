------------------------------ MODULE MCBacon ------------------------------
(* Instances of Bacon: every heap over a few cells, every root list.        *)
EXTENDS Bacon, TLC

Symmetric == Permutations(Cells)
=============================================================================
