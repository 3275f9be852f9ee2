---------------------------- MODULE MCGenodeLock ----------------------------
(* Small instances of GenodeLock for TLC. *)
EXTENDS GenodeLock, TLC

Symmetric == Permutations(Threads)
=============================================================================
