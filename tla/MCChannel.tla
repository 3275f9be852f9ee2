----------------------------- MODULE MCChannel -----------------------------
(* Small instances of Channel for TLC. *)
EXTENDS Channel, TLC

\* Senders, and receivers, differ in name only: sound for the safety runs.
Symmetric == Permutations(Senders) \cup Permutations(Receivers)
=============================================================================
