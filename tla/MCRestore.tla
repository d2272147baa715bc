----------------------------- MODULE MCRestore -----------------------------
(* Small instances of Restore for TLC. *)
EXTENDS Restore, TLC

RestoreSymmetry == Permutations(Restores) \cup Permutations(Nodes)
============================================================================
