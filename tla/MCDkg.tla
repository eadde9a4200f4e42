------------------------------- MODULE MCDkg -------------------------------
(* Small instances of the key generation run for TLC. *)
EXTENDS Dkg, TLC

Symmetry == Permutations(Node)
============================================================================
