----------------------------- MODULE MCDecrypt -----------------------------
(* Small instances of the decryption run for TLC. *)
EXTENDS Decrypt, TLC

Symmetry == Permutations(Node)

\* Every disk that key generation can leave, and the one it should leave.
AnyDisk   == LeftOnDisk
CleanDisk == {[keypair |-> [i \in Ids |-> "this"], pk_share |-> [i \in Ids |-> "this"]]}
=============================================================================
