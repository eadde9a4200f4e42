------------------------------ MODULE Records ------------------------------
(***************************************************************************)
(* The two users of the Merkle tree side by side: the checkpoint buffer    *)
(* and the off-chain shares of a loan round, each with a state of its own. *)
(***************************************************************************)
EXTENDS Checkpoint

CONSTANT share_counts
VARIABLES phase_two_msgs, on_chain_tx, entries

O == INSTANCE OffChain

\* Every entry's inclusion proof is accepted for its own node's share and for
\* no other, in whatever order the shares arrived.
SharesProve == O!SharesProve
=============================================================================
