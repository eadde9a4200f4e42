----------------------------- MODULE MCOffChain -----------------------------
(* Small instances of the off-chain shares for TLC. *)
EXTENDS OffChain, TLC
=============================================================================
