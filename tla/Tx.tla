--------------------------------- MODULE Tx ---------------------------------
(***************************************************************************)
(* message/src/tx.rs: the payloads that are recorded on a ledger, as the   *)
(* bytes of their fields one after the other.                              *)
(***************************************************************************)
EXTENDS Bytes, SequencesExt

\* Type1OurMpcTx: five points for each lender.
our_mpc_size(tx) == 32 + 64 + 5 * 33 * Len(tx.lenders)
our_mpc_bytes(tx) ==
  tx.meta \o tx.sig
    \o FlattenSeq([i \in DOMAIN tx.lenders |->
         tx.lenders[i].group_c1 \o tx.lenders[i].group_c2
           \o tx.lenders[i].regulator_c1 \o tx.lenders[i].regulator_c2
           \o tx.lenders[i].partial_dec_share])

\* Type2RepaymentTx.
repayment_size == 32 + 64
repayment_bytes(tx) == tx.payload \o tx.sig

\* Type1AggregatedTx; wrong variant, which the properties must detect: the
\* ciphertexts paired by component, not by key.
aggregated_size == 32 + 64 + 33 + 33 + 33 + 33 + 32
aggregated_by_component(tx) ==
  tx.meta \o tx.sig \o tx.c1_agg \o tx.reg_c1_agg \o tx.c2_agg \o tx.reg_c2_agg
    \o tx.shares_merkle_root
aggregated_bytes(tx) ==
  tx.meta \o tx.sig \o tx.c1_agg \o tx.c2_agg \o tx.reg_c1_agg \o tx.reg_c2_agg
    \o tx.shares_merkle_root

\* Type1CheckpointTx: batch_size is a little-endian u32.
checkpoint_size == 32 + 64 + 32 + 4
checkpoint_bytes(tx) ==
  tx.meta \o tx.sig \o tx.records_merkle_root \o to_le_bytes(tx.batch_size, 4)
=============================================================================
