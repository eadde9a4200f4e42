----------------------------- MODULE Checkpoint -----------------------------
(***************************************************************************)
(* message/src/checkpoint.rs: loan records are buffered off-chain, and a   *)
(* flush commits the buffer as one Merkle root on-chain and hands the      *)
(* records out as a batch, which its recipients check against that root.   *)
(*                                                                         *)
(* The buffer is a library: its caller pushes and flushes when it likes,   *)
(* after a look at is_full or not, but for the assertion of flush.         *)
(***************************************************************************)
EXTENDS Merkle

CONSTANTS
  Record,     \* the serialised records
  MaxRecords  \* bound on the records pushed

ASSUME CheckpointAssumption == MaxRecords \in Nat /\ Record # {}

VARIABLES
  records,      \* the buffer
  checkpoints,  \* the Type1CheckpointTxs flushed, in order
  batches       \* the OffChainCheckpointBatches flushed, in order

vars == <<records, checkpoints, batches>>

Init == records = << >> /\ checkpoints = << >> /\ batches = << >>

\* compute_root and verify of a recipient.
compute_root(batch) == IF batch = << >> THEN [zeros |-> 32] ELSE root(build(batch))
verify_batch(batch, committed_root) == compute_root(batch) = committed_root

Push(r) ==
  /\ Len(FlattenSeq(batches)) + Len(records) < MaxRecords
  /\ records' = Append(records, r)
  /\ UNCHANGED <<checkpoints, batches>>

\* Wrong variants of Flush, which the properties must detect: no assertion that
\* there is something to flush, and a buffer cloned into the batch, not drained.
FlushUnasserted ==
  /\ checkpoints' = Append(checkpoints, [records_merkle_root |-> compute_root(records),
                                         batch_size |-> Len(records)])
  /\ batches' = Append(batches, records)
  /\ records' = << >>

FlushKeeps ==
  /\ records # << >>
  /\ Len(FlattenSeq(batches)) < MaxRecords
  /\ checkpoints' = Append(checkpoints, [records_merkle_root |-> root(build(records)),
                                         batch_size |-> Len(records)])
  /\ batches' = Append(batches, records)
  /\ UNCHANGED records

Flush ==
  /\ records # << >>
  /\ checkpoints' = Append(checkpoints, [records_merkle_root |-> root(build(records)),
                                         batch_size |-> Len(records)])
  /\ batches' = Append(batches, records)
  /\ records' = << >>

Next == Flush \/ \E r \in Record : Push(r)

Spec == Init /\ [][Next]_vars

----------------------------------------------------------------------------
TypeOK ==
  /\ records \in Seq(Record)
  /\ Len(batches) = Len(checkpoints)
  /\ \A i \in DOMAIN batches : batches[i] \in Seq(Record) \ {<< >>}

\* A recipient accepts the batch of a checkpoint and, by its inclusion proof,
\* every record in it; a proof is worth nothing for another record.
BatchesVerify ==
  \A i \in DOMAIN batches :
    LET tree == build(batches[i])
        c    == checkpoints[i]
    IN  /\ verify_batch(batches[i], c.records_merkle_root)
        /\ \A j \in DOMAIN batches[i] : \A r \in Record :
             verify(proof(tree, j - 1), c.records_merkle_root, r) <=> r = batches[i][j]

\* The root and batch_size together fix the batch.  (The root alone does not:
\* a, b, c and a, b, c, c have the same, since the odd record is paired with
\* itself; verify does not look at batch_size.)
CheckpointFixesBatch ==
  \A i \in DOMAIN batches : \A other \in [1 .. checkpoints[i].batch_size -> Record] :
    verify_batch(other, checkpoints[i].records_merkle_root) => other = batches[i]

\* The abstract specification: the batches and the buffer are one log.
Log == INSTANCE CheckpointLog WITH log <- FlattenSeq(batches) \o records,
                                   committed <- Len(FlattenSeq(batches))

\* No record is lost, duplicated or reordered by the flushes.
LogSpec == Log!Spec
=============================================================================
