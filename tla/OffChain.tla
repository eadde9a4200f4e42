------------------------------ MODULE OffChain ------------------------------
(***************************************************************************)
(* assemble_aggregated_tx of dec_phase.rs: a coordinator that has received *)
(* the nodes' decryption shares commits their Merkle root on-chain and     *)
(* hands out the shares, each with its inclusion proof.                    *)
(*                                                                         *)
(* Shares arrive in any order.  The code asks for one share at least, and  *)
(* for as many ciphertexts, which the caller sees to; not for every node's *)
(* share.  A node's share is named by its number; the aggregated           *)
(* ciphertexts, sums over all nodes, are in Amounts.                       *)
(***************************************************************************)
EXTENDS Merkle

CONSTANT share_counts  \* the number of nodes, at least one

VARIABLES
  phase_two_msgs,  \* senders of the NodeDecPhaseTwoBroadcastMsgs, in order
  on_chain_tx,     \* the shares_merkle_root of the transaction, << >> before
  entries          \* the OffChainShareEntries, << >> before

vars == <<phase_two_msgs, on_chain_tx, entries>>

Nodes == 1 .. share_counts

Init == phase_two_msgs = << >> /\ on_chain_tx = << >> /\ entries = << >>

\* A share arrives and is pushed.
HandleDecPhaseTwo(n) ==
  /\ n \notin ToSet(phase_two_msgs)
  /\ phase_two_msgs' = Append(phase_two_msgs, n)
  /\ UNCHANGED <<on_chain_tx, entries>>

\* Wrong variant of Assemble, which the properties must detect: the proof of
\* the sender's place among the nodes, not among the leaves.
AssembleByNode ==
  LET tree == build(phase_two_msgs)
  IN  /\ Len(phase_two_msgs) = share_counts
      /\ entries = << >>
      /\ on_chain_tx' = <<root(tree)>>
      /\ entries' = [i \in DOMAIN phase_two_msgs |->
                       [node_id           |-> phase_two_msgs[i],
                        partial_dec_share |-> phase_two_msgs[i],
                        merkle_proof      |-> proof(tree, phase_two_msgs[i] - 1)]]
      /\ UNCHANGED phase_two_msgs

Assemble ==
  LET tree == build(phase_two_msgs)
  IN  /\ phase_two_msgs # << >>
      /\ entries = << >>
      /\ on_chain_tx' = <<root(tree)>>
      /\ entries' = [i \in DOMAIN phase_two_msgs |->
                       [node_id           |-> phase_two_msgs[i],
                        partial_dec_share |-> phase_two_msgs[i],
                        merkle_proof      |-> proof(tree, i - 1)]]
      /\ UNCHANGED phase_two_msgs

Next == Assemble \/ \E n \in Nodes : HandleDecPhaseTwo(n)

Spec == Init /\ [][Next]_vars

----------------------------------------------------------------------------
\* Whoever holds the transaction and the entries can check every share that is
\* in them, and a node's proof is worth nothing for the share of another one,
\* whichever shares had arrived and in whatever order.
SharesProve ==
  \A i \in DOMAIN entries : \A n \in Nodes :
    verify(entries[i].merkle_proof, on_chain_tx[1], n) <=> n = entries[i].node_id

\* What the type says of an entry (tx.rs:140, "Merkle proof that
\* partial_dec_share is the leaf at node_id - 1"), when there is one for each
\* node.  Not so: see README.md.
LeafAtNodeId ==
  Len(entries) = share_counts =>
    \A i \in DOMAIN entries : entries[i].merkle_proof.leaf_index = entries[i].node_id - 1
=============================================================================
