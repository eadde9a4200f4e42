------------------------------- MODULE Merkle -------------------------------
(***************************************************************************)
(* message/src/merkle.rs: the tree over the serialised records of a        *)
(* checkpoint, and over the decryption shares of a loan round.             *)
(*                                                                         *)
(* Hashes are free terms: equal exactly when they hash equal things, and a *)
(* leaf's hash is never an inner node's (their inputs start with another   *)
(* byte).                                                                  *)
(***************************************************************************)
EXTENDS Naturals, Sequences, SequencesExt

leaf_hash(data)   == [leaf |-> data]
inner_hash(l, r)  == [left |-> l, right |-> r]

\* Wrong variants of the next two operators, which the properties must detect:
\* the odd node of a level dropped, and its sibling taken to be the one before.
ParentsOfPairs(level) ==
  [i \in 1 .. (IF Len(level) = 1 THEN 1 ELSE Len(level) \div 2) |->
     inner_hash(level[2 * i - 1], level[IF 2 * i <= Len(level) THEN 2 * i ELSE 2 * i - 1])]
SiblingBefore(level, idx) == IF idx % 2 = 0 /\ idx + 1 < Len(level) THEN idx + 1
                             ELSE IF idx = 0 THEN idx ELSE idx - 1

\* The level above: pairs are hashed, and the last node of a level of odd
\* length is paired with itself.
Parents(level) ==
  [i \in 1 .. (Len(level) + 1) \div 2 |->
     inner_hash(level[2 * i - 1], level[IF 2 * i <= Len(level) THEN 2 * i ELSE 2 * i - 1])]

\* The 0-based index of the sibling in the level, which is the node itself
\* when the node is the odd one.
Sibling(level, idx) == IF idx % 2 = 1 THEN idx - 1
                       ELSE IF idx + 1 < Len(level) THEN idx + 1
                       ELSE idx

\* The leaves, hashed, and the levels above them.
levels(leaves) ==
  LET level[k \in 0 .. Len(leaves)] ==
        IF k = 0 THEN [i \in DOMAIN leaves |-> leaf_hash(leaves[i])]
                 ELSE Parents(level[k - 1])
  IN  level

\* MerkleTree::build: the levels up to the first that is one node, the root.
build(leaves) ==
  LET level == levels(leaves)
      depth == CHOOSE k \in 0 .. Len(leaves) :
                 Len(level[k]) = 1 /\ \A j \in 0 .. k - 1 : Len(level[j]) # 1
  IN  [k \in 1 .. depth + 1 |-> level[k - 1]]

root(tree) == Last(tree)[1]

\* The place, in each level of a tree, of the nodes from the leaf with the
\* 0-based index leaf_index to the root.
indices(tree, leaf_index) ==
  LET idx[k \in 1 .. Len(tree)] == IF k = 1 THEN leaf_index ELSE idx[k - 1] \div 2
  IN  idx

\* The inclusion proof of a leaf: a sibling for each level below the root.
proof(tree, leaf_index) ==
  LET idx == indices(tree, leaf_index)
  IN  [leaf_index |-> leaf_index,
       path |-> [k \in 1 .. Len(tree) - 1 |->
                   [sibling |-> tree[k][Sibling(tree[k], idx[k]) + 1],
                    is_left |-> idx[k] % 2 = 1]]]

\* The hashes of MerkleProof::verify on its walk from the leaf to the root.
walk(path, leaf_data) ==
  LET current[k \in 0 .. Len(path)] ==
        IF k = 0 THEN leaf_hash(leaf_data)
        ELSE IF path[k].is_left THEN inner_hash(path[k].sibling, current[k - 1])
        ELSE inner_hash(current[k - 1], path[k].sibling)
  IN  current

verify(prf, expected_root, leaf_data) ==
  walk(prf.path, leaf_data)[Len(prf.path)] = expected_root
=============================================================================
