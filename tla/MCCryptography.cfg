\* Range proofs: the six sizes with one, two or four bits in all, every
\* combination of the secrets at the ends of the range.  Amounts: the three of
\* four nodes that the repository's configuration asks for, in every order.
\* Two hash functions; the group has 101 elements.
CONSTANTS
  q = 101
  hash_to_curve <- MCHashToCurve
  Oracles = {4, 77}
  Tapes <- MCTapes
  Jobs <- MCJobs
  share_counts = 4
  threshold = 2
  base_point2 = 58
  reg_sk <- MCReg
  f <- MCf
  Receivers <- MCReceivers
  Disks <- MCDisks
  Moneys <- MCMoneys
  tape <- MCDraws
SPECIFICATION MCSpec
INVARIANTS
  InRangeAccepted
  OutOfRangeRejected
  VerifiersAgree
  QuorumOpensTotal
  WrongKeysShow
  BatchAgrees
\* A proof is made and changed once; a run ends when its amounts are opened or
\* do not verify.
CHECK_DEADLOCK FALSE
