\* Safety of the key generation run with the four nodes of the repository's
\* configuration (share_counts 4), up to renaming of nodes.
CONSTANTS
  Node = {n1, n2, n3, n4}
  Reg = Reg
SPECIFICATION Spec
SYMMETRY Symmetry
INVARIANTS
  TypeOK
  IdsAgree
  PublishedSharesComplete
  WrongKeyLeavesTrace
  AtMostOneWrongKey
  SentOnce
  DealingBarrier
PROPERTIES
  KeyFilesWrittenOnce
  PromiseSpec
\* The processes wait for connections for ever.
CHECK_DEADLOCK FALSE
