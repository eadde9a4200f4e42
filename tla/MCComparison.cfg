\* Three nodes: a node waits for more than one peer.
CONSTANTS
  Node = {n1, n2, n3}
  Reg = Reg
SPECIFICATION FairSpec
INVARIANTS
  KeyReconstructs
  FinishAfterAllDealt
PROPERTY VerdictReached
\* The processes wait for connections for ever.
CHECK_DEADLOCK FALSE
