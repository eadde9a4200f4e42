\* Progress of the key generation run.  Three nodes: the smallest group in
\* which a node waits for more than one peer.
CONSTANTS
  Node = {n1, n2, n3}
  Reg = Reg
SPECIFICATION FairSpec
PROPERTY EventuallyWritten
\* The processes wait for connections for ever.
CHECK_DEADLOCK FALSE
