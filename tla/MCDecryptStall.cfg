\* A node can push its own ciphertext or share last, and does not go on.
CONSTANTS
  Node = {n1, n2, n3}
  Reg = Reg
  Disks <- CleanDisk
SPECIFICATION FairSpec
PROPERTY EveryNodeDecrypts
\* The processes wait for connections for ever.
CHECK_DEADLOCK FALSE
