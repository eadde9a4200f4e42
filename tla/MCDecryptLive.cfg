\* Progress of the decryption run with the keys of one run of key generation.
CONSTANTS
  Node = {n1, n2, n3}
  Reg = Reg
  Disks <- CleanDisk
SPECIFICATION FairSpec
PROPERTY EventuallyDecrypted
\* The processes wait for connections for ever.
CHECK_DEADLOCK FALSE
