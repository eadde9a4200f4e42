\* Safety of the decryption run, whatever key generation left on disk.
CONSTANTS
  Node = {n1, n2, n3}
  Reg = Reg
  Disks <- AnyDisk
SPECIFICATION Spec
SYMMETRY Symmetry
INVARIANTS
  TypeOK
  SharesUnderOneKey
  DecryptsTheTotal
  SentOnce
PROPERTY
  PhasesInStep
\* The processes wait for connections for ever.
CHECK_DEADLOCK FALSE
