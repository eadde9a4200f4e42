\* The finish flags can overtake the regulator's list.
CONSTANTS
  Node = {n1, n2, n3}
  Reg = Reg
SPECIFICATION FairSpec
PROPERTY EveryNodeFinishes
\* The processes wait for connections for ever.
CHECK_DEADLOCK FALSE
