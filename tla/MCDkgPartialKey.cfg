\* The shares can overtake the finish flags.
CONSTANTS
  Node = {n1, n2, n3}
  Reg = Reg
SPECIFICATION Spec
INVARIANT EveryKeypairComplete
\* The processes wait for connections for ever.
CHECK_DEADLOCK FALSE
