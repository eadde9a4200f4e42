\* Shares can arrive in another order than that of the nodes.
CONSTANT share_counts = 5
SPECIFICATION Spec
INVARIANT
  LeafAtNodeId
\* The round is over when the transaction is assembled.
CHECK_DEADLOCK FALSE
