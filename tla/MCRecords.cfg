\* Up to seven records of two values: batches of every size up to seven, of
\* which five pads two levels of the tree, and three, six and seven one.  Five
\* nodes: the last leaf is the odd one on two levels of the tree.
CONSTANTS
  Record = {a, b}
  MaxRecords = 7
  share_counts = 5
  Keccak256 <- Keccak
  sign <- Signature
  selector <- Selector
  Requests <- MCRequests
  nonce <- MCnonce
  import_time <- MCimport_time
  pub_bytes <- MCpub_bytes
  Cuts <- MCCuts
SPECIFICATION MCSpec
INVARIANTS
  TypeOK
  BatchesVerify
  CheckpointFixesBatch
  SharesProve
  NodeReadsTransaction
  AnswersAreRecords
  PayloadReadable
PROPERTY LogSpec
\* The bound on the records stops the caller; the round is over when the
\* transaction is assembled, and a submission when its payload is queried.
CHECK_DEADLOCK FALSE
