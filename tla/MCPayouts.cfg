CONSTANTS
  Workers = {w1, w2}
  LedgerFee = 10000
  None = None
  Sales <- MCSales
  Undecodable <- MCUndecodable
  Batch <- MCBatch
SPECIFICATION MCFair
CHECK_DEADLOCK FALSE
INVARIANTS EveryJobInOnePlace DrainedMeansDone NothingIsDropped
PROPERTY EveryJobIsPaid
