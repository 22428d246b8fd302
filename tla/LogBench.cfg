\* Three blocks in chunks of two, two goroutines, one retry; one head change; three losses.
SPECIFICATION FairSpec
CONSTANTS
  g = g
  a1 = a1
  a2 = a2
  a3 = a3
  b2 = b2
  b3 = b3
  t1 = t1
  t2 = t2
  l1 = l1
  l2 = l2
  Block = {g, a1, a2, a3, b2, b3}
  Genesis = a3
  Number <- MCNumber
  ChainOf <- MCChainOf
  Tx = {t1, t2}
  TxsOf <- MCTxsOf
  Log = {l1, l2}
  LogsIn <- MCLogsIn
  LogTx <- MCLogTx
  HeadsNeverShrink = TRUE
  ConnectionMayDrop = FALSE
  MaxMoves = 1
  Retries = 1
  BlockCount = 3
  Concurrency = 2
  ChunkSize = 2
  MaxLosses = 3
INVARIANTS
  TypeOK
  MismatchMeansLoss
  ChunksCutTheRange
  NeverTooMany
PROPERTIES
  RunReturns
CHECK_DEADLOCK FALSE
