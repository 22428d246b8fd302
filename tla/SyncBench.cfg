\* The socket and one poller with one retry; three head changes, up or down.
SPECIFICATION FairSpec
CONSTANTS
  g = g
  a1 = a1
  a2 = a2
  a3 = a3
  b1 = b1
  fast = fast
  Block = {g, a1, a2, a3, b1}
  Genesis = g
  Number <- MCNumber
  ChainOf <- MCChainOf
  Tx = {}
  TxsOf <- MCNoTxs
  Log = {}
  LogsIn <- MCNoLogs
  LogTx <- MCNoLogTx
  HeadsNeverShrink = FALSE
  ConnectionMayDrop = TRUE
  MaxMoves = 3
  Retries = 1
  Poller = {fast}
INVARIANTS
  TypeOK
  EachBlockRecordedOnce
PROPERTIES
  ComparedWhenOver
  RunReturns
CHECK_DEADLOCK FALSE
