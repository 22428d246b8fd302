\* The comment in Aggregate: no false negative, although the chain may move.
SPECIFICATION Spec
CONSTANTS
  g = g
  a1 = a1
  a2 = a2
  a3 = a3
  b1 = b1
  b2 = b2
  b3 = b3
  la = la
  lb = lb
  tx = tx
  rare = rare
  common = common
  Block = {g, a1, a2, a3, b1, b2, b3}
  Genesis = a3
  Number <- MCNumber
  ChainOf <- MCChainOf
  Tx = {tx}
  TxsOf <- MCTxsOf
  Log = {la, lb}
  LogsIn <- MCLogsIn
  LogTx <- MCLogTx
  HeadsNeverShrink = FALSE
  ConnectionMayDrop = FALSE
  MaxMoves = 1
  Topic = {rare, common}
  TopicOf <- MCTopicOf
  Bloom <- MCBloom
  BlockCount = 3
  Concurrency = 2
  Retries = 1
INVARIANTS
  NoFalseNegative
CHECK_DEADLOCK FALSE
