\* Every RPC and post may fail, the chain may switch forks, the connection may be
\* lost, the process may be stopped anywhere; goroutines, node and webhook are fair.
SPECIFICATION FairSpec
CONSTANTS
  g = g
  a1 = a1
  a2 = a2
  b1 = b1
  b2 = b2
  t1 = t1
  t2 = t2
  l1 = l1
  Block <- MCBlock
  Genesis = g
  Number <- MCNumber
  ChainOf <- MCChainOf
  Tx <- MCTx
  TxsOf <- MCTxsOf
  Log <- MCLog
  LogsIn <- MCLogsIn
  LogTx <- MCLogTx
  LogKind <- MCLogKind
  Whale = {t1}
  Watched = {"erc20"}
  Conf = 1
  Channel = {"slack"}
  HeadsNeverShrink = TRUE
  ConnectionMayDrop = TRUE
  MaxMoves = 2
  Native = Native
  NoBlock = NoBlock
  NoAlert = NoAlert
INVARIANTS
  TypeOK
  NoOverduePending
  PendingGaugeExact
  VerdictsBacked
  WhalesAlertedOncePerPass
  MetricsReconcile
PROPERTIES
  ConfirmedAtDepth
  EveryHeadReached
  JudgedOnceDue
CHECK_DEADLOCK FALSE
