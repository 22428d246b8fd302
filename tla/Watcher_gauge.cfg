\* Two alerts on one transaction, one entry of w.pending.
SPECIFICATION Spec
CONSTANTS
  g = g
  a1 = a1
  a2 = a2
  b1 = b1
  b2 = b2
  t1 = t1
  t2 = t2
  l1 = l1
  Block <- MCBlock
  Genesis = g
  Number <- MCNumber
  ChainOf <- MCChainOf
  Tx <- MCTx
  TxsOf <- MCTxsOf
  Log <- MCLog
  LogsIn <- MCLogsIn
  LogTx <- MCLogTx
  LogKind <- MCLogKind
  Whale = {t1}
  Watched = {"erc20"}
  Conf = 1
  Channel = {"slack"}
  HeadsNeverShrink = TRUE
  ConnectionMayDrop = FALSE
  MaxMoves = 2
  Native = Native
  NoBlock = NoBlock
  NoAlert = NoAlert
INVARIANTS
  PendingCountsUnjudged
CHECK_DEADLOCK FALSE
