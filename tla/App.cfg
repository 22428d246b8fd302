\* Two processes, one after the other, on a chain that reorganises; any read, the
\* dial and the subscription may fail, and the process may be killed anywhere.
SPECIFICATION AppSpec
CONSTANTS
  g = g
  a1 = a1
  a2 = a2
  b1 = b1
  b2 = b2
  t1 = t1
  t2 = t2
  l1 = l1
  Block <- MCBlock
  Genesis = g
  Number <- MCNumber
  ChainOf <- MCChainOf
  Tx <- MCTx
  TxsOf <- MCTxsOf
  Log <- MCLog
  LogsIn <- MCLogsIn
  LogTx <- MCLogTx
  LogKind <- MCLogKind
  Whale = {t1}
  Watched = {"erc20"}
  Conf = 1
  Channel = {"slack"}
  HeadsNeverShrink = TRUE
  ConnectionMayDrop = TRUE
  MaxMoves = 2
  MaxLives = 2
  Native = Native
  NoBlock = NoBlock
  NoAlert = NoAlert
INVARIANTS
  AppTypeOK
  WatcherOutlivesErrors
PROPERTIES
  ImplementsLedger
  EndsOnSignal
CHECK_DEADLOCK FALSE
