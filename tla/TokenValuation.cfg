\* Transfers of two tokens and swaps of a pool of them; the node answers.
SPECIFICATION FairSpec
CONSTANTS
  t1 = t1
  t2 = t2
  p1 = p1
  Token = {t1, t2}
  Pool = {p1}
  Token0 <- MCToken0
  Token1 <- MCToken1
  MaxLogs = 3
INVARIANTS
  TypeOK
  DecimalsAskedOnce
  AlertsAreBacked
PROPERTIES
  EveryLogHandled
CHECK_DEADLOCK FALSE
