\* Three tokens, two to a request: full and partial batches; every goroutine
\* is scheduled.
SPECIFICATION FairSpec
CONSTANTS
  Token = {t1, t2, t3}
  BatchSize = 2
INVARIANTS
  TypeOK
  AskedOnce
PROPERTIES
  ImplementsService
  MissLeadsToRequest
  OldPriceIsRequested
CHECK_DEADLOCK FALSE
