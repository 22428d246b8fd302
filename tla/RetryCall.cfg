\* Requests fail in every way, the limiter may refuse, the context may end.
SPECIFICATION Spec
CONSTANTS
  c1 = c1
  c2 = c2
  Caller = {c1, c2}
  CopyOf <- MCCopyOf
  RetriesOf <- MCRetriesOf
  Deadline = TRUE
INVARIANTS
  PausesAreSound
  StopsWithContext
PROPERTIES
  ImplementsRetry
  EveryCallEnds
CHECK_DEADLOCK FALSE
