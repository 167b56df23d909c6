\* Two workers, two requests, every kind of test.
SPECIFICATION Spec
CONSTANTS
  Workers = {w1, w2}
  MaxPending = 1
  MaxRequests = 2
  MaxChunks = 1
  MaxTicks = 3
INVARIANTS
  TypeOK
  IntervalsWithinTotals
  FinalAddsUp
  StopIsNoFailure
PROPERTY RunReturns
\* Run returns.
CHECK_DEADLOCK FALSE
