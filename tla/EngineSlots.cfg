\* Whether a slot that finds every worker busy is skipped.
SPECIFICATION Spec
CONSTANTS
  Workers = {w1, w2}
  MaxPending = 1
  MaxRequests = 3
  MaxChunks = 1
  MaxTicks = 3
PROPERTY BusySlotsAreSkipped
CHECK_DEADLOCK FALSE
