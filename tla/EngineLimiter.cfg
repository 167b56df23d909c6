\* Whether the limiter can turn the end of a test into a failed request.
SPECIFICATION Safety
CONSTANTS
  Workers = {w1}
  MaxPending = 1
  MaxRequests = 2
  MaxChunks = 2
  MaxTicks = 1
INVARIANT StopIsNeverFailure
CHECK_DEADLOCK FALSE
