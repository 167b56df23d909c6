\* One call of Start at a time; a call of Stop outlives its test.
SPECIFICATION Safety
CONSTANTS
  Agents = {a1}
  Starters = {s1}
  Stoppers = {p1}
  MaxTests = 2
  MaxConns = 1
  SendCap = 2
  MaxStops = 1
INVARIANT CancelledForAReason
CHECK_DEADLOCK FALSE
