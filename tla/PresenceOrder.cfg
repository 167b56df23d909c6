\* Whether the events of a test end with the agent's true presence.
SPECIFICATION Spec
CONSTANTS
  Agents = {a1}
  MaxTests = 1
  MaxConns = 2
  maxEvents = 3
INVARIANT LastEventIsTrue
CHECK_DEADLOCK FALSE
