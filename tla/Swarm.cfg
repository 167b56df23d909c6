\* One agent that may crash, two tests in turn, two connections, one call of Stop.
SPECIFICATION Spec
CONSTANTS
  Agents = {a1}
  Starters = {s1}
  Stoppers = {p1}
  MaxTests = 2
  MaxConns = 2
  SendCap = 2
  MaxStops = 1
INVARIANTS
  TypeOK
  DoneMeansOver
  ClosedMeansOver
  LiveIsCancellable
PROPERTY StopReaches
\* The bounds on tests, connections and stops run out.
CHECK_DEADLOCK FALSE
