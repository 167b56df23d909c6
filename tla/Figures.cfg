\* A test of two agents with reports that are lost, late, or beyond the caps.
SPECIFICATION Spec
CONSTANTS
  a1 = a1
  a2 = a2
  Agents = {a1, a2}
  Starters = {s1}
  Stoppers = {p1}
  MaxTests = 1
  Running <- MCRunning
  Reading <- MCReading
  Failed <- MCFailed
  MaxPresence <- MCMaxPresence
  maxHistory = 1
  maxErrorLog = 2
  maxEvents = 2
INVARIANTS
  TypeOK
  LogsAreNewest
  EventsTellTheLink
PROPERTIES
  EveryTestCloses
  TotalsAreFinal
  TotalsNeverFall
\* Once the tests of the bound are over nothing happens any more.
CHECK_DEADLOCK FALSE
