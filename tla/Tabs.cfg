\* Overlapping connections of an agent, a test, and a tab that comes and goes.
SPECIFICATION TabsSpec
CONSTANTS
  Agents = {a1}
  MaxTests = 1
  MaxConns = 2
  maxEvents = 2
  QueueSize = 2
INVARIANTS
  TabsTypeOK
  OnlineIsServed
  SupersededIsClosed
  OutageIsNoted
  NewestReachesTab
PROPERTIES
  LeaversAreForgotten
  TabsHoldUpNobody
