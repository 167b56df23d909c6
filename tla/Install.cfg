\* Three runs of install that may fail or break off at every step.
SPECIFICATION Spec
CONSTANT MaxRuns = 3
INVARIANTS
  TypeOK
  RegisteredIsComplete
  OneAgentPerDevice
PROPERTIES
  CleanRunInstalls
  InstalledComesUp
