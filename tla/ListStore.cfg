\* One list, bundled or not, two texts, two checks at once.
SPECIFICATION Spec
CONSTANTS
  Lists = {l1}
  Texts = {t1, t2}
  CheckWorkers = 1
  MaxURLs = 2
  MaxSaves = 3
  MaxChecks = 2
  MaxCrashes = 1
INVARIANTS
  TypeOK
  ListsSurvive
  ChecksAddUp
PROPERTIES
  ChecksEnd
\* The bounds on saves, checks and restarts run out.
CHECK_DEADLOCK FALSE
