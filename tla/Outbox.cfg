\* More frames than the outbox holds, over several sessions.
SPECIFICATION Spec
CONSTANTS
  OutboxMax = 2
  MaxFrames = 5
  MaxSessions = 3
INVARIANTS
  TypeOK
  KeptIsBounded
  NoLostWakeup
  InOrder
PROPERTIES
  StableLinkDrains
  ImplementsLossyQueue
\* The sessions of the bound run out.
CHECK_DEADLOCK FALSE
