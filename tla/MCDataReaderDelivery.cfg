SPECIFICATION Spec
CONSTANTS
  Depth = 2
  Batch = 3
  MaxSent = 5
INVARIANTS
  TypeOK
  DInv
  BoundedBacklog
  NotifiedInLifetime
PROPERTIES
  ImplementsStream
CHECK_DEADLOCK FALSE
