SPECIFICATION Spec
CONSTANTS
  Objects = {a, b}
  Buffers <- MCBuffers
  Ids = {0, 1}
  Elements <- MCElements
  MaxLength = 2
  None = None
INVARIANTS
  EqualIsSameValue
PROPERTIES
  ImplementsValues
VIEW MCView
CHECK_DEADLOCK FALSE
