SPECIFICATION FairSpec
CONSTANTS
  Depth = 1
  Batch = 3
  MaxSent = 4
PROPERTIES
  NewestDelivered
  NothingStaysBehind
CHECK_DEADLOCK FALSE
