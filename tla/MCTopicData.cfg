SPECIFICATION Spec
CONSTANTS
  Messages <- MCMessages
  MaxWrites = 2
INVARIANTS
  TypeOK
  SizeIsExact
  OnlyOversizedRefused
  ReceivedIsSent
CHECK_DEADLOCK FALSE
