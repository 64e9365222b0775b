SPECIFICATION Spec
CONSTANTS
  Threads = {t1, t2, t3}
  Objects = {p1, p2, p3}
  None = None
SYMMETRY Symmetry
INVARIANTS
  CallsStayInOneParticipant
  OneParticipant
CHECK_DEADLOCK FALSE
