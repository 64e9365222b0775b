SPECIFICATION ListenerSpec
CONSTANTS
  Threads = {t1, t2, t3}
  TopicNames = {n1}
  TypeNames = {ty1}
  TypeObjs = {o1, o2}
  TopicIds = {i1}
  Endpoints = {e1, e2}
  None = None
  Null = Null
SYMMETRY Symmetry
INVARIANTS
  DeadlockOnlyByCallbacks
  CallbackHasReader
CHECK_DEADLOCK FALSE
