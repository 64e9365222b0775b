SPECIFICATION FairSpec
CONSTANTS
  Threads = {t1, t2}
  TopicNames = {n1}
  TypeNames = {ty1}
  TypeObjs = {o1, o2}
  TopicIds = {i1}
  Endpoints = {e1, e2}
  None = None
  Null = Null
PROPERTIES
  LockReleased
CHECK_DEADLOCK FALSE
