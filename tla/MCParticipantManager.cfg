SPECIFICATION ManagerSpec
CONSTANTS
  Threads = {t1, t2}
  TopicNames = {n1, n2}
  TypeNames = {ty1, ty2}
  TypeObjs = {o1, o2, o3}
  TopicIds = {i1, i2}
  Endpoints = {e1, e2}
  None = None
  Null = Null
SYMMETRY Symmetry
INVARIANTS
  ManagerInv
  TopicsHaveCreatorsType
PROPERTIES
  NullptrIsFinal
CHECK_DEADLOCK FALSE
