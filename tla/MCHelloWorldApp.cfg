SPECIFICATION FairAppSpec
CONSTANTS
  main = main
  Threads = {main}
  TopicOne = one
  TopicTwo = two
  TypeOne = HelloWorldOne
  TypeTwo = HelloWorldTwo
  TopicNames = {one, two}
  TypeNames = {HelloWorldOne, HelloWorldTwo}
  TypeObjs = {o1, o2}
  TopicIds = {i1, i2}
  Endpoints = {e1}
  None = None
  Null = Null
INVARIANTS
  AppTypeOK
  FlagOutlivesThread
  AtMostOneLateMessage
  DiesOnlyOfRefusal
PROPERTIES
  NewlineEndsProgram
CHECK_DEADLOCK FALSE
