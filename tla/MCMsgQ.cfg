SPECIFICATION Spec
CONSTANTS
  t1 = t1
  t2 = t2
  t3 = t3
  m1 = m1
  m2 = m2
  Threads <- ThreeThreads
  Messages <- TwoMessages
  MaxMsgs = 2
INVARIANTS
  Accounted
PROPERTIES
  KeepsFifo
CHECK_DEADLOCK FALSE
