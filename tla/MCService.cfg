SPECIFICATION FairSpec
CONSTANTS
  j1 = j1
  Jobs <- OneJob
  MaxExtras = 1
INVARIANTS
  ServiceIsSafe
  CancelIsShown
PROPERTIES
  DoneIsLast
  EveryJobEnds
  SlotsReturn
CHECK_DEADLOCK FALSE
