SPECIFICATION PrintedSpec
CONSTANTS
  Requests <- AllRequests
  Drawn <- DrawnRequests
  Images <- AllFiles
  Pages <- DrawnPages
  DefaultResolution = 1
  BestResolution = 2
  StripHeight = 3
  MaxSendBuffs = 2
  MaxDecodeMem = 60
  MinDecodeMem = 34
  RowUnit = 2
INVARIANTS
  JobIsAsWanted
  PageIsRight
  GoodImagesPrint
PROPERTIES
  BegunPageEnds
CHECK_DEADLOCK FALSE
