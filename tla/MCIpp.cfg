SPECIFICATION FairSpec
CONSTANTS
  p1 = p1
  c1 = c1
  c2 = c2
  Callers <- TwoCallers
  Does <- TheirCalls
  Printers <- OnePrinter
  Supports <- OldVersions
  Follows <- SamePrinter
  UnavailableMax = 1
  BadMax = 0
  MaxCalls <- FewCalls
INVARIANTS
  RequestsAreSafe
  VersionSettles
PROPERTIES
  EveryCallEnds
CHECK_DEADLOCK FALSE
