SPECIFICATION FairSpec
CONSTANTS
  p1 = p1
  p2 = p2
  c1 = c1
  c2 = c2
  Printers <- TwoPrinters
  Clients <- TwoClients
  Tracks <- SameOrOwn
  MaxMonitors = 2
  MaxChanges = 1
  SleepSuffices = TRUE
INVARIANTS
  MonitorsAreSafe
  ClientsAreServed
PROPERTIES
  MonitorsServe
CHECK_DEADLOCK FALSE
