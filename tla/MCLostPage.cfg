SPECIFICATION Spec
CONSTANTS
  MaxSpooledJobs = 1
  MaxMsgs = 2
  MaxPagesPerJob = 1
  MaxIdleWait = 1
  HandleSpace = 4
  JobKinds <- PagesIpp
  Reports <- FewReports
  StartFails = FALSE
  MaxStarts = 1
  MaxPages = 1
INVARIANTS
  CancelWakesReceiver
CHECK_DEADLOCK FALSE
