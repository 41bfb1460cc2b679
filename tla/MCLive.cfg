SPECIFICATION FairSpec
CONSTANTS
  MaxSpooledJobs = 1
  MaxMsgs = 2
  MaxPagesPerJob = 2
  MaxIdleWait = 1
  HandleSpace = 2
  JobKinds <- LiveKinds
  Reports <- FewReports
  StartFails = TRUE
  MaxStarts = 2
  MaxPages = 1
PROPERTIES
  EveryJobEnds
  CancelledJobEnds
CHECK_DEADLOCK FALSE
