SPECIFICATION Spec
CONSTANTS
  MaxSpooledJobs = 1
  MaxMsgs = 2
  MaxPagesPerJob = 4
  MaxIdleWait = 0
  HandleSpace = 4
  JobKinds <- AllKinds
  Reports <- FewReports
  StartFails = FALSE
  MaxStarts = 2
  MaxPages = 2
INVARIANTS
  ThreadsAgree
  CancelWakesReceiver
  CompletedPrintsAll
PROPERTIES
  FinalIsFinal
CHECK_DEADLOCK FALSE
