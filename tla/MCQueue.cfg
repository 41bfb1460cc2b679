SPECIFICATION Spec
CONSTANTS
  MaxSpooledJobs = 2
  MaxMsgs = 2
  MaxPagesPerJob = 4
  MaxIdleWait = 0
  HandleSpace = 2
  JobKinds <- SinglePort
  Reports <- FewReports
  StartFails = FALSE
  MaxStarts = 4
  MaxPages = 1
INVARIANTS
  TypeOK
  QueuedJobWillRun
  CallbacksInOrder
  ExitIsClean
PROPERTIES
  KeepsPromise
CHECK_DEADLOCK FALSE
