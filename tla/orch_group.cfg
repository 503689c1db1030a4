SPECIFICATION FairSpec
CONSTANTS
  Consumers = {c1, c2}
  Log <- FailedTwice
  MaxRetries = 3
  RestartOnError = TRUE
  MaxFaults = 1
  MaxRebalances = 2
  Executor = executor
  Nobody = nobody
INVARIANTS
  TypeOK
  SinglePlanner
  AnnouncementsReportCommits
  OffsetsAfterCommit
PROPERTIES
  EveryFailurePlanned
CHECK_DEADLOCK FALSE
