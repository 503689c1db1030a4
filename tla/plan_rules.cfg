SPECIFICATION Spec
CONSTANTS
  Contexts <- FailuresAndBenchmark
  StrictText = TRUE
  BoundaryDelays <- Delays
INVARIANTS
  ApprovedMeansSafe
  RetryHasBasis
  PolicyAddsOnly
  BoundaryMeansSafe
  ReportIsEarned
CHECK_DEADLOCK FALSE
