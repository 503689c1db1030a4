SPECIFICATION Spec
CONSTANTS
  Callers = {c1, c2}
  MaxAttempt = 3
  MaxRecords = 3
  MaxLag <- ExecutorBehind
  MaxReports = 2
  MaxCrashes = 1
  MaxAlterations = 1
  OtherIds = {0}
  OtherTimes = {0}
  OtherContents <- AlteredContent
  OtherHashes <- AlteredHash
SYMMETRY Symmetry
INVARIANTS
  NumbersAreShared
  EventsReportRows
  VerifiedIsFaithful
  SerialTrailVerifies
CHECK_DEADLOCK FALSE
