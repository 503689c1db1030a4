SPECIFICATION SpecAgent
CONSTANTS
  Contexts <- Ambiguous
  StrictText = TRUE
  BoundaryDelays <- NoDelay
  Latencies <- SlowOrFast
  AttemptCounts <- Counts
  Customers <- Profiles
  MaxToolCalls = 5
  CustomerCodes <- NotifyCodes
INVARIANTS
  AuditPrecedesDecision
  StoredMeansRead
  RecordedAttemptsBind
CHECK_DEADLOCK FALSE
