SPECIFICATION Spec
CONSTANTS
  w1 = w1
  w2 = w2
  Free = Free
  Workers <- TwoWorkers
  LastAttempt = 2
  MaxRetries = 2
  InitialRequests <- FirstTwo
  Replans <- BothWays
  LostAnswers = FALSE
  PolicyVerdicts <- NoVerdict
  EarlyExpiry = FALSE
  FaultPoints <- NotAfterAnswer
  MaxFaults = 2
SYMMETRY Permutable
INVARIANTS
  TypeOK
  MutualExclusion
  OneCallPerKey
  EventsReportCommits
PROPERTIES
  NoCallOnClosedCase
  KeepsContract
