SPECIFICATION FairSpec
CONSTANTS
  w1 = w1
  w2 = w2
  Free = Free
  Workers <- TwoWorkers
  LastAttempt = 2
  MaxRetries = 2
  InitialRequests <- First
  Replans <- AStop
  LostAnswers = TRUE
  PolicyVerdicts <- NoVerdict
  EarlyExpiry = FALSE
  FaultPoints <- BeforeCommit
  MaxFaults = 1
PROPERTIES
  CallsReturn
  RetryAnnounced
