SPECIFICATION Spec
CONSTANTS
  w1 = w1
  w2 = w2
  Free = Free
  Workers <- TwoWorkers
  LastAttempt = 2
  MaxRetries = 2
  InitialRequests <- First
  Replans <- NoPlan
  LostAnswers = FALSE
  PolicyVerdicts <- NoVerdict
  EarlyExpiry = FALSE
  FaultPoints <- AtSettle
  MaxFaults = 1
INVARIANTS
  OneCallPerKey
