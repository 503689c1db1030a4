SPECIFICATION Spec
CONSTANTS
  w1 = w1
  w2 = w2
  Free = Free
  Workers <- TwoWorkers
  LastAttempt = 2
  MaxRetries = 2
  InitialRequests <- First
  Replans <- BothWays
  LostAnswers = FALSE
  PolicyVerdicts <- AllVerdicts
  EarlyExpiry = TRUE
  FaultPoints <- NotAfterAnswer
  MaxFaults = 1
SYMMETRY Permutable
INVARIANTS
  NoDoubleDebit
  DebitAccounted
PROPERTIES
  AttemptsWriteOnce
