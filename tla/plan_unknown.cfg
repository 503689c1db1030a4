SPECIFICATION Spec
CONSTANTS
  Contexts <- Failures
  StrictText = FALSE
  BoundaryDelays <- Delays
INVARIANTS
  UnknownNotRetried
CHECK_DEADLOCK FALSE
