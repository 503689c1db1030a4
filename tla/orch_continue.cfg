SPECIFICATION Spec
CONSTANTS
  Consumers = {c1, c2}
  Log <- ThreeFailures
  MaxRetries = 3
  RestartOnError = FALSE
  MaxFaults = 1
  MaxRebalances = 1
  Executor = executor
  Nobody = nobody
PROPERTIES
  KeepsPlanning
  ClosedStaysClosed
CHECK_DEADLOCK FALSE
