CONSTANTS
  MaxAttempts = 2
  BatchSize = 1
  MaxLogs = 1
  MaxSignals = 2
  MaxFailures = 0
SPECIFICATION Spec
INVARIANTS
  CancelIsReported
CHECK_DEADLOCK FALSE
