CONSTANTS
  MaxAttempts = 2
  BatchSize = 1
  MaxLogs = 2
  MaxSignals = 3
  MaxFailures = 1
SPECIFICATION FairSpec
INVARIANTS
  TypeOK
  ProcessIsStopped
  LogIsComplete
  DuplicatesAreExplained
PROPERTIES
  AbortIsSilent
  IsRunner
  StopsWhenAsked
  LinesAreFlushed
CHECK_DEADLOCK FALSE
