CONSTANTS
  Workers = {w1, w2}
  NoWorker = NoWorker
  RetryDelay = 0
  AssignTimeout = 0
  PendingTimeout = 2
  HeartbeatTimeout = 0
  Jobs = {j1}
  Handlers = {h1}
  Janitors = {c1}
  Client = Client
  MaxFaults = 1
SPECIFICATION Spec
SYMMETRY Symmetry
INVARIANTS
  TypeOK
  RunningIsReapable
  ClientToldOutcome
PROPERTIES
  OutcomeIsAttributed
  TimeoutsNeverClobber
