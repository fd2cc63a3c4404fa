CONSTANTS
  Transports = {t1}
  NoTransport = NoTransport
  Jobs = {j1}
  Listeners = {1, 2}
  Timers = {x1, x2}
  MaxMessages = 2
  MaxFaults = 1
  LongInterval = TRUE
  MayDrain = TRUE
SPECIFICATION FairSpec
INVARIANTS
  TypeOK
  GracefulDrainKillsNothing
PROPERTIES
  RecoversTransport
  DrainIsAnnounced
  ForcedStopEnds
  CancelIsActedOn
CHECK_DEADLOCK FALSE
