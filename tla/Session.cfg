CONSTANTS
  Jobs = {j1}
  Workers = {w1}
  NoWorker = NoWorker
  Handlers = {h1}
  Client = Client
  Sessions = {s1, s2}
  NoJob = NoJob
  NoSlot = NoSlot
SPECIFICATION FairSpec
INVARIANTS
  TypeOK
  FollowedIsMonitored
PROPERTIES
  SessionEnds
CHECK_DEADLOCK FALSE
