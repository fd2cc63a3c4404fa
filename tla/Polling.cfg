CONSTANTS
  MaxId = 2
  Processes = {q1}
  Pollers = {p1, p2}
  NoPoller = NoPoller
  MaxFaults = 1
SPECIFICATION FairSpec
INVARIANTS
  TypeOK
  NothingIsSleptThrough
  DrainIsHeard
  LossIsExplained
PROPERTIES
  IsMailbox
