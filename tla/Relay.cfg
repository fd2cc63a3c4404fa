CONSTANTS
  MaxId = 2
  Processes = {q1}
  Pollers = {p1, p2}
  Nobody = Nobody
  MaxFaults = 1
SPECIFICATION FairSpec
INVARIANTS
  TypeOK
PROPERTIES
  IsMailbox
  PollsFindIt
