CONSTANTS
  MaxId = 1
  Processes = {q1}
  Pollers = {p1}
  Nobody = Nobody
  MaxFaults = 0
SPECIFICATION FairSpec
PROPERTIES
  StreamYieldsAll
