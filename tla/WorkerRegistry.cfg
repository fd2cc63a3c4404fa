CONSTANTS
  Workers = {w1}
  Handlers = {h1, h2}
  Janitors = {c1}
  Transports = {t1}
  NoTransport = NoTransport
  Table = Table
  Tokens = {k1, k2}
  NoToken = NoToken
  StaleAfter = 0
  MaxFaults = 1
SPECIFICATION FairSpec
INVARIANTS
  TypeOK
  RowsAreWhole
  RegisteringIsReapable
PROPERTIES
  TokensComeFromRegistrations
  SilentGoesOffline
  UnreachableGoesOffline
