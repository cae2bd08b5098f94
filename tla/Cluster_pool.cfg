SPECIFICATION FairSpec
CONSTANTS
  Handler = {h1, h2, h3}
  Path = {p1}
  Server = {s1, s2}
  NearServer = s2
  Rank <- RankOf
  None = None
  Initial = 1
  Limit = 2
  MaxCalls = 3
  MaxFaults = 1
INVARIANTS
  TypeOK
  ConnectionsConserved
  TouchLostOnlyIfRaced
  StaleOnlyIfElsewhere
PROPERTIES
  RequestsEnd
CHECK_DEADLOCK FALSE
