SPECIFICATION Spec
CONSTANTS
  Handler = {h1, h2}
  Path = {p1}
  Server = {s1}
  NearServer = s1
  Rank <- RankOf
  None = None
  Initial = 1
  Limit = 2
  MaxCalls = 3
  MaxFaults = 0
PROPERTIES
  ListedServersAreUsed
CHECK_DEADLOCK FALSE
