\* No symmetry: it is unsound for liveness.
SPECIFICATION FairSpec
CONSTANTS
  Ids = {a1}
  Clients = {c1, c2}
  Hosts = {h1}
  Targets = {1}
  LegacyIds = {a1}
  None = None
  BadHost = BadHost
  MaxPort = 2
  RangeStart = 1
  RangeEnd = 2
  MaxHalfDone = 1
PROPERTIES
  EveryCallEnds
  Recovers
