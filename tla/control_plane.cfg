\* One allocation that is created, bound, unbound and deleted while views look at it; or two
\* scrapes at a time of one TCP listener that comes and goes.
SPECIFICATION ControlSpec
CONSTANTS
  Ids = {a1}
  Clients = {c1}
  Hosts = {h1, h2}
  Targets = {1}
  LegacyIds = {}
  None = None
  BadHost = BadHost
  MaxPort = 2
  RangeStart = 1
  RangeEnd = 1
  MaxHalfDone = 1
  Keys <- MCKeys
  Scrapers = {s1, s2}
  MaxBytes = 3
  MaxEpoch = 2
  MaxTime = 1
SYMMETRY Symmetry
INVARIANTS
  ControlInv ShownWasStored QuietViewAgrees
PROPERTIES
  RatesWitnessed FirstRateIsZero
