\* Two ids, a database that may need migration, two ports up to u16::MAX, one operation left
\* half done between two starts.
SPECIFICATION Spec
CONSTANTS
  Ids = {a1, a2}
  Clients = {c1, c2}
  Hosts = {h1, h2}
  Targets = {1}
  LegacyIds = {a1, a2}
  None = None
  BadHost = BadHost
  MaxPort = 2
  RangeStart = 1
  RangeEnd = 2
  MaxHalfDone = 1
SYMMETRY Symmetry
INVARIANTS
  TypeOK Inv MirrorOnceOpen RuntimeAgrees NoPortOverlap
PROPERTIES
  OkMeansApplied ExhaustionIsReal ImplementsRegistry
