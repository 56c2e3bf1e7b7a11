\* Two sessions, two updates, a delete, splice with its fallback, dropped operations.
SPECIFICATION FairSpec
CONSTANTS
  MaxSessionId = 2
  MaxGeneration = 2
  SpliceEnabled = TRUE
  ForceFallback = FALSE
  Cancels = TRUE
  None = None
CHECK_DEADLOCK FALSE
INVARIANTS
  DeletedClean HandlesExact GaugeExact ErrorOfTarget ListedAccepts TcpInv
PROPERTIES
  OperationsEnd ClosedEnds PortReleased
