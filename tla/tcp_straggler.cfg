\* One session, one update that runs to its end.
SPECIFICATION FairSpec
CONSTANTS
  MaxSessionId = 1
  MaxGeneration = 1
  SpliceEnabled = TRUE
  ForceFallback = FALSE
  Cancels = FALSE
  None = None
CHECK_DEADLOCK FALSE
PROPERTIES
  StaleSessionsEnd
