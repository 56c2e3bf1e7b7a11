\* Update and delete end, and the receive loop goes on, with one client and two sessions.
SPECIFICATION FairSpec
CONSTANTS
  Peers = {p1}
  Targets = {t1}
  Sessions = {s1, s2}
  MaxSessions = 2
  MaxGeneration = 1
  BatchSize = 1
  Cancels = FALSE
  None = None
CHECK_DEADLOCK FALSE
PROPERTIES
  OperationsEnd ReceiveContinues
