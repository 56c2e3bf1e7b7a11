\* One client: a reply is checked, the update changes the generation, the reply is sent.
SPECIFICATION Spec
CONSTANTS
  Peers = {p1}
  Targets = {t1}
  Sessions = {s1}
  MaxSessions = 1
  MaxGeneration = 1
  BatchSize = 1
  Cancels = FALSE
  None = None
CHECK_DEADLOCK FALSE
PROPERTY
  StaleNeverSent
