\* One client: the reply loop of a session closed before its handle is stored.
SPECIFICATION FairSpec
CONSTANTS
  Peers = {p1}
  Targets = {t1}
  Sessions = {s1}
  MaxSessions = 1
  MaxGeneration = 1
  BatchSize = 1
  Cancels = FALSE
  None = None
CHECK_DEADLOCK FALSE
PROPERTY
  ReplyLoopsEnd
