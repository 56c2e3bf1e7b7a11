\* Two clients contend for one session; an update or delete may be dropped midway.
SPECIFICATION Spec
CONSTANTS
  Peers = {p1, p2}
  Targets = {t1, t2}
  Sessions = {s1, s2}
  MaxSessions = 1
  MaxGeneration = 1
  BatchSize = 1
  Cancels = TRUE
  None = None
SYMMETRY Symmetry
CHECK_DEADLOCK FALSE
INVARIANTS
  UdpInv
  SessionLimit
  NoLateReplies
