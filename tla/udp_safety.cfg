\* Two clients whose datagrams share a batch, and one update racing with them.
SPECIFICATION Spec
CONSTANTS
  Peers = {p1, p2}
  Targets = {t1, t2}
  Sessions = {s1, s2}
  MaxSessions = 2
  MaxGeneration = 1
  BatchSize = 2
  Cancels = FALSE
  None = None
SYMMETRY Symmetry
CHECK_DEADLOCK FALSE
INVARIANTS
  UdpInv
  TableFresh
  RightTarget
  NoLateReplies
