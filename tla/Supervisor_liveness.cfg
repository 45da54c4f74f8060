CONSTANTS
  i1 = i1
  i2 = i2
  i3 = i3
  p1 = p1
  p2 = p2
  p3 = p3
  p4 = p4
  a1 = a1
  a2 = a2
  a3 = a3
  a4 = a4
  NULL = NULL
  NoPid = NoPid
  ForkFailed = ForkFailed
  Listed = {i1, i2}
  Created = {}
  Pids = {p1, p2, p3}
  Addrs = {a1, a2, a3}
  Statuses <- OneStatus
  FlapMax = 1
  FlapBound = 2
  ForkMayFail = FALSE
SPECIFICATION FairSpec
PROPERTIES
  DeathLeadsToRestart
  StartIsSettled
