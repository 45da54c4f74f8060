CONSTANTS
  c1 = c1
  c2 = c2
  c3 = c3
  p1 = p1
  p2 = p2
  NULL = NULL
  NoPid = NoPid
  ForkFailed = ForkFailed
  Outsider = Outsider
  Pids = {p1}
  Garbage = Garbage
  Programs <- MCOneProcess
  IntBits = 3
  Clients = {c1, c2, c3}
  Requests <- FewRequests
SPECIFICATION FairSpec
INVARIANTS
  Inv
PROPERTIES
  AloneIsAnswered
  BacklogIsServed
