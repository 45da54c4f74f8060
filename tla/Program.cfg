CONSTANTS
  p1 = p1
  p2 = p2
  c1 = c1
  jls = jls
  ghost = ghost
  NULL = NULL
  NoPid = NoPid
  ForkFailed = ForkFailed
  Pids = {p1, p2}
  FlapMax = 0
  FlapBound = 1
  DaemonIds <- MCDaemons
  Users <- MCUsers
  Groups <- MCGroups
  Offers <- MCOffers
  Statuses <- OneStatus
SPECIFICATION FairSpec
INVARIANTS
  Inv
  ReadBack
PROPERTIES
  RunsAsAsked
  RootCanStart
  WaitIsTrue
  WaitReturns
