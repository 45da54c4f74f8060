CONSTANTS
  i1 = i1
  w1 = w1
  w2 = w2
  p1 = p1
  NULL = NULL
  NoPid = NoPid
  ForkFailed = ForkFailed
  Pids = {p1}
  FlapMax = 1
  FlapBound = 2
  Instances = {i1}
  Pages = {w1, w2}
  Statuses <- OneStatus
  QueueBound = 2
  MaxConnections = 2
SPECIFICATION FairSpec
INVARIANTS
  IInv
  LastEventIsTrue
  PageShowsState
PROPERTIES
  PagesCatchUp
