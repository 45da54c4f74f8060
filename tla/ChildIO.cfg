CONSTANTS
  i1 = i1
  a1 = a1
  a2 = a2
  a3 = a3
  a4 = a4
  NULL = NULL
  Instances = {i1}
  MaxFd = 8
  Addrs = {a1, a2, a3}
  Routes = {"stderr", "elsewhere"}
  MaxRuns = 2
  Capacity = 1
SPECIFICATION FairSpec
INVARIANTS
  IInv
  WatchersOwnFds
  ClosedWhenDry
  SourceIsThePipe
PROPERTIES
  EndedPipesAreClosed
  PrintedIsPublished
CHECK_DEADLOCK FALSE
