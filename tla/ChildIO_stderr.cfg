CONSTANTS
  i1 = i1
  a1 = a1
  a2 = a2
  a3 = a3
  a4 = a4
  NULL = NULL
  Instances = {i1}
  MaxFd = 8
  Addrs = {a1, a2, a3, a4}
  Routes = {"stdout", "stderr", "elsewhere"}
  MaxRuns = 2
  Capacity = 1
SPECIFICATION Spec
SYMMETRY Symmetry
INVARIANTS
  StderrIsRedirected
CHECK_DEADLOCK FALSE
