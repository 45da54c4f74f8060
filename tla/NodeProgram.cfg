CONSTANTS
  p1 = p1
  p2 = p2
  x1 = x1
  x2 = x2
  x3 = x3
  h1 = h1
  h2 = h2
  NULL = NULL
  Handles = {h1, h2}
  Programs = {p1, p2}
  Pids = {x1, x2, x3}
SPECIFICATION FairSpec
INVARIANTS
  TypeOK
  OwnerIsParent
  OneTimer
  StateIsTrue
  LastRequestWins
PROPERTIES
  StopTakesEffect
  ComesBack
