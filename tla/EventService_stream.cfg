CONSTANTS
  validation = validation
  reconcile = reconcile
  c1 = c1
  c2 = c2
  p1 = p1
  p2 = p2
  Family = {validation, reconcile}
  Client = {c1, c2}
  Poster = {p1, p2}
  MaxEvents = 2
  MaxClock = 1
SPECIFICATION Spec
CHECK_DEADLOCK FALSE
INVARIANT NoGaps
INVARIANT ShownIsLatest
PROPERTY EveryoneIsServed
