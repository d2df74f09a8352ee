CONSTANTS
  c1 = c1
  c2 = c2
  e1 = e1
  e2 = e2
  u1 = u1
  u2 = u2
  Patcher = {u1, u2}
  Component = {c1, c2}
  Error = {e1, e2}
  MaxEvents = 4
SPECIFICATION Spec
SYMMETRY Symmetry
CHECK_DEADLOCK FALSE
INVARIANT ErrorsAreShown
INVARIANT OutcomeIsShown
INVARIANT CostIsTheSum
CONSTRAINT MayBeAskedAgain
