\* One environment of at most two components, edited and deleted.
SPECIFICATION Spec
CONSTANTS
  c1 = c1
  c2 = c2
  Component = {c1, c2}
  MaxCode = 2
  MaxEvents = 3
INVARIANTS
  FollowsTheSpec
  EveryChangeIsAskedFor
  LastRunIsCurrent
  StatusIsKept
PROPERTIES
  RunIsOfWhatWasPushed
  GoesTornDown
  Settles
CHECK_DEADLOCK FALSE
