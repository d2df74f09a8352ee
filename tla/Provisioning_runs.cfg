CONSTANTS
  a = a
  b = b
  d = d
  Comp = {a, b}
  Terraform = {a, b}
  DependsOn <- Chain
  Code = {"v1"}
  Manifest <- UpOrDown
  Patch = {p1}
  MaxEdits = 0
  MaxApprovals = 0
  MaxFaults = 2
  MaxLost = 0
SPECIFICATION FairSpec
CHECK_DEADLOCK FALSE
INVARIANT RowIsTrue
INVARIANT StatusIsTrue
PROPERTY InOrder
PROPERTY LatestIsAnswered
