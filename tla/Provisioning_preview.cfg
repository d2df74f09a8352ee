CONSTANTS
  a = a
  b = b
  d = d
  Comp = {a}
  Terraform = {a}
  DependsOn <- One
  Code = {"v1"}
  Manifest <- Asking
  Patch = {p1}
  MaxEdits = 1
  MaxApprovals = 1
  MaxFaults = 0
  MaxLost = 0
SPECIFICATION Spec
CHECK_DEADLOCK FALSE
INVARIANT AppliedIsApproved
