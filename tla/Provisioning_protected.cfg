CONSTANTS
  a = a
  b = b
  d = d
  Comp = {a, b, d}
  Terraform = {a, b}
  DependsOn <- Outer
  Code = {"v1"}
  Manifest <- Protecting
  Patch = {p1}
  MaxEdits = 1
  MaxApprovals = 1
  MaxFaults = 1
  MaxLost = 1
SPECIFICATION Spec
CHECK_DEADLOCK FALSE
INVARIANT TypeOK
INVARIANT OneApprovalOnePlan
PROPERTY ProtectedSurvives
