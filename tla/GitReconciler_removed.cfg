CONSTANTS
  Repo = {r1}
  Env = {e1, e2}
  Name = {a}
  Torn = torn
  Ref <- SameRefs
  Manifest <- Untorn
  Teardown = {}
  Ptr = {p1, p2}
  Job = {j1}
  Nil = Nil
  Absent = Absent
  FinalizerEnabled = TRUE
  MaxCommits = 2
  MaxEdits = 0
  MaxDeletes = 1
  MaxCrashes = 0
  MaxFaults = 0
SPECIFICATION Spec
CHECK_DEADLOCK FALSE
INVARIANT NeverStranded
