CONSTANTS
  Repo = {r1}
  Env = {e1, e2}
  Name = {a}
  Torn = torn
  Ref <- SameRefs
  Manifest <- Untorn
  Teardown = {}
  Ptr = {p1, p2}
  Job = {j1}
  Nil = Nil
  Absent = Absent
  FinalizerEnabled = TRUE
  MaxCommits = 2
  MaxEdits = 0
  MaxDeletes = 2
  MaxCrashes = 0
  MaxFaults = 0
SPECIFICATION FairSpec
CHECK_DEADLOCK FALSE
PROPERTY DeletionCompletes
PROPERTY PushReachesEveryEnvironment
PROPERTY GitStateNeverMovesBack
