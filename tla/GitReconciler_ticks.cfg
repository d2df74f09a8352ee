CONSTANTS
  Repo = {r1}
  Env = {e1, e2}
  Name = {a}
  Torn = torn
  Ref <- SameRefs
  Manifest <- OneComponent
  Teardown <- OneTorn
  Ptr = {p1, p2}
  Job = {j1, j2}
  Nil = Nil
  Absent = Absent
  FinalizerEnabled = TRUE
  MaxCommits = 2
  MaxEdits = 1
  MaxDeletes = 1
  MaxCrashes = 1
  MaxFaults = 1
SPECIFICATION Spec
SYMMETRY Symmetry
CONSTRAINT OneTrouble
CHECK_DEADLOCK FALSE
INVARIANT TypeOK
INVARIANT RecordedMeansGenerated
INVARIANT CalmIsNeverStranded
