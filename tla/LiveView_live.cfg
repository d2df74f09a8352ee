SPECIFICATION Spec
CONSTANTS
  e1 = e1
  e2 = e2
  c1 = c1
  c2 = c2
  c3 = c3
  All = All
  None = None
  Env = {e1, e2}
  Comp = {c1, c2, c3}
  EnvRow = {1, 2}
  CompRow = {11, 12}
  Owner <- MCOwner
  DagAt <- MCDagAt
  RunDagAt <- MCRunDagAt
  Start <- MCStart
  MaxVersion = 3
  MaxEvents = 4
INVARIANTS
  ComponentsAreShown
  PageIsLoaded
  RunsAreListed
  PanelIsOfSelected
  ViewIsOfSelected
CHECK_DEADLOCK FALSE
