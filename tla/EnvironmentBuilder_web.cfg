SPECIFICATION Spec
CONSTANTS
  Comp = {c1, c2, c3}
  Root = root
  MaxEdits = 2
  MaxArrows = 2
  MaxLoads = 1
CONSTRAINT MayRecover
SYMMETRY ComponentSymmetry
INVARIANTS
  NamesFollowEdits
PROPERTIES
  KeepsDiagram
  OnlyArrowsMakeCycles
CHECK_DEADLOCK FALSE
