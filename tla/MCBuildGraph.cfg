CONSTANTS
  x = x
  y = y
  N = 3
  Vars = {x, y}
SYMMETRY VarSymmetry
SPECIFICATION Spec
INVARIANTS TypeOK ParentsRight EdgesGoDown ClosureRight
CHECK_DEADLOCK FALSE
