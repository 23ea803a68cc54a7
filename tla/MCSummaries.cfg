CONSTANTS
  a = a
  b = b
  s1 = s1
  s2 = s2
  o1 = o1
  o2 = o2
  Cells = {a, b}
  Sources = {s1, s2}
  Outputs = {o1, o2}
  None = None
  MaxEdits = 2
  MaxRuns = 2
SYMMETRY ValueSymmetry
SPECIFICATION Spec
INVARIANTS TypeOK SummaryDescribes OutSummaryDescribes
 
