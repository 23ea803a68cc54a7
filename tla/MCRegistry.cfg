CONSTANTS
  p = p
  q = q
  Paths = {p, q}
  MaxSessions = 3
  None = None
SPECIFICATION Spec
INVARIANTS TypeOK OnlyOwnersWrite KernelsOwned
PROPERTIES NeverResurrected
SYMMETRY PathSymmetry
