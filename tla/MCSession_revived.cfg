CONSTANTS
  a = a
  s1 = s1
  s2 = s2
  Cells = {a}
  Sources = {s1, s2}
  Requests <- OneCell
  Absent = Absent
  NoStamp = NoStamp
  NoTask = NoTask
  MaxSnapshots = 1
  MaxChanges = 3
  MaxBatches = 2
  MaxEpochs = 1
  OldEditorCopy = FALSE
  SaveCanFail = FALSE
SYMMETRY SourceSymmetry
SPECIFICATION Spec
INVARIANTS VoidStaysVoid
CHECK_DEADLOCK FALSE
