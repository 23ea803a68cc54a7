CONSTANTS
  a = a
  s1 = s1
  s2 = s2
  Cells = {a}
  Sources = {s1, s2}
  Requests <- OneCell
  Absent = Absent
  NoStamp = NoStamp
  NoTask = NoTask
  MaxSnapshots = 2
  MaxChanges = 3
  MaxBatches = 2
  MaxEpochs = 2
  OldEditorCopy = TRUE
  SaveCanFail = TRUE
SYMMETRY SourceSymmetry
SPECIFICATION Spec
PROPERTIES RunsKeepSources
CHECK_DEADLOCK FALSE
