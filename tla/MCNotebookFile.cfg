CONSTANTS
  Bases = {"a", "b", "cell"}
  NoBase = ""
  Names <- MCNames
  Sources = {"# a", "x"}
  AutoName <- MCAutoName
  Books <- MCBooks
  MaxCells = 3
  MaxCalls = 4
  MaxEdits = 1
  MaxKeys = 4
  MaxSnapshots = 2
SPECIFICATION Spec
INVARIANTS TypeOK NamesIdentify UndoIsStack
PROPERTIES ChangesOneCell
