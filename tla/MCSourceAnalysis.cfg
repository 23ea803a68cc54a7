CONSTANTS
  Builtins <- MCBuiltins
  NoName = NoName
  NotYet = NotYet
  Statements <- MCStatements
SPECIFICATION Spec
INVARIANTS Complete Exact
CHECK_DEADLOCK FALSE
