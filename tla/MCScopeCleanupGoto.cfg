SPECIFICATION CleanupSpec
CONSTANTS
  StatementKinds <- MCKinds
  Shapes = {"goto"}
  MaxStatements = 5
  MaxObjects = 2
  MaxConstructs = 2
INVARIANT
  AliveIsInScope
CHECK_DEADLOCK FALSE
