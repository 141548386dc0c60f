SPECIFICATION CleanupSpec
CONSTANTS
  StatementKinds <- MCKinds
  Shapes = {}
  MaxStatements = 5
  MaxObjects = 2
  MaxConstructs = 2
INVARIANTS
  CleanupTypeOK
  AliveIsInScope
  DestroyedInReverse
  PrescanMirrorsVisitor
  JumpsGoWhereMeant
CHECK_DEADLOCK FALSE
