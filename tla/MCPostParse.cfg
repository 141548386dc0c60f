SPECIFICATION Spec
CONSTANTS
  main = main  user = user  probe = probe
  fun1 = fun1  fun2 = fun2  var1 = var1  var2 = var2
  Node <- MCNode
  Variable <- MCVariable
  Probe <- MCProbe
  Programs <- MCPrograms
  TotalNeeds = 2
INVARIANTS TypeOK GeneratedOnce NoNodeSkipped OnlyShiftedRootsAreMissed
PROPERTY Terminates
