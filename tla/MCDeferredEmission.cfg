SPECIFICATION Spec
CONSTANTS
  main = main  in1 = in1  in2 = in2  mem1 = mem1  mem2 = mem2
  lam = lam  inner = inner  gen1 = gen1  gen2 = gen2  loc = loc  loc2 = loc2  nested = nested
  Function <- MCFunction
  Kind <- MCKind
  Owner <- MCOwner
  Members <- MCMembers
  Programs <- MCPrograms
  TotalUses = 3
  Subset = {main, in1, in2, mem1, lam, gen1, loc, nested}
INVARIANTS TypeOK CalledFunctionsEmitted CollectedInTimeIsEmitted
PROPERTY Terminates
