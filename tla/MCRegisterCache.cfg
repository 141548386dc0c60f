SPECIFICATION Spec
CONSTANTS
  rax = rax
  rcx = rcx
  rdx = rdx
  r8 = r8
  x = x
  Order <- MCOrder
  RAX = rax
  RCX = rcx
  RDX = rdx
  CallerSaved <- MCCallerSaved
  ScratchOrder <- MCScratchOrder
  Parameter = rdx
  Number <- MCNumber
  Names <- MCNames
  MaxTemps = 4
  None = None
  Junk = Junk
INVARIANTS
  TypeOK
  CachedMeansDirty
  ReadsFindTheirValue
  StoresAtAJoinHitNoOlderSlot
CONSTRAINT
  OneSpoiled
