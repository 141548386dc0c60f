SPECIFICATION Spec
CONSTANTS
  fi = fi  fp = fp  fc = fc  conv = conv  tf = tf  main = main
  Root = main
  None = None
  Member <- MCMember
  Class <- MCClass
  Name <- MCName
  IsConst <- MCIsConst
  Programs <- MCPrograms
  MaxDepth = 7
  TotalUses = 3
  Recursive = FALSE
  Conversions = TRUE
INVARIANTS TypeOK EachBodyOnce UsedMembersHaveBodies ProbedClassesStayDormant
PROPERTY Terminates
