\* two save handles, two user declarations and three instantiations
SPECIFICATION Spec
CONSTANTS
  glob = glob
  func = func
  struct = struct
  ctor = ctor
  var = var
  None = None
  UserNode <- MCUserNode
  LateNode <- MCLateNode
  Kind <- MCKind
  MaxHandles = 2
INVARIANTS
  TypeOK
  TagsExact
  NoDuplicateRoots
  OnlyShiftedNodesAreLost
  InstantiationsReachSema
