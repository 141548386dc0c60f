\* the comment in the scan on candidates that stay tied: violated
SPECIFICATION Spec
CHECK_DEADLOCK FALSE
CONSTANTS
  Classes <- classes
  DerivedFrom <- derived
  Converts <- converts
  Kinds = {"function"}
  Calls <- calls
  OverloadSets <- overloadSets
  MoreSpecialized <- moreSpecialized
  MaxOverloads = 3
INVARIANT ChoiceBeatsTheRest
