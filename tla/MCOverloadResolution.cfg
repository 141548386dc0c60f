\* every order of up to three declarations
SPECIFICATION Spec
CHECK_DEADLOCK FALSE
CONSTANTS
  Classes <- classes
  DerivedFrom <- derived
  Converts <- converts
  Kinds = {"function", "constructor", "member"}
  Calls <- calls
  OverloadSets <- overloadSets
  MoreSpecialized <- moreSpecialized
  MaxOverloads = 3
INVARIANTS TypeOK BestIsChosen OrderedChoiceBeatsTheRest
