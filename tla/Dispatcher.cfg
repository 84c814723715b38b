SPECIFICATION Spec
CONSTANTS
  GroupKinds = {"simple", "semi_simple"}
  Indices = {1}
  MaxTokens = 5
  MaxInputs = 3
INVARIANTS
  TypeOK
  SelectedAsTeX
  StopsForCause
  StructureIsTrue
  NothingLost
CHECK_DEADLOCK FALSE
