SPECIFICATION Spec
CONSTANTS
  Names = {known}
  Undefined = Undefined
  InDoubt = InDoubt
  MaxUnits = 3
  MaxItems = 2
  Shapes <- MCOneInput
INVARIANTS
  ProgramsLeaveDoubt
CHECK_DEADLOCK FALSE
