SPECIFICATION Spec
CONSTANTS
  Secondary = FALSE
  Interrupts = FALSE
  Missing = Missing
  MaxAttempts = 2
INVARIANTS
  FailureLeavesManifest
CHECK_DEADLOCK FALSE
