SPECIFICATION Spec
CONSTANTS
  Secondary = FALSE
  Interrupts = TRUE
  Missing = Missing
  MaxAttempts = 2
INVARIANTS
  GoodAlwaysSurvives
CHECK_DEADLOCK FALSE
