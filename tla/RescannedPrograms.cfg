SPECIFICATION MCSpec
CONSTANTS
  Absent = Absent
  Uncertain = Uncertain
  NotSaved = NotSaved
  Parameters = {globaldefs, tolerance}
  Integers = {zero, one}
  Preset = {globaldefs}
  InitialValue = zero
  Initex = FALSE
  MaxDepth = 2
  Parts = {"programs"}
  Languages <- MCLanguages
  Sources <- MCSources
  Budgets <- MCBudgets
  Bodies <- MCBodies
  Programs <- MCPrograms
  Budget = 16
  MaxNesting = 3
  MaxStack = 9
  MaxStarts = 3
INVARIANT
  FailsAsIssue
CHECK_DEADLOCK FALSE
