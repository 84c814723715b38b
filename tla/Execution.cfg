SPECIFICATION MCSpec
CONSTANTS
  Absent = Absent
  Uncertain = Uncertain
  NotSaved = NotSaved
  Parameters = {globaldefs, tolerance}
  Integers = {zero, one}
  Preset = {globaldefs}
  InitialValue = zero
  Initex = FALSE
  MaxDepth = 2
  Parts = {"parameters", "expansion", "programs"}
  Languages <- MCLanguages
  Sources <- MCSources
  Budgets <- MCBudgets
  Bodies <- MCBodies
  Programs <- MCPrograms
  Budget = 16
  MaxNesting = 3
  MaxStack = 9
  MaxStarts = 3
INVARIANTS
  TypeOK
  ReadsAreTrue
  PartsTypeOK
  ExpandsAsTeX
  AllOrNothing
  OriginsDistinct
  SharedBudget
PROPERTIES
  AllEnds
CHECK_DEADLOCK FALSE
