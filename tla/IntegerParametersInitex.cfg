SPECIFICATION Spec
CONSTANTS
  Absent = Absent
  Uncertain = Uncertain
  NotSaved = NotSaved
  Parameters = {globaldefs, tolerance}
  Integers = {zero, one}
  Preset = {globaldefs}
  InitialValue = zero
  Initex = TRUE
  MaxDepth = 2
INVARIANTS
  UncertainNeverBecomesInitial
