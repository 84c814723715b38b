SPECIFICATION MCSpec
CONSTANTS
  Absent = Absent
  Uncertain = Uncertain
  NotSaved = NotSaved
  GlobalDefs = globaldefs
  Settings <- MCSettings
  Names = {env}
  Meanings = {flag, "fallback"}
  Observed = {flag}
  Fallback = "fallback"
  Summaries <- MCSummaries
  Characters = {at}
  Categories = {letter, other}
  Preparation = TRUE
  MaxDepth = 2
SYMMETRY MCSymmetry
CHECK_DEADLOCK FALSE
INVARIANTS
  ScopedTypeOK
  MeaningsAreTrue
  ScopesAreTrue
