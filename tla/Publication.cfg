SPECIFICATION MCSpec
CONSTANTS
  Secondary = TRUE
  Interrupts = TRUE
  Missing = Missing
  MaxAttempts = 2
  Unity = 16
  Limit = 8
  MaxInteger = 99
  MaxOps = 2
  Length = 3
  MaxItems = 2
  MaxQueries = 2
  Artifacts = {"master.tex", "payload"}
  Master = "master.tex"
  MaxPieces = 2
  MaxSteps = 3
  MaxNesting = 4
  NodeBudget = 40
INVARIANTS
  TypeOK
  GoodSurvives
  WholePackages
  HistoryIsTrue
  NumbersAsTeX
  SourceIsAccounted
  ContentIsTrue
CHECK_DEADLOCK FALSE
PROPERTIES
  Delivers
