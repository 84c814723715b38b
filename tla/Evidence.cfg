SPECIFICATION MCSpec
CONSTANTS
  Names = {known}
  Undefined = Undefined
  InDoubt = InDoubt
  Uncertain = Uncertain
  MaxUnits = 4
  MaxItems = 2
  Shapes <- MCShapes
  Runs = {r1, r2}
  BufferLimit = 2
  MaxEvents = 3
  MaxInterrupts = 1
  Absent = Absent
  NotSaved = NotSaved
  Sources = {c, p}
  Classes = {c}
  Options = {x}
  MaxSteps = 5
  MaxDeclared = 1
  MaxGroups = 1
  Styles = {"s", "t"}
  Lists <- MCLists
  Exclusive <- MCExclusive
  Known = {"a", "b"}
  MaxCommands = 3
  Projects <- MCPapers
  Bound = {"amsmath"}
SYMMETRY MCSymmetry
INVARIANTS
  TypesOK
  FailuresSurvive
  UndoneIsUndone
  RequirementsKept
  JournalIsTrue
  PackagesAreTrue
  OptionsAsTeX
  ConfigurationsAreTrue
  PackageReadsAsPaper
PROPERTIES
  AppendOnly
CHECK_DEADLOCK FALSE
