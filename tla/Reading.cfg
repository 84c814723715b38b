SPECIFICATION MCSpec
CONSTANTS
  Absent = Absent
  Uncertain = Uncertain
  NotSaved = NotSaved
  Registers = {toks0, toks1}
  Nameable = {toks0}
  TokenLists = {empty, list}
  EmptyList = empty
  Initex = TRUE
  MaxDepth = 2
  Boxes = {box0}
  Contents = {full, thin}
  Void = void
  Settled = TRUE
  MaxGroups = 3
  Streams = {0, 15}
  Files <- MCFiles
  Extended <- MCExtended
  MaxTokens = 4
  MaxSteps = 3
  Alphabets <- MCAlphabets
  Lengths <- MCLengths
  Terminators <- MCTerminators
  MaxParameters = 2
  MaxValue = 21
  Toggled <- MCToggled
  Paired <- MCPaired
  NoEndline = NoEndline
  Texts <- MCTexts
  Tables <- MCTables
  Endlines = {"ret", NoEndline}
  Wild = "M"
  MaxChanges = 1
INVARIANTS
  TypesOK
  ReadsAreTrue
  CellsAreTrue
  StreamsAreTrue
  ScansFind
  ReadsAsTeX
CHECK_DEADLOCK FALSE
