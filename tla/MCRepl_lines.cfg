SPECIFICATION ReplSpec
CONSTANTS
  HistorySize = 2
  Lines <- MCLines
  Blank <- MCBlank
  Formatted <- MCUnchanged
  NoEntry = NoEntry
  NoFile = NoFile
  MaxFile = 4
  AppendPhases = {}
  KillPhases = {}
  InitialGrowthCapacity = 2
  GrowthFactor = 2
  Chars = {"a", ";"}
  WordChars = {"a"}
  MaxLine = 2
  MaxSource = 5
  InitialFiles <- MCInitialFiles
  Status <- MCStatus
  Errors <- MCErrors
INVARIANTS
  ReplTypeOK
  InterpretsWhatWasEntered
PROPERTIES
  ShowsItsOwnErrors
  BrowsingKeepsEdits
  RecallsLastLine
CHECK_DEADLOCK FALSE
