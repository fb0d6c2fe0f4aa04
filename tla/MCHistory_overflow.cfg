SPECIFICATION HistorySpec
CONSTANTS
  HistorySize = 2
  Lines = {"a", "b", "_"}
  Blank = {"_"}
  Formatted <- MCUnchanged
  NoEntry = NoEntry
  NoFile = NoFile
  MaxFile = 4
  AppendPhases = {"trimmed"}
  KillPhases = {}
INVARIANT LoadedEntriesFit
CHECK_DEADLOCK FALSE
