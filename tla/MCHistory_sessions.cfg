SPECIFICATION HistorySpec
CONSTANTS
  HistorySize = 3
  Lines = {"a", "b", "_"}
  Blank = {"_"}
  Formatted <- MCUnchanged
  NoEntry = NoEntry
  NoFile = NoFile
  MaxFile = 8
  AppendPhases = {"closed", "open"}
  KillPhases = {"trimming", "trimmed", "open"}
INVARIANT HistoryInv
PROPERTY KeepsRecentEntries
CHECK_DEADLOCK FALSE
