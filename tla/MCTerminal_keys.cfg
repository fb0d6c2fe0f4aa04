SPECIFICATION FairTerminalSpec
CONSTANTS
  Scripts <- MCScripts
  Printable <- MCPrintable
  Unknown <- MCUnknown
  Signals <- MCSignals
INVARIANTS
  TerminalTypeOK
  NoCharacterLost
  RestoredOnTermination
PROPERTIES
  SignalEndsProcess
  InputIsDelivered
CHECK_DEADLOCK FALSE
