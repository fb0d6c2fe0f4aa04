SPECIFICATION FairSpec
CONSTANTS
  Number <- MCNumber
  Atoms <- MCAtoms
  Tokens <- ErrorTokens
  MaxTokens = 5
  MaxErrors = 1
  ByteStates = 256
INVARIANTS
  CompilerInv
  StackDiscipline
  PositionsAscend
  AcceptsThePrograms
  UnexpectedEofIffCompletable
  ReportsFirstOffender
PROPERTIES
  Termination
CHECK_DEADLOCK FALSE
