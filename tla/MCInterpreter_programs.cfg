SPECIFICATION InterpreterSpec
CONSTANTS
  Number <- MCNumber
  Atoms <- MCAtoms
  Zero = "0"
  NumberEquals <- MCNumberEquals
  NumberLess <- MCNumberLess
  Negated <- MCNegated
  Arithmetic <- MCArithmetic
  NumberText <- MCNumberText
  ByteStates = 256
  Tokens <- ProgramTokens
  MaxTokens = 21
  MaxErrors = 0
  MaxCalls = 1
CONSTRAINT CorrectSoFar
INVARIANTS
  InterpretsTheLanguage
  ComputesMeanings
CHECK_DEADLOCK FALSE
