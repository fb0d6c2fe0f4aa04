SPECIFICATION FairInterpreterSpec
CONSTANTS
  Number <- MCNumber
  Atoms <- MCAtoms
  Zero = "0"
  NumberEquals <- MCNumberEquals
  NumberLess <- MCNumberLess
  Negated <- MCNegated
  Arithmetic <- MCArithmetic
  NumberText <- MCNumberText
  ByteStates = 256
  Tokens <- CallTokens
  MaxTokens = 4
  MaxErrors = 1
  MaxCalls = 2
INVARIANTS
  InterpreterTypeOK
  NeverBelowBase
  SuccessRestoresStack
  NoDanglingString
PROPERTIES
  LeftoversUntouched
  CallReturns
CHECK_DEADLOCK FALSE
