SPECIFICATION Spec
CONSTANTS
  Number <- MCNumber
  Atoms <- MCAtoms
  Tokens <- CorrectTokens
  MaxTokens = 10
  MaxErrors = 0
  ByteStates = 2
CONSTRAINT CorrectSoFar
INVARIANTS
  CompilesTheLanguage
  EvaluatesInOrder
  OperandsFit
  ConstantsInOrder
CHECK_DEADLOCK FALSE
