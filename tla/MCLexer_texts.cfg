SPECIFICATION FairLexerSpec
CONSTANTS
  Sources <- MCSources
  Digits <- MCDigits
  Letters <- MCLetters
  Spaces <- MCSpaces
  Others <- MCOthers
INVARIANTS
  LexerTypeOK
  TokensAreThoseOfTheSource
  PositionsAreThoseOfTheSource
PROPERTIES
  EofIsForEver
  ReachesEof
CHECK_DEADLOCK FALSE
