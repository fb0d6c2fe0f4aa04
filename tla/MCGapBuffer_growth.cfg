SPECIFICATION GapBufferSpec
CONSTANTS
  Chars = {"a", "b", "_"}
  WordChars = {"a", "b"}
  Texts <- MCNoTexts
  InitialCapacity = 2
  MaxLength = 4
PROPERTY InsertsAtCursor
CHECK_DEADLOCK FALSE
