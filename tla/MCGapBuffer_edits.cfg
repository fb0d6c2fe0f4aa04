SPECIFICATION GapBufferSpec
CONSTANTS
  Chars = {"a", "b", "_"}
  WordChars = {"a", "b"}
  Texts <- MCTexts
  InitialCapacity = 6
  MaxLength = 6
INVARIANT GapWithinBuffer
PROPERTY EditsLine
CHECK_DEADLOCK FALSE
