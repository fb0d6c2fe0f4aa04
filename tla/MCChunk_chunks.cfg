SPECIFICATION ChunkSpec
CONSTANTS
  ByteStates = 3
  OpcodeTable <- MCOpcodeTable
  SimpleOps <- MCSimpleOps
  Values = {c}
  Lines = {1, 2}
  MaxInstructions = 11
  InitialGrowthCapacity = 2
  GrowthFactor = 2
CONSTRAINT ShortOrConstants
INVARIANT ChunkInv
PROPERTY KeepsInstructions
CHECK_DEADLOCK FALSE
