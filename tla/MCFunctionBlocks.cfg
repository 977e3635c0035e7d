SPECIFICATION FairSpec
CONSTANTS
  A = A
  B = B
  C = C
  Plain = Plain
  NULL = NULL
  Blocks <- MCBlocks
  Order <- MCOrder
  Headers <- MCHeaders
  Globals <- MCGlobals
  Programs <- MCPrograms
  StackLimit = 4
INVARIANTS
  OwnVariables
  NoFalseAlarm
  AcceptedChains
  ProgramInstancesComplete
  OrderedBlocksLink
PROPERTY LinkEnds
CHECK_DEADLOCK FALSE
