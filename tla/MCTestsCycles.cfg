SPECIFICATION FairSpec
CONSTANTS
  NULL = NULL
  TANGLED = TANGLED
  ThisProgram <- Cycles
  Resume = TRUE
  Leftover <- StaleTerms
  Nodes <- TreeNodes
  Callees <- TreeCallees
  First <- TreeFirst
  Kind <- TreeKind
  NextOf <- TreeNextOf
  HeadOf <- TreeHeadOf
  Operands <- TreeOperands
  Body <- TreeBody
  Branches <- TreeBranches
  Callee <- TreeCallee
  Entry <- TreeEntry
  FunctionBlocks <- TreeFunctionBlocks
  Owned <- TreeOwned
  Faulty <- TreeFaulty
INVARIANT CallStackNests
INVARIANT CleanAtCycleEnd
PROPERTY CycleCompletes
