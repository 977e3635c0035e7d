SPECIFICATION Spec
CONSTANTS
  NULL = NULL
  TANGLED = TANGLED
  ThisProgram <- While
  Resume = FALSE
  Leftover <- Zeroes
  Nodes <- TreeNodes
  Callees <- TreeCallees
  First <- TreeFirst
  Kind <- TreeKind
  NextOf <- TreeNextOf
  HeadOf <- TreeHeadOf
  Operands <- TreeOperands
  Body <- TreeBody
  Branches <- TreeBranches
  Callee <- TreeCallee
  Entry <- TreeEntry
  FunctionBlocks <- TreeFunctionBlocks
  Owned <- TreeOwned
  Faulty <- TreeFaulty
INVARIANT NeverCrashes
CHECK_DEADLOCK FALSE
