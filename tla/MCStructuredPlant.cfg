SPECIFICATION Spec
CONSTANTS
  NULL = NULL
  TANGLED = TANGLED
  ThisProgram <- Plant
  Resume = FALSE
  Leftover <- StaleValues
  Nodes <- TreeNodes
  Callees <- TreeCallees
  First <- TreeFirst
  Kind <- TreeKind
  NextOf <- TreeNextOf
  HeadOf <- TreeHeadOf
  Operands <- TreeOperands
  Body <- TreeBody
  Branches <- TreeBranches
  Callee <- TreeCallee
  Entry <- TreeEntry
  FunctionBlocks <- TreeFunctionBlocks
  Owned <- TreeOwned
  Faulty <- TreeFaulty
  Level <- TreeLevel
  LoopOf <- TreeLoopOf
  CalleeOf <- TreeCalleeOf
INVARIANT TypeOK
INVARIANT ExitContextMatches
INVARIANT ReturnContextMatches
INVARIANT NeverCrashes
PROPERTY ImplementsStructuredControl
