SPECIFICATION Spec
CONSTANTS
  ByteBits = 1
  Depth = 12
  Programs <- MCPrograms
  TypeOfVariable <- MCTypeOf
  ConstantVariables = {"u"}
  Garbage <- MCGarbage
  Inputs <- MCInputs
INVARIANTS StoredInRange CrashesExplained
PROPERTIES AcceptedConstantsStored CountsUp ParametersArrive
CHECK_DEADLOCK FALSE
