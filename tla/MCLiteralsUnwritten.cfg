SPECIFICATION Spec
CONSTANTS
  ByteBits = 2
  DurationTexts <- MCDurationTexts
  DateTexts <- MCDateTexts
  TodTexts <- MCTodTexts
  IntegerTexts <- MCIntegerTexts
  Memory <- MCMemory
  FloatBits = 4
  FloatExponent = 1
PROPERTY UnwrittenZero
