SPECIFICATION Spec
CONSTANTS
  ByteBits = 2
  Size = 3
  Layouts <- MCLayouts
  Literals <- MCLiterals
  Increments <- MCIncrements
  Terms <- MCTerms
  Garbage <- MCGarbage
  Highest = 9
INVARIANTS FieldsInside KnownValuesKept TermsAgree
PROPERTY OtherBitsKept
\* A file that is refused, or a program that has crashed, does nothing more.
CHECK_DEADLOCK FALSE
