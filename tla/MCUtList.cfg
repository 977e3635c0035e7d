SPECIFICATION ListSpec
CONSTANTS
  a = a
  b = b
  c = c
  Element = {a, b, c}
  NoElement = NoElement
  TANGLED = TANGLED
SYMMETRY Symmetry
INVARIANT Represents
