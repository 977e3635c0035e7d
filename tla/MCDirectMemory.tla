--------------------------- MODULE MCDirectMemory ---------------------------
(***************************************************************************)
(* Files for DirectMemory: three bytes of two bits each, and variables that *)
(* share them in every way the addresses allow.                            *)
(***************************************************************************)
EXTENDS DirectMemory

At(area, unit, index, sub, type) ==
  [area |-> area, unit |-> unit, index |-> index, sub |-> sub, type |-> type,
   global |-> FALSE]
Global(d) == [d EXCEPT !.global = TRUE]

Sint == IntegerType("SINT")
Usint == IntegerType("USINT")
Int16 == IntegerType("INT")
Word16 == IntegerType("WORD")

MCLayouts ==
  { \* Two bits of a byte, the byte, and the word it begins.
    [a |-> At("M", "X", 0, 0, BoolType), b |-> At("M", "X", 0, 3, BoolType),
     c |-> At("M", "B", 1, 0, Usint)],
    [a |-> At("M", "W", 0, 0, Int16), b |-> At("M", "B", 1, 0, Sint), c |-> At("M", "X", 1, 1, BoolType)],
    [a |-> At("M", "W", 0, 0, Word16), b |-> At("M", "B", 0, 0, DerivedType(Usint))],
    \* Fields wider than the type, letters in lower case, a bit of a word.
    [a |-> At("M", "W", 0, 0, Sint), b |-> At("m", "b", 2, 0, BoolType), c |-> At("M", "W", 0, 0, BoolType)],
    \* Global variables, whose addresses are not checked.
    [a |-> Global(At("M", "B", 1, 0, Int16)), b |-> Global(At("M", "B", 2, 0, Usint))],
    [a |-> Global(At("M", "B", 0, 0, StringType("STRING"))), b |-> At("M", "B", 2, 0, Usint)],
    [a |-> Global(At("M", "X", 1, 1, Usint)), b |-> At("M", "B", 1, 0, Usint)] }
  \union
  { \* What is refused.
    [a |-> d] : d \in
      { At("I", "B", 0, 0, Usint), At("Q", "X", 0, 0, BoolType), At("M", "B", 0, 1, Usint),
        At("M", "B", 3, 0, Usint), At("M", "W", 1, 0, Int16), At("M", "X", 2, 2, BoolType),
        At("M", "D", 0, 0, IntegerType("DINT")), At("M", "L", 0, 0, IntegerType("LINT")),
        At("M", "X", 0, 0, Usint), At("M", "B", 0, 0, Int16), At("M", "B", 1, 0, StringType("STRING")) } }

MCLiterals == {BoolLiteral(FALSE), BoolLiteral(TRUE)} \union {IntegerLiteral(n) : n \in {-1, 0, 3, 6}}
MCIncrements == {-1, 2}
MCGarbage == {[flags |-> {}, number |-> 0], [flags |-> {"temp", "const"}, number |-> 5]}
MCTerms ==
  {At("M", "X", 0, 0, BoolType), At("M", "X", 0, 1, BoolType), At("M", "X", 0, 3, BoolType),
   At("M", "X", 1, 1, BoolType), At("M", "B", 0, 0, BoolType), At("M", "B", 1, 0, BoolType),
   At("M", "W", 0, 0, BoolType), At("M", "B", 4, 0, BoolType)}
=============================================================================
