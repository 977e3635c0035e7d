------------------------------ MODULE MCTyping ------------------------------
(***************************************************************************)
(* Small programs over a variable of each kind of type, with bytes of one  *)
(* bit: INT is -1..1, UINT 0..3, DINT -7..7 and the word -128..127.        *)
(***************************************************************************)
EXTENDS TypedStatements

MCTypeOf == [
  x |-> IntegerType("DINT"), z |-> IntegerType("INT"), u |-> IntegerType("UINT"),
  d |-> DerivedType(IntegerType("DINT")), n |-> SubrangeType(IntegerType("DINT"), 0, 3),
  b |-> BoolType, r |-> RealType("REAL"), s |-> StringType("STRING"),
  e |-> EnumType(<<"red", "green">>), f |-> EnumType(<<"red", "green", "blue">>),
  \* the variables of a function
  p |-> IntegerType("DINT"), l |-> IntegerType("DINT"), q |-> IntegerType("INT"), w |-> BoolType,
  \* and those of another one
  c |-> EnumType(<<"red", "green">>), m |-> SubrangeType(IntegerType("DINT"), 1, 3),
  g |-> EnumType(<<"blue", "green">>)]
ValuesOf(t) ==
  CASE t.k \in {"integer", "derived"} -> {TypeMin(t.id), 0, TypeMax(t.id)}
    [] t.k = "subrange" -> {t.min, t.max}
    [] t.k = "enum" -> {t.items[1], t.items[2]}
    [] OTHER -> {0, 1}
MCInputs == [name \in DOMAIN MCTypeOf |-> ValuesOf(MCTypeOf[name])]

Header == <<Declared("p", TRUE), Declared("l", FALSE), Declared("q", TRUE), Declared("w", TRUE)>>
Chooser == <<Declared("c", TRUE), Declared("m", TRUE), Declared("g", TRUE)>>
Own == DOMAIN MCTypeOf \ {"f", "p", "l", "q", "w", "c", "m", "g"}

Variables == {Identifier(v) : v \in Own}
Literals ==
  {InlineValue(v) : v \in {IntegerLiteral(0), IntegerLiteral(3), IntegerLiteral(100),
     BoolLiteral(TRUE), RealLiteral(1), StringLiteral("STRING", 1),
     OverrideType(IntegerLiteral(1), IntegerType("DINT"))}}
  \union {<<Resolved(Identifier("green")[1], DOMAIN MCTypeOf)>>}
Blue == <<Resolved(Identifier("blue")[1], DOMAIN MCTypeOf)>>
Atoms == Variables \union Literals
Small == {Identifier("x"), Identifier("z"), Identifier("b"), InlineValue(IntegerLiteral(2)),
          InlineValue(BoolLiteral(FALSE))}

Sums == {Arithmetic(op, left, right) :
           op \in {"plus", "divide", "modulus", "to_power"}, left \in Atoms, right \in Atoms}
Logics == {LogicOrComparison(op, left, right) : op \in {"and"}, left \in Atoms, right \in Atoms}
Tests == {LogicOrComparison(op, left, right) :
            op \in {"greater", "equals", "gequals", "nequals"}, left \in Atoms, right \in Atoms}
Prefixed == {PrefixTerm(op, term) : op \in PrefixOps, term \in Atoms}
Deep == {PrefixTerm(op, LogicOrComparison(inner, left, right)) :
           op \in PrefixOps, inner \in {"plus", "and", "lequals"}, left \in Small, right \in Small}
        \union
        {LogicOrComparison(op, LogicOrComparison(inner, a, b), c) :
           op \in {"minus", "or", "lesser"}, inner \in {"multiply", "xor", "greater"},
           a \in Small, b \in Small, c \in Small}

Clear == <<Assignment("z", InlineValue(IntegerLiteral(0)))>>
Wrong == <<Assignment("z", InlineValue(IntegerLiteral(100)))>>
Sum == <<Assignment("x", Arithmetic("plus", InlineValue(IntegerLiteral(2)), InlineValue(IntegerLiteral(3))))>>
Count == <<Assignment("x", Arithmetic("plus", Identifier("x"), InlineValue(IntegerLiteral(3))))>>

Assignments ==
  {<<Assignment(to, from)>> : to \in Own, from \in Atoms \union Prefixed}
  \union {<<Assignment("x", from)>> : from \in Sums}
  \union {<<Assignment("b", from)>> : from \in Logics \union Tests}
  \union {<<Assignment("b", from)>> : from \in Deep}
\* Conditions of IF, WHILE and REPEAT.
Conditions == Atoms \union {LogicOrComparison("lesser", left, right) : left \in Small, right \in Small}
Conditionals ==
  {<<If(condition, Clear, Count)>> : condition \in Conditions}
  \union {<<While(condition, Count)>> : condition \in Conditions}
  \union {<<Repeat(condition, Sum)>> : condition \in Conditions}
  \union {<<If(InlineValue(BoolLiteral(FALSE)), Sum, Wrong)>>}

\* What the ELSE of a CASE holds is not verified.
Unlike == {<<Assignment(to, from)>> : to \in Own, from \in Small}
          \union {<<Assignment("x", Arithmetic(op, left, right))>> :
                    op \in {"plus", "divide"}, left \in Small, right \in Small}
          \union {<<Assignment("b", LogicOrComparison(op, left, right))>> :
                    op \in {"equals", "lequals"}, left \in Atoms, right \in Small}

\* CASE, with a list of labels, a range and an ELSE.
Selections ==
  {<<Case(selector,
          <<OfCase(<<IntegerLiteral(0), CaseRange(2, 7)>>, Clear), OfCase(<<label>>, Count)>>,
          else)>> :
     selector \in Atoms \union {Arithmetic("plus", Identifier("x"), Identifier("z"))},
     label \in {IntegerLiteral(1), BoolLiteral(TRUE), InlineEnum("red")},
     else \in {<<>>, Sum, Wrong, <<Assignment("e", Blue)>>}}
  \union {<<Case(selector, <<OfCase(<<InlineEnum("green")>>, Sum)>>, <<>>)>> : selector \in Variables}
  \union {<<Case(Identifier("x"), <<OfCase(<<IntegerLiteral(0)>>, <<>>)>>, else)>> : else \in Unlike}
  \union {<<Case(selector, <<OfCase(<<RealLiteral(1)>>, Sum)>>, <<>>)>> : selector \in Atoms}

Bounds == {Identifier("x"), Identifier("z"), InlineValue(IntegerLiteral(0)),
           InlineValue(IntegerLiteral(3)), InlineValue(IntegerLiteral(100)),
           PrefixTerm("negate", InlineValue(IntegerLiteral(1)))}
Counts ==
  {<<For(variable, from, to, increment, Clear)>> :
     variable \in Own, from \in Bounds, to \in Bounds,
     increment \in {InlineValue(IntegerLiteral(1)), InlineValue(IntegerLiteral(3)),
                    PrefixTerm("negate", InlineValue(IntegerLiteral(3)))}}
  \union {<<For(variable, at, at, at, Sum)>> : variable \in {"b", "e", "r", "s", "n"}, at \in Atoms}

\* Calls with up to four parameters, by name and by position.
Given == {InlineValue(IntegerLiteral(0)), InlineValue(IntegerLiteral(1)), InlineValue(BoolLiteral(TRUE)),
          Identifier("x"), Identifier("b")}
Computed == {Arithmetic("plus", Identifier("x"), InlineValue(IntegerLiteral(2))),
             Arithmetic("plus", InlineValue(IntegerLiteral(2)), InlineValue(IntegerLiteral(3))),
             LogicOrComparison("and", Identifier("b"), Identifier("b"))}
Divided == Arithmetic("divide", Identifier("x"), Identifier("z"))
Parameters == {Named(name, e) : name \in {"p", "l", "q", "w", "other", ""}, e \in Given}
              \union {ByPosition(e) : e \in Computed}
Plain == {ByPosition(e) : e \in {InlineValue(IntegerLiteral(1)), InlineValue(BoolLiteral(TRUE)), Identifier("x")}}
Three == Plain \union {ByPosition(e) : e \in Computed}
         \union {Named(name, InlineValue(IntegerLiteral(0))) : name \in {"p", "q"}}
Four == {ByPosition(Identifier("x")), ByPosition(Arithmetic("plus", Identifier("x"), InlineValue(IntegerLiteral(2))))}
        \union {Named("p", InlineValue(IntegerLiteral(0)))}
Body == <<Assignment("x", Identifier("p"))>>
Calls ==
  {<<Call(Header, Body, list)>> :
     list \in {<<>>} \union {<<a>> : a \in Parameters \union {ByPosition(Divided)}} \union {<<a, b>> : a \in Parameters, b \in Parameters}
            \union {<<a, b, c>> : a \in Three, b \in Three, c \in Three}
            \union {<<a, b, c, d>> : a \in Four, b \in Four, c \in Four, d \in Four}}

\* A choice is handed on to an enumerated variable.
Chosen == {ByPosition(e) : e \in {Blue, Identifier("e"), Identifier("x"), InlineValue(IntegerLiteral(3))}}
          \union {Named("m", e) : e \in {InlineValue(IntegerLiteral(1)),
                     Arithmetic("plus", InlineValue(IntegerLiteral(2)), InlineValue(IntegerLiteral(0)))}}
          \union {Named("c", <<Resolved(Identifier("red")[1], {})>>)}
Choices ==
  {<<Call(Chooser, <<Assignment("e", Identifier("c"))>>, list)>> :
     list \in {<<a>> : a \in Chosen} \union {<<a, b>> : a \in Chosen, b \in Chosen}
            \union {<<a, b, c>> : a \in Chosen, b \in Chosen, c \in Chosen}}

\* An enumerated variable and one with a longer list of names.
Longer == {<<Assignment("e", Identifier("f"))>>, <<Assignment("f", Identifier("e"))>>,
           <<Call(<<Declared("c", TRUE)>>, <<>>, <<ByPosition(Identifier("f"))>>)>>}
          \union {<<Assignment("b", LogicOrComparison(op, Identifier(a), Identifier(b)))>> :
                     op \in Comparisons, a \in {"e", "f"}, b \in {"e", "f"}}
\* The smallest word, and -1.
Smallest == {<<Assignment("x", Arithmetic(op, Arithmetic("to_power", base, InlineValue(IntegerLiteral(100))),
                                          PrefixTerm("negate", InlineValue(IntegerLiteral(1)))))>> :
               op \in {"divide", "modulus"}, base \in {Identifier("x"), InlineValue(IntegerLiteral(3))}}

MCGarbage == {{}, {"temp", "const"}}

MCPrograms == Assignments \union Conditionals \union Selections \union Counts \union Calls
              \union Choices \union Longer \union Smallest
=============================================================================
