----------------------------- MODULE TypeChecks -----------------------------
(***************************************************************************)
(* The questions types and values are asked before a program runs          *)
(* (can_hold, compatible, assignable_from, comparable_to, operates_with)   *)
(* and the operations they perform when it does (assign, the comparisons,  *)
(* the arithmetic, the casts).                                             *)
(***************************************************************************)
EXTENDS Values

YesIf(b) == IF b THEN "yes" ELSE "no"

\* The first answer that is not "yes", as the chains of checks return it.
Both(first, second) == IF first # "yes" THEN first ELSE second

\* What type_of returns, when it is not NULL.
TypeOf(v) == IF v.typeOf = "set" THEN v.t ELSE NoType

----------------------------------------------------------------------------
(* compatible: type against type *)

GeneralCompatible(t, other) ==
  IF other = NoType \/ t = NoType THEN "crash"
  ELSE YesIf(BaseClass(t) = BaseClass(other))

\* The loop over two lists of names runs on the length of the other one.
EnumCompatible(t, other) ==
  IF other = NoType THEN "crash"
  ELSE IF Ancestor(other).k # "enum" THEN "no"
  ELSE LET mine == t.items
           theirs == Ancestor(other).items
           differs == \E i \in DOMAIN mine \cap DOMAIN theirs : mine[i] # theirs[i]
       IN IF differs THEN "no"
          ELSE IF Len(theirs) > Len(mine) THEN "crash"
          ELSE YesIf(Len(theirs) = Len(mine))

\* Derived types ask their ancestor, subranges the type they narrow.
Compatible(t, other) ==
  LET a == IF Ancestor(t).k = "subrange" THEN Ancestor(Ancestor(t).of) ELSE Ancestor(t)
  IN IF a.k = "enum" THEN EnumCompatible(a, other) ELSE GeneralCompatible(a, other)

----------------------------------------------------------------------------
(* can_hold: type against value *)

IntegerHolds(id, v) ==
  YesIf(Has(v, "integer") /\ v.v >= TypeMin(id) /\ v.v <= TypeMax(id))

BoolHolds(v) == YesIf(Has(v, "bool"))

RealHolds(v) == YesIf(Has(v, "real"))

StringHolds(t, v) ==
  IF ~Has(v, "string") THEN "no"
  ELSE YesIf(BaseClass(v.t) = t.id /\ (t.length > 0 => v.v <= t.length))

EnumHolds(t, v) ==
  IF ~Has(v, "enumeration") \/ v.v \notin {t.items[i] : i \in DOMAIN t.items} THEN "no"
  ELSE IF Has(v, "type_of") THEN EnumCompatible(t, TypeOf(v)) ELSE "yes"

SubrangeHolds(t, v) ==
  Both(IF Ancestor(t.of).k = "bool" THEN BoolHolds(v) ELSE IntegerHolds(Ancestor(t.of).id, v),
       IF ~Has(v, "lesser") \/ ~Has(v, "greater") THEN "no"
       ELSE IF ~Has(v, "integer") THEN "crash"
       ELSE YesIf(t.min <= v.v /\ v.v <= t.max))

CanHold(t, v) ==
  LET a == Ancestor(t)
  IN CASE a.k = "integer" -> IntegerHolds(a.id, v)
       [] a.k = "bool" -> BoolHolds(v)
       [] a.k = "real" -> RealHolds(v)
       [] a.k = "string" -> StringHolds(a, v)
       [] a.k = "enum" -> EnumHolds(a, v)
       [] a.k = "subrange" -> SubrangeHolds(a, v)

----------------------------------------------------------------------------
(* assignable_from, comparable_to, operates_with: value against value *)

IntegerAssignable(a, b) ==
  IF ~Has(b, "integer") THEN "no"
  ELSE IF a.temp \/ ~b.const THEN "yes"
  ELSE Both(CanHold(a.t, b),
            IF Has(b, "type_of") THEN Compatible(a.t, TypeOf(b)) ELSE "yes")

IntegerCompares(a, b) ==
  IF ~Has(b, "integer") THEN "no"
  ELSE IF ~a.temp /\ ~b.temp /\ Has(b, "type_of") /\ a.t # NoType
    THEN Compatible(a.t, TypeOf(b))
  ELSE "yes"

BoolChecks(b) == YesIf(Has(b, "bool"))

RealAssignable(a, b) ==
  IF ~Has(b, "real") THEN "no"
  ELSE IF a.temp \/ b.temp THEN "yes"
  ELSE Both(CanHold(a.t, b),
            IF Has(b, "type_of") THEN Compatible(a.t, TypeOf(b)) ELSE "yes")

\* Unlike an integer, a real does not look whether it has a type itself.
RealCompares(a, b) ==
  IF ~Has(b, "real") THEN "no"
  ELSE IF ~a.temp /\ ~b.temp /\ Has(b, "type_of") THEN Compatible(a.t, TypeOf(b))
  ELSE "yes"

LiteralStringCompares(a, b) ==
  YesIf(Has(b, "string") /\ BaseClass(b.t) = BaseClass(a.t))

EnumChecks(a, b) ==
  IF ~Has(b, "enumeration") THEN "no"
  ELSE Both(CanHold(a.t, b),
            IF Has(b, "type_of") THEN Compatible(a.t, TypeOf(b)) ELSE "yes")

SubrangeAssignable(a, b) ==
  IF ~Has(b, "integer") THEN "no"
  ELSE IF b.temp THEN "yes"
  ELSE Both(CanHold(a.t, b),
            IF Has(b, "type_of") THEN Compatible(a.t, TypeOf(b)) ELSE "yes")

SubrangeCompares(a, b) ==
  IF ~Has(b, "integer") THEN "no"
  ELSE IF ~b.temp /\ Has(b, "type_of") THEN Compatible(a.t, TypeOf(b))
  ELSE "yes"

\* A range compares with what both its bounds, literals, compare with.
CaseRangeCompares(a, b) ==
  Both(IntegerCompares(IntegerLiteral(a.v[1]), b), IntegerCompares(IntegerLiteral(a.v[2]), b))

AssignableFrom(a, b) ==
  IF ~Has(a, "assignable_from") THEN "crash"
  ELSE CASE a.k = "integer" -> IntegerAssignable(a, b)
         [] a.k = "bool" -> BoolChecks(b)
         [] a.k = "real" -> RealAssignable(a, b)
         [] a.k = "string" -> CanHold(a.t, b)
         [] a.k = "enum" -> EnumChecks(a, b)
         [] a.k = "subrange" -> SubrangeAssignable(a, b)

ComparableTo(a, b) ==
  CASE a.k = "integer" -> IntegerCompares(a, b)
    [] a.k = "bool" -> BoolChecks(b)
    [] a.k = "real" -> RealCompares(a, b)
    [] a.k = "string" -> CanHold(a.t, b)
    [] a.k = "literal_string" -> LiteralStringCompares(a, b)
    [] a.k = "enum" -> EnumChecks(a, b)
    [] a.k = "inline_enum" -> YesIf(Has(b, "enumeration"))
    [] a.k = "subrange" -> SubrangeCompares(a, b)
    [] a.k = "case_range" -> CaseRangeCompares(a, b)

\* The families that operate use the function that also compares.
OperatesWith(a, b) == IF Has(a, "operates_with") THEN ComparableTo(a, b) ELSE "crash"

----------------------------------------------------------------------------
(* assign: the outcome and the value afterwards *)

Done(v) == [r |-> "ok", v |-> v]
Failed(v, r) == [r |-> r, v |-> v]

\* What follows a step that has succeeded.
Chain(result, Continue(_)) == IF result.r = "ok" THEN Continue(result) ELSE result

\* Mutant: no range is checked.
UncheckedNumberAssign(a, b, accessor) ==
  IF Has(b, accessor) THEN Done([a EXCEPT !.v = b.v]) ELSE Failed(a, "crash")
\* Integers and reals check the range unless they are temporaries.
NumberAssign(a, b, accessor) ==
  LET Stored(held) ==
        IF held = "crash" \/ (held = "yes" /\ ~Has(b, accessor)) THEN Failed(a, "crash")
        ELSE IF held = "no" THEN Failed(a, "error")
        ELSE Done([a EXCEPT !.v = b.v])
  IN Stored(IF a.temp THEN "yes" ELSE CanHold(a.t, b))

BoolAssign(a, b) ==
  IF ~Has(b, "bool") THEN Failed(a, "crash")
  ELSE Done([a EXCEPT !.v = IF b.v # 0 THEN 1 ELSE 0])

\* Strings and enumerated values take what they are given.
PlainAssign(a, b, accessor) ==
  IF Has(b, accessor) THEN Done([a EXCEPT !.v = b.v]) ELSE Failed(a, "crash")

\* A subrange asks its type, and then the value of the base type it is kept in.
SubrangeAssign(a, b) ==
  LET Stored(held) ==
        IF held = "crash" THEN Failed(a, "crash")
        ELSE IF held = "no" THEN Failed(a, "error")
        ELSE Done([a EXCEPT !.v = b.v])
  IN Stored(Both(CanHold(a.t, b), CanHold(Ancestor(a.t).of, b)))

Assign(a, b) ==
  IF ~Has(a, "assign") THEN Failed(a, "crash")
  ELSE CASE a.k = "integer" -> NumberAssign(a, b, "integer")
         [] a.k = "bool" -> BoolAssign(a, b)
         [] a.k = "real" -> NumberAssign(a, b, "real")
         [] a.k = "string" -> PlainAssign(a, b, "string")
         [] a.k = "enum" -> PlainAssign(a, b, "enumeration")
         [] a.k = "subrange" -> SubrangeAssign(a, b)

----------------------------------------------------------------------------
(* The comparisons: "yes", "no" or "crash" *)

\* The pointer through which a family reads the other operand.
Accessor(v) ==
  CASE v.k \in {"integer", "subrange", "case_range"} -> "integer"
    [] v.k = "bool" -> "bool"
    [] v.k = "real" -> "real"
    [] v.k \in {"string", "literal_string"} -> "string"
    [] v.k \in {"enum", "inline_enum"} -> "enumeration"

\* A case label matches when its minimum is not greater and its maximum not
\* lesser than the selector.
RangeEquals(a, b) == YesIf(a.v[1] <= b.v /\ b.v <= a.v[2])

Compare(op, a, b) ==
  IF ~Has(a, op) \/ ~Has(b, Accessor(a)) THEN "crash"
  ELSE CASE op = "greater" -> YesIf(a.v > b.v)
         [] op = "lesser" -> YesIf(a.v < b.v)
         [] op = "equals" /\ a.k = "case_range" -> RangeEquals(a, b)
         [] op = "equals" /\ a.k = "bool" -> YesIf((a.v # 0) = (b.v # 0))
         [] op = "equals" /\ a.k \notin {"bool", "case_range"} -> YesIf(a.v = b.v)

----------------------------------------------------------------------------
(* The operations on temporaries *)

AbsOf(n) == IF n < 0 THEN -n ELSE n
Sign(n) == IF n < 0 THEN -1 ELSE 1

\* The quotient of C rounds towards zero; the smallest word has no opposite.
Traps(a, b) == b = 0 \/ (b = -1 /\ a = -(Word \div 2))
Quotient(a, b) == Sign(a) * Sign(b) * (AbsOf(a) \div AbsOf(b))

\* a to the power n, which stops growing once it has left the word.
Grown(p, a) == IF AbsOf(p) > Word \div 2 THEN p ELSE p * a
Power(a, n) ==
  LET largest == IF AbsOf(a) <= 1 THEN (n % 2) + 2 ELSE 8 * ByteBits
      power[i \in 0..largest] == IF i = 0 THEN 1 ELSE Grown(power[i - 1], a)
  IN IF n <= largest THEN power[n] ELSE power[largest]

IntegerSum(op, a, b) ==
  CASE op = "plus" -> Done([a EXCEPT !.v = Wrap(a.v + b.v)])
    [] op = "minus" -> Done([a EXCEPT !.v = Wrap(a.v - b.v)])
    [] op = "multiply" -> Done([a EXCEPT !.v = Wrap(a.v * b.v)])

\* Division looks for a zero divisor, the remainder does not.
IntegerQuotient(op, a, b) ==
  CASE op = "divide" /\ b.v = 0 -> Failed(a, "error")
    [] op = "divide" /\ b.v # 0 ->
         IF Traps(a.v, b.v) THEN Failed(a, "crash")
         ELSE Done([a EXCEPT !.v = Quotient(a.v, b.v)])
    [] op = "modulus" ->
         IF Traps(a.v, b.v) THEN Failed(a, "crash")
         ELSE Done([a EXCEPT !.v = a.v - b.v * Quotient(a.v, b.v)])

\* Powers are computed in floating point and cut off; a result beyond the
\* word becomes its smallest value, one beyond the floating point (as large
\* as 256 words) an error.
IntegerPower(a, b) ==
  LET power == Power(a.v, b.v)
      huge == AbsOf(a.v) > 1 /\ AbsOf(b.v) >= 2048 * ByteBits
  IN IF huge \/ (b.v < 0 /\ a.v = 0) THEN Failed(a, "error")
     ELSE IF b.v < 0
       THEN Done([a EXCEPT !.v = IF AbsOf(a.v) = 1 THEN a.v ^ (b.v % 2) ELSE 0])
     ELSE Done([a EXCEPT !.v = IF Wrap(power) = power THEN power ELSE -(Word \div 2)])

BoolOperation(op, a, b) ==
  LET x == a.v # 0
      y == b.v # 0
      result == CASE op = "xor" -> x # y [] op = "and" -> x /\ y [] op = "or" -> x \/ y
  IN Done([a EXCEPT !.v = IF result THEN 1 ELSE 0])

\* A real operation never fails but for an impossible power; its result is
\* not distinguished.
RealOperation(op, a, b) ==
  IF op = "to_power" /\ a.v = 0 /\ b.v < 0 THEN Failed(a, "error") ELSE Done(a)

Operate(op, a, b) ==
  IF ~Has(a, op) \/ ~Has(b, Accessor(a)) THEN Failed(a, "crash")
  ELSE CASE a.k = "integer" /\ op \in {"plus", "minus", "multiply"} -> IntegerSum(op, a, b)
         [] a.k = "integer" /\ op \in {"divide", "modulus"} -> IntegerQuotient(op, a, b)
         [] a.k = "integer" /\ op = "to_power" -> IntegerPower(a, b)
         [] a.k = "bool" -> BoolOperation(op, a, b)
         [] a.k = "real" -> RealOperation(op, a, b)

\* negate and not on a temporary.
Prefix(op, a) ==
  IF ~Has(a, op) THEN Failed(a, "crash")
  ELSE IF op = "not" THEN Done([a EXCEPT !.v = IF a.v = 0 THEN 1 ELSE 0])
  ELSE Done([a EXCEPT !.v = Wrap(-a.v)])

\* A bit pattern of some width, read as an unsigned or a signed integer.
Unsigned(n, bits) == n % TwoTo[bits]
Signed(n, bits) ==
  LET u == Unsigned(n, bits) IN IF u >= TwoTo[bits - 1] THEN u - TwoTo[bits] ELSE u
=============================================================================
