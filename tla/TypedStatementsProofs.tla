----------------------- MODULE TypedStatementsProofs -----------------------
(***************************************************************************)
(* What a program stores is in the range of its variable.  Numbers are     *)
(* compared with the range when they are stored, so that the proof follows *)
(* each value through the operators that compute it; names only when the   *)
(* program is linked, so that it follows each check from the verification  *)
(* to the statement that runs, and for parameters from the loop of verify  *)
(* to that of assign_from.                                                 *)
(***************************************************************************)
EXTENDS TypedStatements, SequenceTheorems, TLAPS

WF == INSTANCE WellFoundedInduction

----------------------------------------------------------------------------
(* Lists *)

LEMMA ListOf ==
  ASSUME NEW N \in Nat, NEW f, DOMAIN f = 1 .. N, f = [j \in 1 .. N |-> f[j]]
  PROVE  IsList(f) /\ Len(f) = N
<1>1. f \in [1 .. N -> InBody(f)]
  BY DEF InBody
<1>2. f \in Seq(InBody(f))
  BY <1>1, SeqDef
<1>3. Len(f) \in Nat /\ 1 .. Len(f) = 1 .. N
  BY <1>2, LenProperties
<1> QED BY <1>2, <1>3 DEF IsList

LEMMA ListMembers ==
  ASSUME NEW f, IsList(f)
  PROVE  Len(f) \in Nat /\ DOMAIN f = 1 .. Len(f) /\ f = [j \in 1 .. Len(f) |-> f[j]]
         /\ \A j \in 1 .. Len(f) : f[j] \in InBody(f)
BY LenProperties DEF IsList, InBody

-----------------------------------------------------------------------------
(* Values *)

\* The fields of a value.
IsRecord(a) ==
  a = [k |-> a.k, t |-> a.t, typeOf |-> a.typeOf, temp |-> a.temp, const |-> a.const, v |-> a.v]

LEMMA Replaced ==
  ASSUME NEW a, IsRecord(a), NEW x
  PROVE  /\ IsRecord([a EXCEPT !.v = x])
         /\ [a EXCEPT !.v = x].k = a.k /\ [a EXCEPT !.v = x].t = a.t
         /\ [a EXCEPT !.v = x].typeOf = a.typeOf /\ [a EXCEPT !.v = x].temp = a.temp
         /\ [a EXCEPT !.v = x].const = a.const /\ [a EXCEPT !.v = x].v = x
<1> DEFINE r == [k |-> a.k, t |-> a.t, typeOf |-> a.typeOf, temp |-> a.temp, const |-> a.const, v |-> x]
<1>1. [a EXCEPT !.v = x] = r
  BY DEF IsRecord
<1>2. r.k = a.k /\ r.t = a.t /\ r.typeOf = a.typeOf /\ r.temp = a.temp /\ r.const = a.const /\ r.v = x
  OBVIOUS
<1> HIDE DEF r
<1>3. r = [k |-> r.k, t |-> r.t, typeOf |-> r.typeOf, temp |-> r.temp, const |-> r.const, v |-> r.v]
  BY <1>2 DEF r
<1> QED BY <1>1, <1>2, <1>3 DEF IsRecord

\* A value of the same variable or temporary.
Alike(a, b) ==
  IsRecord(b) /\ b.k = a.k /\ b.t = a.t /\ b.typeOf = a.typeOf /\ b.temp = a.temp /\ b.const = a.const

LEMMA ReplacedAlike ==
  ASSUME NEW a, IsRecord(a), NEW x
  PROVE  Alike(a, a) /\ Alike(a, [a EXCEPT !.v = x]) /\ [a EXCEPT !.v = x].v = x
BY Replaced DEF Alike

Assignable == {"integer", "bool", "real", "string", "enum", "subrange"}

LEMMA AssignAlike ==
  ASSUME NEW a, IsRecord(a), a.k \in Assignable, NEW b
  PROVE  Alike(a, Assign(a, b).v)
<1>1. Alike(a, a) /\ \A x : Alike(a, [a EXCEPT !.v = x])
  BY ReplacedAlike
<1>2. ASSUME NEW r PROVE Failed(a, r).v = a
  BY DEF Failed
<1>3. ASSUME NEW x PROVE Done(x).v = x
  BY DEF Done
<1>4. ASSUME NEW accessor PROVE Alike(a, NumberAssign(a, b, accessor).v)
  BY <1>1, <1>2, <1>3 DEF NumberAssign
<1>5. Alike(a, BoolAssign(a, b).v)
  BY <1>1, <1>2, <1>3 DEF BoolAssign
<1>6. ASSUME NEW accessor PROVE Alike(a, PlainAssign(a, b, accessor).v)
  BY <1>1, <1>2, <1>3 DEF PlainAssign
<1>7. Alike(a, SubrangeAssign(a, b).v)
  BY <1>1, <1>2, <1>3 DEF SubrangeAssign
<1> QED BY <1>1, <1>2, <1>4, <1>5, <1>6, <1>7 DEF Assign, Assignable

Operands == {"integer", "bool", "real"}

LEMMA OperateAlike ==
  ASSUME NEW a, IsRecord(a), a.k \in Assignable, NEW op \in Operations, NEW b
  PROVE  Alike(a, Operate(op, a, b).v)
<1>1. Alike(a, a) /\ \A x : Alike(a, [a EXCEPT !.v = x])
  BY ReplacedAlike
<1>2. ASSUME NEW r PROVE Failed(a, r).v = a
  BY DEF Failed
<1>3. ASSUME NEW x PROVE Done(x).v = x
  BY DEF Done
<1>4. op \in {"plus", "minus", "multiply"} => Alike(a, IntegerSum(op, a, b).v)
  BY <1>1, <1>3 DEF IntegerSum
<1>5. op \in {"divide", "modulus"} => Alike(a, IntegerQuotient(op, a, b).v)
  BY <1>1, <1>2, <1>3 DEF IntegerQuotient
<1>6. Alike(a, IntegerPower(a, b).v)
  <2> DEFINE power == Power(a.v, b.v)
             fails == (AbsOf(a.v) > 1 /\ AbsOf(b.v) >= 2048 * ByteBits) \/ (b.v < 0 /\ a.v = 0)
             small == IF AbsOf(a.v) = 1 THEN a.v ^ (b.v % 2) ELSE 0
             large == IF Wrap(power) = power THEN power ELSE -(Word \div 2)
             below == b.v < 0
  <2>1. IntegerPower(a, b) = IF fails THEN Failed(a, "error")
                             ELSE IF below THEN Done([a EXCEPT !.v = small])
                             ELSE Done([a EXCEPT !.v = large])
    BY DEF IntegerPower
  <2> HIDE DEF fails, small, large, below
  <2> QED BY <1>1, <1>2, <1>3, <2>1
<1>7. Alike(a, BoolOperation(op, a, b).v)
  BY <1>1, <1>3 DEF BoolOperation
<1>8. Alike(a, RealOperation(op, a, b).v)
  BY <1>1, <1>2, <1>3 DEF RealOperation
<1>9. CASE ~Has(a, op) \/ ~Has(b, Accessor(a))
  BY <1>1, <1>2, <1>9 DEF Operate
<1>10. CASE Has(a, op) /\ Has(b, Accessor(a))
  <2>1. a.k \in Operands
    BY <1>10 DEF Has, Methods, Assignable, Operands, Operations, LogicOps, SumOps, QuotientOps, PowerOps,
                 StringMethods, EnumMethods, SubrangeMethods, Common
  <2>2. CASE a.k = "integer"
    <3>1. op \in {"plus", "minus", "multiply", "divide", "modulus", "to_power"}
      BY <1>10, <2>2 DEF Has, Methods, Operations, LogicOps, SumOps, QuotientOps, PowerOps,
                         IntegerMethods, Common
    <3>2. CASE op \in {"plus", "minus", "multiply"}
      BY <1>4, <1>10, <2>2, <3>2 DEF Operate
    <3>3. CASE op \in {"divide", "modulus"}
      BY <1>5, <1>10, <2>2, <3>3 DEF Operate
    <3>4. CASE op = "to_power"
      BY <1>6, <1>10, <2>2, <3>4 DEF Operate
    <3> QED BY <3>1, <3>2, <3>3, <3>4
  <2>3. CASE a.k = "bool"
    BY <1>7, <1>10, <2>3 DEF Operate
  <2>4. CASE a.k = "real"
    BY <1>8, <1>10, <2>4 DEF Operate
  <2> QED BY <2>1, <2>2, <2>3, <2>4 DEF Operands
<1> QED BY <1>9, <1>10

LEMMA PrefixAlike ==
  ASSUME NEW a, IsRecord(a), NEW op
  PROVE  Alike(a, Prefix(op, a).v)
BY ReplacedAlike DEF Prefix, Done, Failed

\* The value of a variable, as the type that made it leaves it.
IsVariable(n, a) ==
  /\ IsRecord(a) /\ a.k = FamilyOf(TypeOfVariable[n]) /\ a.t = TypeOfVariable[n] /\ a.typeOf = "set"
  /\ a.temp => ClassUninitialised(TypeOfVariable[n])

LEMMA VariableAlike ==
  ASSUME NEW n, NEW a, IsVariable(n, a), NEW b, Alike(a, b)
  PROVE  IsVariable(n, b)
BY DEF IsVariable, Alike

LEMMA VariableMethods ==
  ASSUME NEW n \in Names, NEW a, IsVariable(n, a)
  PROVE  /\ a.k \in Assignable /\ Has(a, "assign") /\ Has(a, "type_of")
         /\ a.k \in {"integer", "subrange"} => Has(a, "integer")
         /\ a.k = "subrange" => Has(a, "lesser") /\ Has(a, "greater")
         /\ a.k = "enum" <=> Has(a, "enumeration")
<1>1. a.k \in {"integer", "bool", "real", "string", "enum", "subrange"} /\ a.typeOf = "set"
  BY TypesAssumption DEF IsVariable
<1> USE DEF Has, Methods, IntegerMethods, BoolMethods, RealMethods, StringMethods, EnumMethods, SubrangeMethods, Common
<1>2. CASE a.k = "integer"
  BY <1>1, <1>2 DEF Assignable
<1>3. CASE a.k = "bool"
  BY <1>1, <1>3 DEF Assignable
<1>4. CASE a.k = "real"
  BY <1>1, <1>4 DEF Assignable
<1>5. CASE a.k = "string"
  BY <1>1, <1>5 DEF Assignable
<1>6. CASE a.k = "enum"
  BY <1>1, <1>6 DEF Assignable
<1>7. CASE a.k = "subrange"
  BY <1>1, <1>7 DEF Assignable
<1> QED BY <1>1, <1>2, <1>3, <1>4, <1>5, <1>6, <1>7

\* A number that a type can hold is held when it is kept in a value of the type.
LEMMA NumberKept ==
  ASSUME NEW n \in Names, FamilyOf(TypeOfVariable[n]) \in {"integer", "subrange"},
         NEW a, IsVariable(n, a),
         NEW b, CanHold(TypeOfVariable[n], b) = "yes", a.v = b.v
  PROVE  CanHold(TypeOfVariable[n], a) = "yes"
<1> DEFINE t == Ancestor(TypeOfVariable[n])
<1>1. a.k = t.k /\ a.k \in {"integer", "subrange"} /\ Has(a, "integer")
      /\ (a.k = "subrange" => Has(a, "lesser") /\ Has(a, "greater"))
  BY VariableMethods DEF IsVariable, FamilyOf
<1>2. ASSUME NEW id, IntegerHolds(id, b) = "yes" PROVE IntegerHolds(id, a) = "yes"
  BY <1>1, <1>2 DEF IntegerHolds, YesIf
<1>3. CASE t.k = "integer"
  <2>1. CanHold(TypeOfVariable[n], b) = IntegerHolds(t.id, b) /\ CanHold(TypeOfVariable[n], a) = IntegerHolds(t.id, a)
    BY <1>3 DEF CanHold
  <2> QED BY <1>2, <2>1
<1>4. CASE t.k = "subrange"
  <2>1. SubrangeHolds(t, b) = "yes" /\ CanHold(TypeOfVariable[n], a) = SubrangeHolds(t, a)
    BY <1>4 DEF CanHold
  <2>2. Has(b, "lesser") /\ Has(b, "greater") /\ Has(b, "integer") /\ t.min <= b.v /\ b.v <= t.max
    BY <2>1 DEF SubrangeHolds, Both, YesIf
  <2>3. Ancestor(t.of).k = "integer"
    BY <1>4, TypesAssumption DEF FamilyOf
  <2>4. IntegerHolds(Ancestor(t.of).id, b) = "yes"
    BY <2>1, <2>3 DEF SubrangeHolds, Both
  <2>5. IntegerHolds(Ancestor(t.of).id, a) = "yes"
    BY <1>2, <2>4
  <2> QED BY <1>1, <1>4, <2>1, <2>2, <2>3, <2>5 DEF SubrangeHolds, Both, YesIf
<1> QED BY <1>1, <1>3, <1>4

Numeric(n) == FamilyOf(TypeOfVariable[n]) \in {"integer", "subrange"}
NumberHeld(n, a) == a.temp \/ CanHold(TypeOfVariable[n], a) = "yes"

\* An assignment leaves a number that the type can hold.
LEMMA NumberAssigned ==
  ASSUME NEW n \in Names, Numeric(n), NEW a, IsVariable(n, a), NumberHeld(n, a), NEW b
  PROVE  NumberHeld(n, Assign(a, b).v)
<1>1. a.k \in {"integer", "subrange"} /\ a.t = TypeOfVariable[n] /\ Has(a, "assign")
      /\ (a.k = "subrange" => ~a.temp)
  BY VariableMethods DEF IsVariable, Numeric, ClassUninitialised
<1>2. ASSUME CanHold(TypeOfVariable[n], b) = "yes"
      PROVE  CanHold(TypeOfVariable[n], [a EXCEPT !.v = b.v]) = "yes"
  <2>1. IsVariable(n, [a EXCEPT !.v = b.v]) /\ [a EXCEPT !.v = b.v].v = b.v
    BY ReplacedAlike, VariableAlike DEF IsVariable
  <2> QED BY <1>2, <2>1, NumberKept DEF Numeric
<1>3. [a EXCEPT !.v = b.v].temp = a.temp
  BY Replaced DEF IsVariable
<1>4. CASE a.k = "integer"
  <2>1. Assign(a, b) = NumberAssign(a, b, "integer")
    BY <1>1, <1>4 DEF Assign
  <2>2. CASE a.temp
    BY <1>3, <2>1, <2>2 DEF NumberAssign, Done, Failed, NumberHeld
  <2>3. CASE ~a.temp
    <3>1. \/ Assign(a, b).v = a
          \/ CanHold(a.t, b) \notin {"crash", "no"} /\ Assign(a, b).v = [a EXCEPT !.v = b.v]
      BY <2>1, <2>3 DEF NumberAssign, Done, Failed
    <3>2. CanHold(a.t, b) \notin {"crash", "no"} => CanHold(a.t, b) = "yes"
      BY <1>1, <1>4 DEF CanHold, IsVariable, FamilyOf, IntegerHolds, YesIf
    <3> QED BY <1>1, <1>2, <3>1, <3>2 DEF NumberHeld
  <2> QED BY <2>2, <2>3
<1>5. CASE a.k = "subrange"
  <2>1. Assign(a, b) = SubrangeAssign(a, b)
    BY <1>1, <1>5 DEF Assign
  <2>2. \/ Assign(a, b).v = a
        \/ CanHold(a.t, b) \notin {"crash", "no"} /\ Assign(a, b).v = [a EXCEPT !.v = b.v]
    BY <2>1 DEF SubrangeAssign, Both, Done, Failed
  <2>3. CanHold(a.t, b) = SubrangeHolds(Ancestor(a.t), b)
    BY <1>1, <1>5 DEF CanHold, IsVariable, FamilyOf
  <2>4. SubrangeHolds(Ancestor(a.t), b) \in {"yes", "no", "crash"}
    BY DEF SubrangeHolds, Both, BoolHolds, IntegerHolds, YesIf
  <2> QED BY <1>1, <1>2, <2>2, <2>3, <2>4 DEF NumberHeld
<1> QED BY <1>1, <1>4, <1>5

Items(n) == {Ancestor(TypeOfVariable[n]).items[i] : i \in DOMAIN Ancestor(TypeOfVariable[n]).items}

\* An enumerated variable keeps its name or takes that of an enumerated value.
LEMMA NameAssigned ==
  ASSUME NEW n \in Names, Enumerated(n), NEW a, IsVariable(n, a), NEW b
  PROVE  \/ Assign(a, b).v.v = a.v
         \/ Has(b, "enumeration") /\ Assign(a, b).v.v = b.v
<1>1. a.k = "enum" /\ Has(a, "assign")
  BY VariableMethods DEF IsVariable, Enumerated
<1>2. Assign(a, b) = PlainAssign(a, b, "enumeration")
  BY <1>1 DEF Assign
<1>3. [a EXCEPT !.v = b.v].v = b.v
  BY ReplacedAlike DEF IsVariable
<1> QED BY <1>2, <1>3 DEF PlainAssign, Done, Failed

\* An enumerated variable is in the range of its type when its name is one of
\* the type.
LEMMA NameHeld ==
  ASSUME NEW n \in Names, Enumerated(n), NEW a, IsVariable(n, a)
  PROVE  CanHold(TypeOfVariable[n], a) = "yes" <=> a.v \in Items(n)
<1> DEFINE t == Ancestor(TypeOfVariable[n])
<1>1. t.k = "enum" /\ Has(a, "enumeration") /\ Has(a, "type_of") /\ TypeOf(a) = TypeOfVariable[n]
  BY VariableMethods DEF IsVariable, Enumerated, FamilyOf, TypeOf
<1>2. CanHold(TypeOfVariable[n], a) = EnumHolds(t, a)
  BY <1>1 DEF CanHold
<1>3. TypeOfVariable[n] # NoType
  BY <1>1 DEF NoType, Ancestor
<1>4. EnumCompatible(t, TypeOf(a)) = "yes"
  BY <1>1, <1>3 DEF EnumCompatible, YesIf
<1>5. EnumHolds(t, a) = IF a.v \notin Items(n) THEN "no" ELSE "yes"
  BY <1>1, <1>4 DEF EnumHolds, Items
<1> QED BY <1>2, <1>5

\* The names of two compatible types are the same.
LEMMA SameItems ==
  ASSUME NEW n \in Names, Enumerated(n), NEW m \in Names, Enumerated(m),
         EnumCompatible(Ancestor(TypeOfVariable[n]), TypeOfVariable[m]) = "yes"
  PROVE  Items(m) \subseteq Items(n)
<1> DEFINE mine == Ancestor(TypeOfVariable[n]).items
           theirs == Ancestor(TypeOfVariable[m]).items
<1>1. mine \in Seq(InBody(mine)) /\ theirs \in Seq(InBody(theirs))
  BY TypesAssumption DEF Enumerated, IsList
<1>2. Ancestor(TypeOfVariable[m]).k = "enum" /\ TypeOfVariable[m] # NoType
  BY DEF Enumerated, FamilyOf, NoType, Ancestor
<1>3. /\ \A i \in DOMAIN mine \cap DOMAIN theirs : mine[i] = theirs[i]
      /\ Len(theirs) = Len(mine)
  <2>1. EnumCompatible(Ancestor(TypeOfVariable[n]), TypeOfVariable[m])
          = IF \E i \in DOMAIN mine \cap DOMAIN theirs : mine[i] # theirs[i] THEN "no"
            ELSE IF Len(theirs) > Len(mine) THEN "crash"
            ELSE YesIf(Len(theirs) = Len(mine))
    BY <1>2 DEF EnumCompatible
  <2> QED BY <2>1 DEF YesIf
<1>4. DOMAIN mine = 1 .. Len(mine) /\ DOMAIN theirs = 1 .. Len(theirs)
  BY <1>1
<1> QED BY <1>3, <1>4 DEF Items

-----------------------------------------------------------------------------
(* Expressions *)

\* The temporary of an operator.
IsTemporary(a) == IsRecord(a) /\ a.k \in Operands

\* The same nodes, but for the temporaries.
SameNode(m, n) ==
  /\ IsOperator(n) <=> IsOperator(m)
  /\ n.e = m.e /\ n.changes = m.changes
  /\ ~IsOperator(m) => n = m
  /\ IsOperator(m) => n.operands = m.operands
                      /\ n = [e |-> n.e, operands |-> n.operands, changes |-> n.changes, temporary |-> n.temporary]
SameNodes(e, f) == Len(f) = Len(e) /\ IsList(f) /\ \A i \in 1 .. Len(e) : SameNode(e[i], f[i])

\* The variables have values of their types.
AreVariables(v) == \A n \in Names : IsVariable(n, v[n])

Allocated(e, n) == \A i \in 1 .. n : IsOperator(e[i]) => IsTemporary(e[i].temporary)

LEMMA KeptNodes ==
  ASSUME NEW e, IsExpression(e, Names), NEW i \in 1 .. Len(e), IsOperator(e[i]), NEW x
  PROVE  LET f == Kept(e, i, x).e
         IN IsExpression(f, Names) /\ SameNodes(e, f) /\ f[i].temporary = x
            /\ \A j \in 1 .. Len(e) : j # i => f[j] = e[j]
<1> DEFINE f == [e EXCEPT ![i].temporary = x]
<1>1. Kept(e, i, x).e = f
  BY DEF Kept, Answer
<1>2. e \in Seq({e[j] : j \in DOMAIN e}) /\ DOMAIN e = 1 .. Len(e) /\ Len(e) \in Nat /\ Len(e) # 0
  BY DEF IsExpression
<1>3. e[i] = [e |-> e[i].e, operands |-> e[i].operands, changes |-> e[i].changes, temporary |-> e[i].temporary]
      /\ e[i].operands[1] \in 1 .. i - 1
  <2>1. IsNode(e, i, Names)
    BY <1>2 DEF IsExpression
  <2> QED BY <2>1 DEF IsNode, IsOperator, BinaryOps, PrefixOps, Operations, Comparisons, LogicOps, SumOps,
                      QuotientOps, PowerOps, OrderOps, EqualOps, DerivedComparisons
<1>4. f = [j \in 1 .. Len(e) |-> IF j = i THEN [e[i] EXCEPT !.temporary = x] ELSE e[j]]
  BY <1>2
<1>5. f[i] = [e |-> e[i].e, operands |-> e[i].operands, changes |-> e[i].changes, temporary |-> x]
  <2>1. f[i] = [e[i] EXCEPT !.temporary = x]
    BY <1>4
  <2> HIDE DEF f
  <2> QED BY <1>3, <2>1
<1>6. f[i].e = e[i].e /\ f[i].operands = e[i].operands /\ f[i].changes = e[i].changes /\ f[i].temporary = x
  BY <1>5
<1>7. \A j \in 1 .. Len(e) : j # i => f[j] = e[j]
  BY <1>4
<1>8. IsList(f) /\ DOMAIN f = 1 .. Len(e) /\ Len(f) = Len(e) /\ f # <<>>
  <2>1. DOMAIN f = 1 .. Len(e) /\ f = [j \in 1 .. Len(e) |-> f[j]]
    BY <1>4
  <2> HIDE DEF f
  <2>2. IsList(f) /\ Len(f) = Len(e)
    BY <1>2, <2>1, ListOf
  <2> QED BY <1>2, <2>1, <2>2
<1> HIDE DEF f
<1>9. ASSUME NEW j \in 1 .. Len(e) PROVE IsNode(f, j, Names) /\ SameNode(e[j], f[j])
  <2>1. IsNode(e, j, Names)
    BY <1>2 DEF IsExpression
  <2>2. CASE j = i
    BY <1>3, <1>5, <1>6, <2>2 DEF IsNode, SameNode, IsOperator
  <2>3. CASE j # i
    <3>1. f[j] = e[j]
      BY <1>7, <2>3
    <3>2. IsNode(f, j, Names)
      BY <2>1, <3>1 DEF IsNode
    <3>3. IsOperator(e[j]) => e[j] = [e |-> e[j].e, operands |-> e[j].operands, changes |-> e[j].changes,
                                      temporary |-> e[j].temporary]
      BY <2>1 DEF IsNode, IsOperator, BinaryOps, PrefixOps, Operations, Comparisons, LogicOps, SumOps,
                  QuotientOps, PowerOps, OrderOps, EqualOps, DerivedComparisons
    <3> QED BY <3>1, <3>2, <3>3 DEF SameNode
  <2> QED BY <2>2, <2>3
<1>10. IsExpression(f, Names)
  BY <1>8, <1>9 DEF IsExpression, IsList, InBody
<1>11. SameNodes(e, f)
  BY <1>8, <1>9 DEF SameNodes, IsList, InBody
<1> QED BY <1>1, <1>6, <1>7, <1>10, <1>11

LEMMA TemporaryAlike ==
  ASSUME NEW a, IsTemporary(a), NEW b, Alike(a, b)
  PROVE  IsTemporary(b)
BY DEF IsTemporary, Alike

\* A computation that goes well leaves a temporary in its operator.
LEMMA ComputeKeeps ==
  ASSUME NEW e, NEW i, NEW v, IsOperator(e[i]), Compute(e, i, v).r = "ok"
  PROVE  \E x : /\ Compute(e, i, v) = Kept(e, i, x)
                /\ IsTemporary(e[i].temporary) => IsTemporary(x)
<1> DEFINE left == Value(Left(e, i), v)
           right == Value(Right(e, i), v)
           mine == e[i].temporary
           assigned == Assign(mine, left)
           Good(c) == c.r = "ok" => \E x : c = Kept(e, i, x) /\ (IsTemporary(mine) => IsTemporary(x))
<1>1. IsTemporary(mine) => IsTemporary(assigned.v)
  BY AssignAlike, TemporaryAlike DEF IsTemporary, Operands, Assignable
<1>2. Good(AssignAndNegate(e, i, v))
  <2> DEFINE result == Prefix(e[i].e, assigned.v)
  <2>1. IsTemporary(mine) => IsTemporary(result.v)
    BY <1>1, PrefixAlike, TemporaryAlike DEF IsTemporary
  <2>2. AssignAndNegate(e, i, v) = IF assigned.r # "ok" THEN assigned
                                   ELSE IF result.r # "ok" THEN result ELSE Kept(e, i, result.v)
    BY DEF AssignAndNegate, Chain
  <2> HIDE DEF assigned, result, mine
  <2> QED BY <2>1, <2>2
<1>3. e[i].e \in Operations => Good(DoOperation(e, i, v))
  <2> DEFINE result == Operate(e[i].e, assigned.v, right)
  <2>1. e[i].e \in Operations /\ IsTemporary(mine) => IsTemporary(result.v)
    BY <1>1, OperateAlike, TemporaryAlike DEF IsTemporary, Operands, Assignable
  <2>2. DoOperation(e, i, v) = IF assigned.r # "ok" THEN assigned
                               ELSE IF result.r # "ok" THEN result ELSE Kept(e, i, result.v)
    BY DEF DoOperation, Chain
  <2> HIDE DEF assigned, result, mine
  <2> QED BY <2>1, <2>2
<1>4. ASSUME NEW answer PROVE Good(Decided(e, i, answer))
  <2> DEFINE x == [mine EXCEPT !.v = IF answer = "yes" THEN 1 ELSE 0]
  <2>1. IsTemporary(mine) => IsTemporary(x)
    BY ReplacedAlike, TemporaryAlike DEF IsTemporary
  <2>2. Decided(e, i, answer) = IF answer = "crash" THEN Answer("crash", e) ELSE Kept(e, i, x)
    BY DEF Decided
  <2>3. Answer("crash", e).r # "ok"
    BY DEF Answer
  <2> HIDE DEF x, mine
  <2> QED BY <2>1, <2>2, <2>3
<1>5. Good(DoComparison(e, i, v)) /\ Good(NotEqual(e, i, v))
  BY <1>4 DEF DoComparison, NotEqual
<1>6. Good(GreaterOrEqual(e, i, v)) /\ Good(LesserOrEqual(e, i, v))
  <2>1. Answer("crash", e).r # "ok"
    BY DEF Answer
  <2>2. CASE SameStructure(Left(e, i), Right(e, i))
    BY <1>4, <2>2 DEF GreaterOrEqual, LesserOrEqual
  <2>3. CASE ~SameStructure(Left(e, i), Right(e, i))
    BY <2>1, <2>3 DEF GreaterOrEqual, LesserOrEqual
  <2> QED BY <2>2, <2>3
<1> HIDE DEF Good
<1>7. Good(Compute(e, i, v))
  BY <1>2, <1>3, <1>5, <1>6 DEF Compute, IsOperator, BinaryOps, PrefixOps, Operations, Comparisons, LogicOps,
     SumOps, QuotientOps, PowerOps, OrderOps, EqualOps, DerivedComparisons
<1> QED BY <1>7 DEF Good

\* The kind of the value of a node.
LEMMA NodeKinds ==
  ASSUME NEW e, IsExpression(e, Names), NEW i \in 1 .. Len(e), Allocated(e, i), NEW v, AreVariables(v)
  PROVE  Value(e[i], v).k \in Kinds
<1>1. IsNode(e, i, Names)
  BY LenProperties DEF IsExpression
<1>2. i \in 1 .. i
  BY LenProperties DEF IsExpression
<1>3. CASE e[i].e = "identifier" /\ e[i].name \in Names
  BY <1>3, VariableMethods DEF AreVariables, Value, Assignable, Kinds
<1>4. CASE e[i].e \in {"inline", "name"} /\ e[i].value.k \in Kinds
  BY <1>4 DEF Value
<1>5. CASE IsOperator(e[i])
  <2>1. Value(e[i], v) = e[i].temporary
    BY <1>5 DEF Value, IsOperator, BinaryOps, PrefixOps, Operations, Comparisons, LogicOps, SumOps, QuotientOps,
       PowerOps, OrderOps, EqualOps, DerivedComparisons
  <2> QED BY <1>2, <1>5, <2>1 DEF Allocated, IsTemporary, Operands, Kinds
<1> QED BY <1>1, <1>3, <1>4, <1>5 DEF IsNode

LEMMA TemporaryMade ==
  ASSUME NEW of, of.k \in Kinds, Has(of, "create_temp_from")
  PROVE  IsTemporary(TemporaryFrom(of))
<1>1. of.k \in {"integer", "bool", "real", "subrange"}
  BY DEF Kinds, Has, Methods, Common, IntegerMethods, BoolMethods, RealMethods, StringMethods,
         LiteralStringMethods, EnumMethods, InlineEnumMethods, SubrangeMethods, CaseRangeMethods
<1> QED BY <1>1 DEF TemporaryFrom, IsTemporary, IsRecord, Operands

LEMMA BoolTemporaryMade == IsTemporary(BoolTemporary)
BY DEF BoolTemporary, IsTemporary, IsRecord, Operands

\* What is done to an expression: to one of its nodes, and to all of them.
Tasks == {"allocate", "verify", "step"}
Does(task, e, i, v) ==
  CASE task = "allocate" -> AllocateNode(e, i, v)
    [] task = "verify" -> VerifyNode(e, i, v)
    [] task = "step" -> StepNode(e, i, v)
Visit(task, e, v) ==
  CASE task = "allocate" -> Allocate(e, v)
    [] task = "verify" -> Verify(e, v)
    [] task = "step" -> Step(e, v)

\* What the tasks do to a node: nothing, or its temporary is set.
LEMMA NodeKept ==
  ASSUME NEW task \in Tasks, NEW e, IsExpression(e, Names), NEW i \in 1 .. Len(e),
         NEW v, AreVariables(v), Does(task, e, i, v).r = "ok"
  PROVE  \/ Does(task, e, i, v) = Answer("ok", e) /\ (task = "allocate" => ~IsOperator(e[i]))
         \/ /\ IsOperator(e[i])
            /\ \E x : /\ Does(task, e, i, v) = Kept(e, i, x)
                      /\ task = "allocate" /\ Allocated(e, i - 1) => IsTemporary(x)
                      /\ task # "allocate" /\ IsTemporary(e[i].temporary) => IsTemporary(x)
<1>1. CASE task = "allocate"
  <2>1. Does(task, e, i, v) = AllocateNode(e, i, v)
    BY <1>1 DEF Does
  <2>2. CASE ~IsOperator(e[i])
    BY <2>1, <2>2 DEF AllocateNode
  <2>3. CASE IsOperator(e[i]) /\ e[i].e \in Comparisons
    <3>1. Does(task, e, i, v) = Kept(e, i, BoolTemporary)
      BY <2>1, <2>3 DEF AllocateNode, AllocateBool
    <3> QED BY <1>1, <2>3, <3>1, BoolTemporaryMade
  <2>4. CASE IsOperator(e[i]) /\ e[i].e \notin Comparisons
    <3> DEFINE of == Value(Left(e, i), v)
    <3>1. Does(task, e, i, v) = IF Has(of, "create_temp_from") THEN Kept(e, i, TemporaryFrom(of))
                                ELSE Answer("error", e)
      BY <2>1, <2>4 DEF AllocateNode, ClonedTemporary
    <3>2. Does(task, e, i, v) = Kept(e, i, TemporaryFrom(of)) /\ Has(of, "create_temp_from")
      BY <3>1 DEF Answer
    <3>3. e[i].operands[1] \in 1 .. i - 1 /\ i \in Nat
      <4>1. IsNode(e, i, Names)
        BY LenProperties DEF IsExpression
      <4> QED BY <2>4, <4>1, LenProperties
            DEF IsNode, IsOperator, BinaryOps, PrefixOps, Operations, Comparisons, LogicOps, SumOps,
                QuotientOps, PowerOps, OrderOps, EqualOps, DerivedComparisons, IsExpression
    <3>4. ASSUME Allocated(e, i - 1) PROVE IsTemporary(TemporaryFrom(of))
      <4>1. Allocated(e, e[i].operands[1]) /\ e[i].operands[1] \in 1 .. Len(e)
        BY <3>3, <3>4, LenProperties DEF Allocated, IsExpression
      <4>2. of.k \in Kinds
        BY <4>1, NodeKinds DEF Left
      <4> HIDE DEF of
      <4> QED BY <3>2, <4>2, TemporaryMade
    <3> HIDE DEF of
    <3> QED BY <1>1, <2>4, <3>2, <3>4
  <2> QED BY <2>2, <2>3, <2>4
<1>2. ASSUME IsOperator(e[i]), Does(task, e, i, v) = Compute(e, i, v), task # "allocate"
      PROVE  \E x : /\ Does(task, e, i, v) = Kept(e, i, x)
                    /\ IsTemporary(e[i].temporary) => IsTemporary(x)
  BY <1>2, ComputeKeeps
<1>3. CASE task = "verify"
  <2>1. Does(task, e, i, v) = VerifyNode(e, i, v)
    BY <1>3 DEF Does
  <2>2. CASE ~IsOperator(e[i])
    BY <1>3, <2>1, <2>2 DEF VerifyNode
  <2>3. CASE IsOperator(e[i])
    <3>1. Does(task, e, i, v) = IF CheckNode(e, i, v).r = "ok"
                                THEN IF Constant(e[i]) THEN Compute(e, i, v) ELSE Answer("ok", e)
                                ELSE CheckNode(e, i, v)
      BY <2>1, <2>3 DEF VerifyNode, Chain
    <3> QED BY <1>2, <1>3, <2>3, <3>1
  <2> QED BY <2>2, <2>3
<1>4. CASE task = "step"
  <2>1. Does(task, e, i, v) = StepNode(e, i, v)
    BY <1>4 DEF Does
  <2>2. \/ Does(task, e, i, v) = Answer("ok", e)
        \/ IsOperator(e[i]) /\ Does(task, e, i, v) = Compute(e, i, v)
    BY <2>1 DEF StepNode, PrefixStep, Steps, Answer
  <2> QED BY <1>2, <1>4, <2>2
<1> QED BY <1>1, <1>3, <1>4 DEF Tasks

LEMMA NodeDone ==
  ASSUME NEW task \in Tasks, NEW e, IsExpression(e, Names), NEW i \in 1 .. Len(e),
         NEW v, AreVariables(v), Does(task, e, i, v).r = "ok", NEW f, f = Does(task, e, i, v).e
  PROVE  /\ IsExpression(f, Names) /\ SameNodes(e, f)
         /\ task = "allocate" /\ Allocated(e, i - 1) => Allocated(f, i)
         /\ task # "allocate" /\ Allocated(e, Len(e)) => Allocated(f, Len(e))
<1>1. Len(e) \in Nat /\ DOMAIN e = 1 .. Len(e)
  BY LenProperties DEF IsExpression
<1>2. ASSUME NEW j \in 1 .. Len(e)
      PROVE  IsOperator(e[j]) => e[j] = [e |-> e[j].e, operands |-> e[j].operands, changes |-> e[j].changes,
                                         temporary |-> e[j].temporary]
  <2>1. IsNode(e, j, Names)
    BY <1>1 DEF IsExpression
  <2> QED BY <2>1 DEF IsNode, IsOperator, BinaryOps, PrefixOps, Operations, Comparisons, LogicOps, SumOps,
                      QuotientOps, PowerOps, OrderOps, EqualOps, DerivedComparisons
<1>3. CASE Does(task, e, i, v) = Answer("ok", e) /\ (task = "allocate" => ~IsOperator(e[i]))
  <2>1. f = e
    BY <1>3 DEF Answer
  <2>2. SameNodes(e, e)
    BY <1>1, <1>2 DEF SameNodes, SameNode, IsExpression, IsList, InBody
  <2>3. task = "allocate" /\ Allocated(e, i - 1) => Allocated(e, i)
    BY <1>1, <1>3 DEF Allocated
  <2> QED BY <2>1, <2>2, <2>3
<1>4. ASSUME IsOperator(e[i]), NEW x, Does(task, e, i, v) = Kept(e, i, x),
             task = "allocate" /\ Allocated(e, i - 1) => IsTemporary(x),
             task # "allocate" /\ IsTemporary(e[i].temporary) => IsTemporary(x)
      PROVE  /\ IsExpression(f, Names) /\ SameNodes(e, f)
             /\ task = "allocate" /\ Allocated(e, i - 1) => Allocated(f, i)
             /\ task # "allocate" /\ Allocated(e, Len(e)) => Allocated(f, Len(e))
  <2>1. /\ IsExpression(f, Names) /\ SameNodes(e, f) /\ f[i].temporary = x
        /\ \A j \in 1 .. Len(e) : j # i => f[j] = e[j]
    BY <1>4, KeptNodes
  <2>2. task = "allocate" /\ Allocated(e, i - 1) => Allocated(f, i)
    BY <1>1, <1>4, <2>1 DEF Allocated
  <2>3. task # "allocate" /\ Allocated(e, Len(e)) => Allocated(f, Len(e))
    BY <1>1, <1>4, <2>1 DEF Allocated
  <2> QED BY <2>1, <2>2, <2>3
<1> QED BY <1>3, <1>4, NodeKept

LEMMA SameNodesTransitive ==
  ASSUME NEW e, NEW f, NEW g, SameNodes(e, f), SameNodes(f, g)
  PROVE  SameNodes(e, g)
<1>1. Len(f) = Len(e) /\ Len(g) = Len(e) /\ IsList(g)
  BY DEF SameNodes
<1>2. ASSUME NEW i \in 1 .. Len(e) PROVE SameNode(e[i], g[i])
  <2>1. SameNode(e[i], f[i]) /\ SameNode(f[i], g[i])
    BY <1>1 DEF SameNodes
  <2> QED BY <2>1 DEF SameNode
<1> QED BY <1>1, <1>2 DEF SameNodes

\* A set of numbers that has a member has a least one: its predecessor, if
\* there is one, is outside the set.
LEMMA LeastNumber ==
  ASSUME NEW T, T \subseteq Nat, T # {}
  PROVE  \E m \in T : m \in Nat /\ (m # 0 => m - 1 \in Nat /\ m - 1 \notin T)
<1> DEFINE R == {ss \in Nat \X Nat : ss[1] < ss[2]}
<1>1. WF!IsWellFoundedOn(R, Nat)
  BY WF!NatLessThanWellFounded DEF WF!OpToRel
<1>2. PICK m \in T : \A y \in T : ~ (<<y, m>> \in R)
  BY <1>1, WF!WFMin
<1>3. m \in Nat
  OBVIOUS
<1>4. ASSUME m # 0, m - 1 \in T PROVE FALSE
  <2>1. m - 1 \in Nat /\ m - 1 < m
    BY <1>3, <1>4
  <2>2. <<m - 1, m>> \in R
    BY <1>3, <2>1
  <2> QED BY <1>2, <1>4, <2>2
<1>5. m # 0 => m - 1 \in Nat
  BY <1>3
<1> QED BY <1>3, <1>4, <1>5

\* The answers of a visit, node by node.
VisitedAfter(task, e, v, n, h) ==
  IF n = 0 THEN Answer("ok", e) ELSE Chain(h[n - 1], LAMBDA done : Does(task, done.e, n, v))
Visits(task, e, v, N, h) == h = [n \in 0 .. N |-> VisitedAfter(task, e, v, n, h)]

LEMMA VisitsExist ==
  ASSUME NEW task, NEW e, NEW v, NEW N \in Nat
  PROVE  \E h : Visits(task, e, v, N, h)
<1> DEFINE Bad == {m \in Nat : ~ \E h : Visits(task, e, v, m, h)}
<1> SUFFICES ASSUME Bad # {} PROVE FALSE
  OBVIOUS
<1>1. PICK m \in Bad : m \in Nat /\ (m # 0 => m - 1 \in Nat /\ m - 1 \notin Bad)
  <2>1. Bad \subseteq Nat
    OBVIOUS
  <2> HIDE DEF Bad
  <2> QED BY <2>1, LeastNumber
<1>2. m # 0
  <2> DEFINE h == [n \in 0 .. 0 |-> Answer("ok", e)]
  <2>1. \A n \in 0 .. 0 : VisitedAfter(task, e, v, n, h) = Answer("ok", e)
    BY DEF VisitedAfter
  <2>2. Visits(task, e, v, 0, h)
    BY <2>1 DEF Visits
  <2> QED BY <2>2
<1>3. PICK h : Visits(task, e, v, m - 1, h)
  BY <1>1, <1>2
<1> DEFINE g == [n \in 0 .. m |-> IF n = m THEN VisitedAfter(task, e, v, m, h) ELSE h[n]]
<1>4. ASSUME NEW n \in 0 .. m PROVE g[n] = VisitedAfter(task, e, v, n, g)
  <2>1. n = 0 \/ (n - 1 \in 0 .. m /\ n - 1 # m)
    BY <1>1
  <2>2. n # 0 => g[n - 1] = h[n - 1]
    BY <2>1
  <2>3. VisitedAfter(task, e, v, n, g) = VisitedAfter(task, e, v, n, h)
    BY <2>2 DEF VisitedAfter, Chain
  <2>4. CASE n = m
    BY <2>3, <2>4
  <2>5. CASE n # m
    <3>1. n \in 0 .. (m - 1)
      BY <1>1, <2>5
    <3>2. h[n] = VisitedAfter(task, e, v, n, h)
      BY <1>3, <3>1 DEF Visits
    <3> QED BY <2>3, <2>5, <3>2
  <2> QED BY <2>4, <2>5
<1>5. Visits(task, e, v, m, g)
  BY <1>4 DEF Visits
<1> QED BY <1>1, <1>5

LEMMA VisitIsTraced ==
  ASSUME NEW task \in Tasks, NEW e, NEW v, Len(e) \in Nat
  PROVE  \E h : Visits(task, e, v, Len(e), h) /\ Visit(task, e, v) = h[Len(e)]
<1> DEFINE A(h) == h = [n \in 0 .. Len(e) |-> IF n = 0 THEN Answer("ok", e)
                          ELSE Chain(h[n - 1], LAMBDA done : AllocateNode(done.e, n, v))]
           V(h) == h = [n \in 0 .. Len(e) |-> IF n = 0 THEN Answer("ok", e)
                          ELSE Chain(h[n - 1], LAMBDA done : VerifyNode(done.e, n, v))]
           S(h) == h = [n \in 0 .. Len(e) |-> IF n = 0 THEN Answer("ok", e)
                          ELSE Chain(h[n - 1], LAMBDA done : StepNode(done.e, n, v))]
           HA == CHOOSE h : A(h)
           HV == CHOOSE h : V(h)
           HS == CHOOSE h : S(h)
<1>1. /\ \A h : A(h) <=> Visits("allocate", e, v, Len(e), h)
      /\ \A h : V(h) <=> Visits("verify", e, v, Len(e), h)
      /\ \A h : S(h) <=> Visits("step", e, v, Len(e), h)
  BY DEF Visits, VisitedAfter, Does
<1>2. /\ Visit("allocate", e, v) = HA[Len(e)]
      /\ Visit("verify", e, v) = HV[Len(e)]
      /\ Visit("step", e, v) = HS[Len(e)]
  <2>1. Visit("allocate", e, v) = HA[Len(e)]
    BY DEF Visit, Allocate
  <2>2. Visit("verify", e, v) = HV[Len(e)]
    BY DEF Visit, Verify
  <2>3. Visit("step", e, v) = HS[Len(e)]
    BY DEF Visit, Step
  <2> QED BY <2>1, <2>2, <2>3
<1> HIDE DEF A, V, S
<1>3. (\E h : A(h)) /\ (\E h : V(h)) /\ (\E h : S(h))
  BY <1>1, VisitsExist
<1>4. A(HA) /\ V(HV) /\ S(HS)
  <2>1. A(HA)
    BY <1>3, Zenon
  <2>2. V(HV)
    BY <1>3, Zenon
  <2>3. S(HS)
    BY <1>3, Zenon
  <2> QED BY <2>1, <2>2, <2>3
<1> HIDE DEF HA, HV, HS
<1> QED BY <1>1, <1>2, <1>4 DEF Tasks

\* An expression that is visited with success is the expression it was, but
\* for the temporaries: all of them are there once it is allocated, and none is
\* lost afterwards.
LEMMA VisitKeeps ==
  ASSUME NEW task \in Tasks, NEW e, IsExpression(e, Names), NEW v, AreVariables(v),
         Visit(task, e, v).r = "ok", NEW f, f = Visit(task, e, v).e
  PROVE  /\ IsExpression(f, Names) /\ SameNodes(e, f)
         /\ task = "allocate" => Allocated(f, Len(f))
         /\ task # "allocate" /\ Allocated(e, Len(e)) => Allocated(f, Len(f))
<1> DEFINE N == Len(e)
<1>1. N \in Nat /\ DOMAIN e = 1 .. N
  BY LenProperties DEF IsExpression
<1>2. PICK h : Visits(task, e, v, N, h) /\ Visit(task, e, v) = h[N]
  BY <1>1, VisitIsTraced
<1> DEFINE Good(n) ==
             h[n].r = "ok" =>
               /\ IsExpression(h[n].e, Names) /\ SameNodes(e, h[n].e)
               /\ task = "allocate" => Allocated(h[n].e, n)
               /\ task # "allocate" /\ Allocated(e, N) => Allocated(h[n].e, N)
           Bad == {n \in 0 .. N : ~Good(n)}
<1>3. Good(0)
  <2>1. h[0] = Answer("ok", e)
    BY <1>1, <1>2 DEF Visits, VisitedAfter
  <2>2. h[0].e = e
    BY <2>1 DEF Answer
  <2>3. ASSUME NEW j \in 1 .. N
        PROVE  IsOperator(e[j]) => e[j] = [e |-> e[j].e, operands |-> e[j].operands, changes |-> e[j].changes,
                                           temporary |-> e[j].temporary]
    <3>1. IsNode(e, j, Names)
      BY <1>1 DEF IsExpression
    <3> QED BY <3>1 DEF IsNode, IsOperator, BinaryOps, PrefixOps, Operations, Comparisons, LogicOps, SumOps,
                        QuotientOps, PowerOps, OrderOps, EqualOps, DerivedComparisons
  <2>4. SameNodes(e, e)
    BY <1>1, <2>3 DEF SameNodes, SameNode, IsExpression, IsList, InBody
  <2>5. Allocated(e, 0)
    BY DEF Allocated
  <2> QED BY <2>2, <2>4, <2>5
<1>4. ASSUME NEW n \in 1 .. N, Good(n - 1) PROVE Good(n)
  <2> SUFFICES ASSUME h[n].r = "ok" PROVE Good(n)
    OBVIOUS
  <2> DEFINE g == h[n - 1].e
  <2>1. h[n] = IF h[n - 1].r = "ok" THEN Does(task, g, n, v) ELSE h[n - 1]
    BY <1>1, <1>2 DEF Visits, VisitedAfter, Chain
  <2>2. h[n - 1].r = "ok" /\ h[n] = Does(task, g, n, v)
    BY <2>1
  <2>3. IsExpression(g, Names) /\ SameNodes(e, g) /\ Len(g) = N
        /\ (task = "allocate" => Allocated(g, n - 1))
        /\ (task # "allocate" /\ Allocated(e, N) => Allocated(g, N))
    BY <1>4, <2>2 DEF SameNodes
  <2>4. /\ IsExpression(h[n].e, Names) /\ SameNodes(g, h[n].e)
        /\ task = "allocate" /\ Allocated(g, n - 1) => Allocated(h[n].e, n)
        /\ task # "allocate" /\ Allocated(g, N) => Allocated(h[n].e, N)
    <3> HIDE DEF g
    <3> QED BY <2>2, <2>3, NodeDone
  <2>5. SameNodes(e, h[n].e)
    BY <2>3, <2>4, SameNodesTransitive
  <2> QED BY <2>3, <2>4, <2>5
<1>5. Bad = {}
  <2> SUFFICES ASSUME Bad # {} PROVE FALSE
    OBVIOUS
  <2>1. Bad \subseteq Nat
    BY <1>1
  <2>2. PICK m \in Bad : m \in Nat /\ (m # 0 => m - 1 \in Nat /\ m - 1 \notin Bad)
    <3> HIDE DEF Bad
    <3> QED BY <2>1, LeastNumber
  <2>3. m # 0
    BY <1>3, <2>2
  <2>4. m \in 1 .. N /\ m - 1 \in 0 .. N
    BY <1>1, <2>2, <2>3
  <2>5. Good(m - 1)
    BY <2>2, <2>3, <2>4
  <2> QED BY <1>4, <2>2, <2>4, <2>5
<1>6. Good(N)
  BY <1>1, <1>5
<1> HIDE DEF Good
<1>7. /\ IsExpression(f, Names) /\ SameNodes(e, f)
      /\ task = "allocate" => Allocated(f, N)
      /\ task # "allocate" /\ Allocated(e, N) => Allocated(f, N)
  BY <1>2, <1>6 DEF Good
<1> QED BY <1>7 DEF SameNodes

-----------------------------------------------------------------------------
(* Enumerated values *)

\* What the check of an assignment to an enumerated variable says of the
\* expression.
Asked(n, e) ==
  \/ /\ Root(e).e = "identifier" /\ Root(e).name \in Names
     /\ Enumerated(Root(e).name) /\ Items(Root(e).name) \subseteq Items(n)
  \/ Root(e).e \in {"inline", "name"} /\ Root(e).value.v \in Items(n)

LEMMA EnumAnswers ==
  ASSUME NEW n \in Names, Enumerated(n), NEW a, IsVariable(n, a), NEW b, EnumChecks(a, b) = "ok"
  PROVE  FALSE
<1>1. Ancestor(TypeOfVariable[n]).k = "enum" /\ a.t = TypeOfVariable[n]
  BY DEF IsVariable, Enumerated, FamilyOf
<1>2. ASSUME NEW t, NEW u PROVE EnumCompatible(t, u) \in {"yes", "no", "crash"}
  BY DEF EnumCompatible, YesIf
<1>3. CanHold(a.t, b) = EnumHolds(Ancestor(a.t), b) /\ Compatible(a.t, TypeOf(b)) = EnumCompatible(Ancestor(a.t), TypeOf(b))
  BY <1>1 DEF CanHold, Compatible
<1>4. EnumHolds(Ancestor(a.t), b) \in {"yes", "no", "crash"}
  BY <1>2 DEF EnumHolds
<1> QED BY <1>2, <1>3, <1>4 DEF EnumChecks, Both

LEMMA AskedWhenVerified ==
  ASSUME NEW n \in Names, Enumerated(n), NEW e, IsExpression(e, Names),
         IsOperator(Root(e)) => IsTemporary(Root(e).temporary),
         NEW v, AreVariables(v), VariableAssignable(n, ResultOf(e, v), v) = "ok"
  PROVE  Asked(n, e)
<1> DEFINE b == ResultOf(e, v)
           t == Ancestor(TypeOfVariable[n])
<1>1. IsVariable(n, v[n]) /\ v[n].k = "enum" /\ v[n].t = TypeOfVariable[n] /\ t.k = "enum"
  BY DEF AreVariables, IsVariable, Enumerated, FamilyOf
<1>2. AssignableFrom(v[n], b) = "yes"
  <2>1. Accepts(AssignableFrom(v[n], b)) = "ok"
    BY DEF VariableAssignable
  <2>2. Has(v[n], "assignable_from") => AssignableFrom(v[n], b) = EnumChecks(v[n], b)
    BY <1>1 DEF AssignableFrom
  <2>3. AssignableFrom(v[n], b) # "ok"
    BY <1>1, <2>2, EnumAnswers DEF AssignableFrom
  <2> QED BY <2>1, <2>3 DEF Accepts
<1>3. EnumChecks(v[n], b) = "yes"
  BY <1>1, <1>2 DEF AssignableFrom
<1>4. Has(b, "enumeration") /\ CanHold(TypeOfVariable[n], b) = "yes"
  BY <1>1, <1>3 DEF EnumChecks, Both
<1>5. EnumHolds(t, b) = "yes"
  BY <1>1, <1>4 DEF CanHold
<1>6. b.v \in Items(n) /\ (Has(b, "type_of") => EnumCompatible(t, TypeOf(b)) = "yes")
  BY <1>5 DEF EnumHolds, Items
<1>7. Len(e) \in 1 .. Len(e) /\ IsNode(e, Len(e), Names)
  <2>1. Len(e) \in Nat /\ DOMAIN e = 1 .. Len(e) /\ Len(e) # 0
    BY LenProperties, EmptySeq DEF IsExpression
  <2> QED BY <2>1 DEF IsExpression
<1>8. CASE Root(e).e = "identifier" /\ Root(e).name \in Names
  <2> DEFINE m == Root(e).name
  <2>1. b = v[m]
    BY <1>8 DEF ResultOf, Value
  <2>2. IsVariable(m, b) /\ m \in Names
    BY <1>8, <2>1 DEF AreVariables
  <2>3. b.k = "enum" /\ Has(b, "type_of")
    BY <1>4, <2>2, VariableMethods
  <2>4. Enumerated(m) /\ TypeOf(b) = TypeOfVariable[m]
    BY <2>2, <2>3 DEF IsVariable, Enumerated, TypeOf
  <2>5. Items(m) \subseteq Items(n)
    BY <1>6, <2>2, <2>3, <2>4, SameItems
  <2> QED BY <1>8, <2>4, <2>5 DEF Asked
<1>9. CASE Root(e).e \in {"inline", "name"}
  BY <1>6, <1>9 DEF Asked, ResultOf, Value
<1>10. CASE IsOperator(Root(e))
  <2>1. b = Root(e).temporary
    BY <1>10 DEF ResultOf, Value, IsOperator, BinaryOps, PrefixOps, Operations, Comparisons, LogicOps, SumOps,
       QuotientOps, PowerOps, OrderOps, EqualOps, DerivedComparisons
  <2>2. b.k \in Operands
    BY <1>10, <2>1 DEF IsTemporary
  <2> QED BY <1>4, <2>2 DEF Operands, Has, Methods, Common, IntegerMethods, BoolMethods, RealMethods
<1> QED BY <1>7, <1>8, <1>9, <1>10 DEF IsNode, Root

\* A step leaves what has been asked.
LEMMA AskedAfter ==
  ASSUME NEW n \in Names, NEW e, IsExpression(e, Names), Asked(n, e), NEW f, SameNodes(e, f)
  PROVE  Asked(n, f)
<1>1. Len(e) \in 1 .. Len(e) /\ Len(f) = Len(e)
  BY LenProperties, EmptySeq DEF IsExpression, SameNodes
<1>2. SameNode(Root(e), Root(f))
  BY <1>1 DEF SameNodes, Root
<1>3. ~IsOperator(Root(e))
  BY DEF Asked, IsOperator, BinaryOps, PrefixOps, Operations, Comparisons, LogicOps, SumOps, QuotientOps,
         PowerOps, OrderOps, EqualOps, DerivedComparisons
<1>4. Root(f) = Root(e)
  BY <1>2, <1>3 DEF SameNode
<1> QED BY <1>4 DEF Asked

NamesIn(v) == \A n \in Names : Enumerated(n) => v[n].v \in Items(n)
NumbersIn(v) == \A n \in Names : Numeric(n) => NumberHeld(n, v[n])

\* What has been asked about is in range when it is evaluated.
LEMMA AskedInRange ==
  ASSUME NEW n \in Names, NEW e, Asked(n, e), NEW v, NamesIn(v)
  PROVE  ResultOf(e, v).v \in Items(n)
BY DEF Asked, NamesIn, ResultOf, Value

-----------------------------------------------------------------------------
(* Lists of answers *)

LEMMA FirstIsIn ==
  ASSUME NEW T, T \subseteq Nat, T # {}
  PROVE  FirstOf(T) \in T
<1> DEFINE R == {ss \in Nat \X Nat : ss[1] < ss[2]}
<1>1. WF!IsWellFoundedOn(R, Nat)
  BY WF!NatLessThanWellFounded DEF WF!OpToRel
<1>2. PICK m \in T : \A y \in T : ~ (<<y, m>> \in R)
  BY <1>1, WF!WFMin
<1>3. \A y \in T : m <= y
  <2> SUFFICES ASSUME NEW y \in T PROVE m <= y
    OBVIOUS
  <2>1. m \in Nat /\ y \in Nat /\ ~(y < m)
    BY <1>2
  <2> QED BY <2>1
<1>4. \E i \in T : \A j \in T : i <= j
  BY <1>3
<1> QED BY <1>4, Zenon DEF FirstOf

LEMMA ThroughOk ==
  ASSUME NEW N \in Nat, NEW answers, DOMAIN answers = 1 .. N, Through(answers).r = "ok"
  PROVE  /\ \A i \in 1 .. N : answers[i].r = "ok"
         /\ Through(answers).s = [i \in 1 .. N |-> answers[i].s]
<1> DEFINE failed == {i \in 1 .. N : answers[i].r # "ok"}
<1>1. Through(answers) = IF failed = {} THEN Answered("ok", [i \in 1 .. N |-> answers[i].s])
                         ELSE answers[FirstOf(failed)]
  BY DEF Through
<1>2. failed # {} => FirstOf(failed) \in failed
  <2>1. failed \subseteq Nat
    OBVIOUS
  <2> HIDE DEF failed
  <2> QED BY <2>1, FirstIsIn
<1>3. failed = {}
  <2> SUFFICES ASSUME failed # {} PROVE FALSE
    OBVIOUS
  <2>1. FirstOf(failed) \in failed /\ Through(answers) = answers[FirstOf(failed)]
    BY <1>1, <1>2
  <2>2. answers[FirstOf(failed)].r # "ok"
    BY <2>1
  <2> QED BY <2>1, <2>2
<1>4. Through(answers) = Answered("ok", [i \in 1 .. N |-> answers[i].s])
  BY <1>1, <1>3
<1> QED BY <1>3, <1>4 DEF Answered

LEMMA ThroughAllOk ==
  ASSUME NEW N \in Nat, NEW answers, DOMAIN answers = 1 .. N, ThroughAll(answers).r = "ok"
  PROVE  /\ \A i \in 1 .. N : answers[i].r = "ok"
         /\ ThroughAll(answers).s = [i \in 1 .. N |-> answers[i].s]
<1> DEFINE results == {answers[i].r : i \in 1 .. N}
<1>1. ThroughAll(answers) = IF results \subseteq {"ok"} THEN Answered("ok", [i \in 1 .. N |-> answers[i].s])
                            ELSE Answered(IF "crash" \in results THEN "crash" ELSE "error", <<>>)
  BY DEF ThroughAll
<1>2. results \subseteq {"ok"}
  <2> HIDE DEF results
  <2> QED BY <1>1 DEF Answered
<1> QED BY <1>1, <1>2 DEF Answered

-----------------------------------------------------------------------------
(* The link: allocate *)

LEMMA TrueList ==
  ASSUME NEW N \in Nat, NEW f, f = [i \in 1 .. N |-> f[i]]
  PROVE  IsList(f) /\ Len(f) = N /\ DOMAIN f = 1 .. N
<1>1. DOMAIN f = 1 .. N
  OBVIOUS
<1> QED BY <1>1, ListOf

AllocatedAssignment(s) == IsAssignment(s) /\ Allocated(s.from, Len(s.from))
AllocatedBody(list) == IsList(list) /\ \A s \in InBody(list) : AllocatedAssignment(s)

LEMMA AssignmentAllocated ==
  ASSUME NEW s, IsAssignment(s), NEW v, AreVariables(v), AllocateAssignment(s, v).r = "ok"
  PROVE  AllocatedAssignment(AllocateAssignment(s, v).s)
<1> DEFINE from == Allocate(s.from, v)
           t == Assignment(s.to, from.e)
<1>1. from.r = "ok" /\ AllocateAssignment(s, v) = Answered("ok", t)
  BY DEF AllocateAssignment, Chain
<1>2. IsExpression(s.from, Names) /\ s.to \in Names
  BY DEF IsAssignment
<1>3. IsExpression(from.e, Names) /\ Allocated(from.e, Len(from.e))
  BY <1>1, <1>2, VisitKeeps DEF Visit, Tasks
<1> HIDE DEF from
<1>4. t.s = "assign" /\ t.to = s.to /\ t.from = from.e
  BY DEF Assignment
<1>5. AllocatedAssignment(t)
  BY <1>2, <1>3, <1>4 DEF AllocatedAssignment, IsAssignment
<1> QED BY <1>1, <1>5 DEF Answered

LEMMA BodyAllocated ==
  ASSUME NEW list, AreAssignments(list), NEW v, AreVariables(v), AllocateBody(list, v).r = "ok"
  PROVE  AllocatedBody(AllocateBody(list, v).s)
<1> DEFINE N == Len(list)
           answers == [i \in DOMAIN list |-> AllocateAssignment(list[i], v)]
           f == AllocateBody(list, v).s
<1>1. N \in Nat /\ DOMAIN list = 1 .. N /\ \A i \in 1 .. N : IsAssignment(list[i])
  BY ListMembers DEF AreAssignments
<1>2. /\ \A i \in 1 .. N : answers[i].r = "ok"
      /\ f = [i \in 1 .. N |-> answers[i].s]
  <2>1. DOMAIN answers = 1 .. N /\ AllocateBody(list, v) = Through(answers)
    BY <1>1 DEF AllocateBody
  <2> HIDE DEF answers
  <2> QED BY <1>1, <2>1, ThroughOk
<1>3. ASSUME NEW i \in 1 .. N PROVE AllocatedAssignment(f[i])
  <2>1. answers[i] = AllocateAssignment(list[i], v) /\ f[i] = answers[i].s /\ answers[i].r = "ok"
    BY <1>1, <1>2
  <2> HIDE DEF answers, f
  <2> QED BY <1>1, <2>1, AssignmentAllocated
<1>4. f = [i \in 1 .. N |-> f[i]]
  BY <1>2
<1> HIDE DEF f
<1>5. IsList(f) /\ DOMAIN f = 1 .. N
  BY <1>1, <1>4, TrueList
<1>6. AllocatedBody(f)
  BY <1>3, <1>5 DEF AllocatedBody, InBody
<1> QED BY <1>6 DEF f

LEMMA AllocatedAreAssignments ==
  ASSUME NEW list, AllocatedBody(list)
  PROVE  AreAssignments(list)
BY DEF AllocatedBody, AllocatedAssignment, AreAssignments

\* A statement whose assignments have their temporaries.
AllocatedOne(s) ==
  /\ IsStatement(s)
  /\ s.s = "assign" => AllocatedAssignment(s)
  /\ \A list \in Bodies(s) : AllocatedBody(list)

LEMMA IfAllocated ==
  ASSUME NEW s, IsStatement(s), s.s = "if", NEW v, AreVariables(v), AllocateIf(s, v).r = "ok"
  PROVE  AllocatedOne(AllocateIf(s, v).s)
<1> DEFINE condition == Allocate(s.condition, v)
           true == AllocateBody(s.true, v)
           else == AllocateBody(s.else, v)
           t == If(condition.e, true.s, else.s)
<1>1. AreAssignments(s.true) /\ AreAssignments(s.else)
  BY DEF IsStatement, IsAssignment
<1>2. true.r = "ok" /\ else.r = "ok" /\ AllocateIf(s, v) = Answered("ok", t)
  BY DEF AllocateIf, Chain
<1>3. AllocatedBody(true.s) /\ AllocatedBody(else.s)
  BY <1>1, <1>2, BodyAllocated
<1> HIDE DEF condition, true, else
<1>4. t.s = "if" /\ t.condition = condition.e /\ t.true = true.s /\ t.else = else.s
  BY DEF If
<1>5. IsStatement(t)
  BY <1>3, <1>4, AllocatedAreAssignments DEF IsStatement
<1>6. Bodies(t) = {t.true, t.else}
  BY <1>4 DEF Bodies
<1>7. AllocatedOne(t)
  BY <1>3, <1>4, <1>5, <1>6 DEF AllocatedOne
<1> QED BY <1>2, <1>7 DEF Answered

LEMMA WhileAllocated ==
  ASSUME NEW s, IsStatement(s), s.s \in {"while", "repeat"}, NEW v, AreVariables(v), AllocateWhile(s, v).r = "ok"
  PROVE  AllocatedOne(AllocateWhile(s, v).s)
<1> DEFINE condition == Allocate(s.condition, v)
           statements == AllocateBody(s.statements, v)
           t == Loop(s.s, condition.e, statements.s)
<1>1. AreAssignments(s.statements)
  BY DEF IsStatement, IsAssignment
<1>2. statements.r = "ok" /\ AllocateWhile(s, v) = Answered("ok", t)
  BY DEF AllocateWhile, Chain
<1>3. AllocatedBody(statements.s)
  BY <1>1, <1>2, BodyAllocated
<1> HIDE DEF condition, statements
<1>4. t.s = s.s /\ t.condition = condition.e /\ t.statements = statements.s
  BY DEF Loop
<1>5. IsStatement(t)
  BY <1>3, <1>4, AllocatedAreAssignments DEF IsStatement
<1>6. Bodies(t) = {t.statements}
  BY <1>4 DEF Bodies
<1>7. AllocatedOne(t)
  BY <1>3, <1>4, <1>5, <1>6 DEF AllocatedOne
<1> QED BY <1>2, <1>7 DEF Answered

LEMMA ForAllocated ==
  ASSUME NEW s, IsStatement(s), s.s = "for", NEW v, AreVariables(v), AllocateFor(s, v).r = "ok"
  PROVE  AllocatedOne(AllocateFor(s, v).s)
<1> DEFINE from == Allocate(s.from, v)
           to == Allocate(s.to, v)
           increment == Allocate(s.increment, v)
           statements == AllocateBody(s.statements, v)
           t == For(s.variable, from.e, to.e, increment.e, statements.s)
<1>1. AreAssignments(s.statements)
  BY DEF IsStatement, IsAssignment
<1>2. statements.r = "ok" /\ AllocateFor(s, v) = Answered("ok", t)
  BY DEF AllocateFor, Chain
<1>3. AllocatedBody(statements.s)
  BY <1>1, <1>2, BodyAllocated
<1> HIDE DEF from, to, increment, statements
<1>4. t.s = "for" /\ t.variable = s.variable /\ t.from = from.e /\ t.to = to.e /\ t.increment = increment.e
      /\ t.statements = statements.s
  BY DEF For
<1>5. IsStatement(t)
  BY <1>3, <1>4, AllocatedAreAssignments DEF IsStatement
<1>6. Bodies(t) = {t.statements}
  BY <1>4 DEF Bodies
<1>7. AllocatedOne(t)
  BY <1>3, <1>4, <1>5, <1>6 DEF AllocatedOne
<1> QED BY <1>2, <1>7 DEF Answered

LEMMA OfCaseAllocated ==
  ASSUME NEW c, AreAssignments(c.statements), NEW v, AreVariables(v), AllocateOfCase(c, v).r = "ok"
  PROVE  LET d == AllocateOfCase(c, v).s IN AllocatedBody(d.statements) /\ d = OfCase(d.list, d.statements)
<1> DEFINE statements == AllocateBody(c.statements, v)
           d == OfCase(c.list, statements.s)
<1>1. statements.r = "ok" /\ AllocateOfCase(c, v) = Answered("ok", d)
  BY DEF AllocateOfCase, Chain
<1>2. AllocatedBody(statements.s)
  BY <1>1, BodyAllocated
<1> HIDE DEF statements
<1>3. d.list = c.list /\ d.statements = statements.s
  BY DEF OfCase
<1>4. AllocateOfCase(c, v).s = d
  BY <1>1 DEF Answered
<1> HIDE DEF d
<1> QED BY <1>2, <1>3, <1>4 DEF d

LEMMA CaseAllocated ==
  ASSUME NEW s, IsStatement(s), s.s = "case", NEW v, AreVariables(v), AllocateCase(s, v).r = "ok"
  PROVE  AllocatedOne(AllocateCase(s, v).s)
<1> DEFINE selector == Allocate(s.selector, v)
           answers == [c \in DOMAIN s.cases |-> AllocateOfCase(s.cases[c], v)]
           cases == Through(answers)
           else == AllocateBody(s.else, v)
           t == Case(selector.e, cases.s, else.s)
           N == Len(s.cases)
           f == cases.s
<1>1. /\ AreAssignments(s.else) /\ IsList(s.cases)
      /\ \A c \in InBody(s.cases) : AreAssignments(c.statements)
  BY DEF IsStatement, IsAssignment
<1>2. cases.r = "ok" /\ else.r = "ok" /\ AllocateCase(s, v) = Answered("ok", t)
  BY DEF AllocateCase, Chain
<1>3. AllocatedBody(else.s)
  BY <1>1, <1>2, BodyAllocated
<1>4. N \in Nat /\ DOMAIN s.cases = 1 .. N /\ \A i \in 1 .. N : s.cases[i] \in InBody(s.cases)
  BY <1>1, ListMembers
<1>5. (\A i \in 1 .. N : answers[i].r = "ok") /\ f = [i \in 1 .. N |-> answers[i].s]
  <2>1. DOMAIN answers = 1 .. N
    BY <1>4
  <2> HIDE DEF answers
  <2> QED BY <1>2, <1>4, <2>1, ThroughOk
<1>6. ASSUME NEW i \in 1 .. N
      PROVE  AllocatedBody(f[i].statements) /\ f[i] = OfCase(f[i].list, f[i].statements)
  <2> DEFINE c == s.cases[i]
  <2>1. answers[i] = AllocateOfCase(c, v) /\ f[i] = answers[i].s /\ answers[i].r = "ok"
    BY <1>4, <1>5
  <2>2. AreAssignments(c.statements)
    BY <1>1, <1>4
  <2> HIDE DEF answers, f, c
  <2> QED BY <2>1, <2>2, OfCaseAllocated
<1>7. f = [i \in 1 .. N |-> f[i]]
  BY <1>5
<1> HIDE DEF f, cases, else, selector
<1>8. IsList(f) /\ DOMAIN f = 1 .. N
  BY <1>4, <1>7, TrueList
<1>9. t.s = "case" /\ t.selector = selector.e /\ t.cases = f /\ t.else = else.s
  BY DEF Case, f
<1>10. \A c \in InBody(f) : AllocatedBody(c.statements) /\ c = OfCase(c.list, c.statements)
  BY <1>6, <1>8 DEF InBody
<1>11. t = Case(t.selector, t.cases, t.else)
  BY <1>9 DEF f
<1> HIDE DEF t
<1>12. IsStatement(t)
  <2>1. AreAssignments(t.else) /\ IsList(t.cases)
    BY <1>3, <1>8, <1>9, AllocatedAreAssignments
  <2>2. \A c \in InBody(t.cases) : AreAssignments(c.statements) /\ c = OfCase(c.list, c.statements)
    BY <1>9, <1>10, AllocatedAreAssignments
  <2> QED BY <1>9, <1>11, <2>1, <2>2 DEF IsStatement
<1>13. Bodies(t) = {t.else} \union {t.cases[c].statements : c \in DOMAIN t.cases}
  BY <1>9 DEF Bodies
<1>14. \A list \in Bodies(t) : AllocatedBody(list)
  BY <1>3, <1>6, <1>8, <1>9, <1>13
<1>15. AllocatedOne(t)
  BY <1>9, <1>12, <1>14 DEF AllocatedOne
<1> QED BY <1>2, <1>15 DEF Answered

AreParameters(parameters) ==
  /\ IsList(parameters)
  /\ \A p \in InBody(parameters) : p = Named(p.name, p.expression) /\ IsExpression(p.expression, Names)

\* The same parameters, but for the temporaries.
SameParameters(old, new) ==
  /\ Len(new) = Len(old)
  /\ \A i \in 1 .. Len(old) : new[i].name = old[i].name /\ SameNodes(old[i].expression, new[i].expression)

LEMMA ParametersKept ==
  ASSUME NEW task \in Tasks, NEW parameters, AreParameters(parameters), NEW v, AreVariables(v),
         NEW result, result = Through([i \in DOMAIN parameters |->
                                        WithExpression(parameters[i], Visit(task, parameters[i].expression, v))]),
         result.r = "ok"
  PROVE  AreParameters(result.s) /\ SameParameters(parameters, result.s)
<1> DEFINE N == Len(parameters)
           answers == [i \in DOMAIN parameters |-> WithExpression(parameters[i], Visit(task, parameters[i].expression, v))]
           f == result.s
<1>1. /\ N \in Nat /\ DOMAIN parameters = 1 .. N
      /\ \A i \in 1 .. N : IsExpression(parameters[i].expression, Names)
  BY ListMembers DEF AreParameters
<1>2. /\ \A i \in 1 .. N : answers[i].r = "ok"
      /\ f = [i \in 1 .. N |-> answers[i].s]
  <2>1. DOMAIN answers = 1 .. N /\ result = Through(answers)
    BY <1>1
  <2> HIDE DEF answers
  <2> QED BY <1>1, <2>1, ThroughOk
<1>3. ASSUME NEW i \in 1 .. N
      PROVE  /\ f[i].name = parameters[i].name /\ SameNodes(parameters[i].expression, f[i].expression)
             /\ f[i] = Named(f[i].name, f[i].expression) /\ IsExpression(f[i].expression, Names)
  <2> DEFINE p == parameters[i]
             one == Visit(task, p.expression, v)
             q == Named(p.name, one.e)
  <2>1. answers[i] = WithExpression(p, one) /\ f[i] = answers[i].s /\ answers[i].r = "ok"
    BY <1>1, <1>2
  <2>2. one.r = "ok" /\ f[i] = q
    <3> HIDE DEF one, answers, f
    <3> QED BY <2>1 DEF WithExpression, Chain, Answered
  <2>3. IsExpression(one.e, Names) /\ SameNodes(p.expression, one.e)
    BY <1>1, <2>2, VisitKeeps
  <2> HIDE DEF one
  <2>4. q.name = p.name /\ q.expression = one.e
    BY DEF Named
  <2> HIDE DEF f
  <2> QED BY <2>2, <2>3, <2>4
<1>4. f = [i \in 1 .. N |-> f[i]]
  BY <1>2
<1> HIDE DEF f
<1>5. IsList(f) /\ DOMAIN f = 1 .. N /\ Len(f) = N
  BY <1>1, <1>4, TrueList
<1>6. AreParameters(f) /\ SameParameters(parameters, f)
  BY <1>3, <1>5 DEF AreParameters, SameParameters, InBody
<1> QED BY <1>6 DEF f

LEMMA CallAllocated ==
  ASSUME NEW s, IsStatement(s), s.s = "call", NEW v, AreVariables(v), AllocateCall(s, v).r = "ok"
  PROVE  AllocatedOne(AllocateCall(s, v).s)
<1> DEFINE statements == AllocateBody(s.statements, v)
           parameters == AllocateParameters(s.parameters, v)
           t == Call(s.header, statements.s, parameters.s)
<1>1. /\ AreAssignments(s.statements) /\ IsList(s.header) /\ AreParameters(s.parameters)
      /\ \A h \in InBody(s.header) : h.name \in Names
  BY DEF IsStatement, IsAssignment, AreParameters
<1>2. statements.r = "ok" /\ parameters.r = "ok" /\ AllocateCall(s, v) = Answered("ok", t)
  BY DEF AllocateCall, Chain
<1>3. AllocatedBody(statements.s)
  BY <1>1, <1>2, BodyAllocated
<1>4. AreParameters(parameters.s)
  <2>1. parameters = Through([i \in DOMAIN s.parameters |->
                                WithExpression(s.parameters[i], Visit("allocate", s.parameters[i].expression, v))])
    BY DEF AllocateParameters, Visit
  <2> HIDE DEF parameters
  <2> QED BY <1>1, <1>2, <2>1, ParametersKept DEF Tasks
<1> HIDE DEF statements, parameters
<1>5. t.s = "call" /\ t.header = s.header /\ t.statements = statements.s /\ t.parameters = parameters.s
  BY DEF Call
<1>6. IsStatement(t)
  BY <1>1, <1>3, <1>4, <1>5, AllocatedAreAssignments DEF IsStatement, AreParameters
<1>7. Bodies(t) = {t.statements}
  BY <1>5 DEF Bodies
<1>8. AllocatedOne(t)
  BY <1>3, <1>5, <1>6, <1>7 DEF AllocatedOne
<1> QED BY <1>2, <1>8 DEF Answered

LEMMA StatementAllocated ==
  ASSUME NEW s, IsStatement(s), NEW v, AreVariables(v), AllocateStatement(s, v).r = "ok"
  PROVE  AllocatedOne(AllocateStatement(s, v).s)
<1>1. CASE s.s = "assign"
  <2> DEFINE t == AllocateAssignment(s, v).s
  <2>1. AllocateStatement(s, v) = AllocateAssignment(s, v) /\ IsAssignment(s)
    BY <1>1 DEF AllocateStatement, IsStatement
  <2>2. AllocatedAssignment(t)
    BY <2>1, AssignmentAllocated
  <2> HIDE DEF t
  <2>3. t.s = "assign" /\ IsStatement(t) /\ Bodies(t) = {}
    BY <2>2 DEF AllocatedAssignment, IsAssignment, IsStatement, Bodies
  <2> QED BY <2>1, <2>2, <2>3 DEF AllocatedOne, t
<1>2. CASE s.s = "if"
  BY <1>2, IfAllocated DEF AllocateStatement
<1>3. CASE s.s \in {"while", "repeat"}
  <2>1. AllocateStatement(s, v) = AllocateWhile(s, v)
    BY <1>3 DEF AllocateStatement
  <2> QED BY <1>3, <2>1, WhileAllocated
<1>4. CASE s.s = "case"
  BY <1>4, CaseAllocated DEF AllocateStatement
<1>5. CASE s.s = "for"
  BY <1>5, ForAllocated DEF AllocateStatement
<1>6. CASE s.s = "call"
  BY <1>6, CallAllocated DEF AllocateStatement
<1>7. s.s \in {"assign", "if", "while", "repeat", "case", "for", "call"}
  BY DEF IsStatement, IsAssignment
<1> QED BY <1>1, <1>2, <1>3, <1>4, <1>5, <1>6, <1>7

AllocatedAll(list) == IsList(list) /\ \A s \in InBody(list) : AllocatedOne(s)

LEMMA ProgramAllocated ==
  ASSUME NEW list, IsProgram(list), NEW v, AreVariables(v),
         NEW result, result = Through([i \in DOMAIN list |-> AllocateStatement(list[i], v)]), result.r = "ok"
  PROVE  AllocatedAll(result.s)
<1> DEFINE N == Len(list)
           answers == [i \in DOMAIN list |-> AllocateStatement(list[i], v)]
           f == result.s
<1>1. N \in Nat /\ DOMAIN list = 1 .. N /\ \A i \in 1 .. N : IsStatement(list[i])
  BY ListMembers DEF IsProgram
<1>2. /\ \A i \in 1 .. N : answers[i].r = "ok"
      /\ f = [i \in 1 .. N |-> answers[i].s]
  <2>1. DOMAIN answers = 1 .. N /\ result = Through(answers)
    BY <1>1
  <2> HIDE DEF answers
  <2> QED BY <1>1, <2>1, ThroughOk
<1>3. ASSUME NEW i \in 1 .. N PROVE AllocatedOne(f[i])
  <2>1. answers[i] = AllocateStatement(list[i], v) /\ f[i] = answers[i].s /\ answers[i].r = "ok"
    BY <1>1, <1>2
  <2> HIDE DEF answers, f
  <2> QED BY <1>1, <2>1, StatementAllocated
<1>4. f = [i \in 1 .. N |-> f[i]]
  BY <1>2
<1> HIDE DEF f
<1>5. IsList(f) /\ DOMAIN f = 1 .. N
  BY <1>1, <1>4, TrueList
<1>6. AllocatedAll(f)
  BY <1>3, <1>5 DEF AllocatedAll, InBody
<1> QED BY <1>6 DEF f

-----------------------------------------------------------------------------
(* The link: verify *)

VerifiedAssignment(s) == AllocatedAssignment(s) /\ (Enumerated(s.to) => Asked(s.to, s.from))
VerifiedBody(list) == IsList(list) /\ \A s \in InBody(list) : VerifiedAssignment(s)

LEMMA ExpressionVerified ==
  ASSUME NEW e, IsExpression(e, Names), Allocated(e, Len(e)), NEW v, AreVariables(v), Verify(e, v).r = "ok"
  PROVE  IsExpression(Verify(e, v).e, Names) /\ Allocated(Verify(e, v).e, Len(Verify(e, v).e))
         /\ SameNodes(e, Verify(e, v).e)
BY VisitKeeps DEF Visit, Tasks

LEMMA RootIsThere ==
  ASSUME NEW e, IsExpression(e, Names)
  PROVE  Len(e) \in 1 .. Len(e)
BY LenProperties, EmptySeq DEF IsExpression

LEMMA AssignmentVerified ==
  ASSUME NEW s, AllocatedAssignment(s), NEW v, AreVariables(v), VerifyAssignment(s, v).r = "ok"
  PROVE  VerifiedAssignment(VerifyAssignment(s, v).s)
<1> DEFINE from == Verify(s.from, v)
           t == Assignment(s.to, from.e)
           accepted == VariableAssignable(s.to, ResultOf(from.e, v), v)
<1>1. from.r = "ok" /\ accepted = "ok" /\ VerifyAssignment(s, v) = Answered(accepted, t)
  <2>1. VerifyAssignment(s, v) = IF from.r = "ok" THEN Answered(accepted, t) ELSE from
    BY DEF VerifyAssignment, Chain
  <2> HIDE DEF from, accepted, t
  <2> QED BY <2>1 DEF Answered
<1>2. IsExpression(s.from, Names) /\ s.to \in Names
  BY DEF AllocatedAssignment, IsAssignment
<1>3. IsExpression(from.e, Names) /\ Allocated(from.e, Len(from.e))
  BY <1>1, <1>2, ExpressionVerified DEF AllocatedAssignment
<1>4. IsOperator(Root(from.e)) => IsTemporary(Root(from.e).temporary)
  BY <1>3, RootIsThere DEF Allocated, Root
<1>5. Enumerated(s.to) => Asked(s.to, from.e)
  BY <1>1, <1>2, <1>3, <1>4, AskedWhenVerified
<1> HIDE DEF from, accepted
<1>6. t.s = "assign" /\ t.to = s.to /\ t.from = from.e
  BY DEF Assignment
<1>7. VerifiedAssignment(t)
  BY <1>2, <1>3, <1>5, <1>6 DEF VerifiedAssignment, AllocatedAssignment, IsAssignment
<1> QED BY <1>1, <1>7 DEF Answered

\* The body of a statement, and that of a function.
LEMMA BodyVerified ==
  ASSUME NEW list, AllocatedBody(list), NEW v, AreVariables(v), NEW result,
         \/ result = VerifyBody(list, v)
         \/ result = ThroughAll([i \in DOMAIN list |-> VerifyAssignment(list[i], v)]),
         result.r = "ok"
  PROVE  VerifiedBody(result.s)
<1> DEFINE N == Len(list)
           answers == [i \in DOMAIN list |-> VerifyAssignment(list[i], v)]
           f == result.s
<1>1. N \in Nat /\ DOMAIN list = 1 .. N /\ \A i \in 1 .. N : AllocatedAssignment(list[i])
  BY ListMembers DEF AllocatedBody
<1>2. /\ \A i \in 1 .. N : answers[i].r = "ok"
      /\ f = [i \in 1 .. N |-> answers[i].s]
  <2>1. DOMAIN answers = 1 .. N /\ result \in {Through(answers), ThroughAll(answers)}
    BY <1>1 DEF VerifyBody
  <2> HIDE DEF answers
  <2> QED BY <1>1, <2>1, ThroughOk, ThroughAllOk
<1>3. ASSUME NEW i \in 1 .. N PROVE VerifiedAssignment(f[i])
  <2>1. answers[i] = VerifyAssignment(list[i], v) /\ f[i] = answers[i].s /\ answers[i].r = "ok"
    BY <1>1, <1>2
  <2> HIDE DEF answers, f
  <2> QED BY <1>1, <2>1, AssignmentVerified
<1>4. f = [i \in 1 .. N |-> f[i]]
  BY <1>2
<1> HIDE DEF f
<1>5. IsList(f) /\ DOMAIN f = 1 .. N
  BY <1>1, <1>4, TrueList
<1>6. VerifiedBody(f)
  BY <1>3, <1>5 DEF VerifiedBody, InBody
<1> QED BY <1>6 DEF f

LEMMA VerifiedAreAllocated ==
  ASSUME NEW list, VerifiedBody(list)
  PROVE  AllocatedBody(list) /\ AreAssignments(list)
BY AllocatedAreAssignments DEF VerifiedBody, VerifiedAssignment, AllocatedBody

\* The variables of a call that is plain have been asked.
AskedCall(s) == \E v : AreVariables(v) /\ VerifyEach(s.parameters, s.header, v).r = "ok"

VerifiedOne(s) ==
  /\ AllocatedOne(s)
  /\ s.s = "assign" => VerifiedAssignment(s)
  /\ \A list \in Bodies(s) : VerifiedBody(list) \/ (s.s = "case" /\ list = s.else)
  /\ s.s = "for" /\ s.variable \in Names => ~Enumerated(s.variable)
  /\ PlainCall(s) => AskedCall(s)

LEMMA IfVerified ==
  ASSUME NEW s, AllocatedOne(s), s.s = "if", NEW v, AreVariables(v), VerifyIf(s, v).r = "ok"
  PROVE  VerifiedOne(VerifyIf(s, v).s)
<1> DEFINE condition == VerifyCondition(s.condition, v)
           true == VerifyBody(s.true, v)
           else == VerifyBody(s.else, v)
           t == If(condition.e, true.s, else.s)
<1>1. AllocatedBody(s.true) /\ AllocatedBody(s.else)
  BY DEF AllocatedOne, Bodies
<1>2. true.r = "ok" /\ else.r = "ok" /\ VerifyIf(s, v) = Answered("ok", t)
  BY DEF VerifyIf, Chain
<1>3. VerifiedBody(true.s) /\ VerifiedBody(else.s)
  BY <1>1, <1>2, BodyVerified
<1> HIDE DEF condition, true, else
<1>4. t.s = "if" /\ t.condition = condition.e /\ t.true = true.s /\ t.else = else.s
  BY DEF If
<1>5. IsStatement(t)
  BY <1>3, <1>4, VerifiedAreAllocated DEF IsStatement
<1>6. Bodies(t) = {t.true, t.else}
  BY <1>4 DEF Bodies
<1>7. VerifiedOne(t)
  BY <1>3, <1>4, <1>5, <1>6, VerifiedAreAllocated DEF VerifiedOne, AllocatedOne, PlainCall
<1> QED BY <1>2, <1>7 DEF Answered

LEMMA WhileVerified ==
  ASSUME NEW s, AllocatedOne(s), s.s \in {"while", "repeat"}, NEW v, AreVariables(v), VerifyWhile(s, v).r = "ok"
  PROVE  VerifiedOne(VerifyWhile(s, v).s)
<1> DEFINE condition == VerifyCondition(s.condition, v)
           statements == VerifyBody(s.statements, v)
           t == Loop(s.s, condition.e, statements.s)
<1>1. AllocatedBody(s.statements)
  BY DEF AllocatedOne, Bodies
<1>2. statements.r = "ok" /\ VerifyWhile(s, v) = Answered("ok", t)
  BY DEF VerifyWhile, Chain
<1>3. VerifiedBody(statements.s)
  BY <1>1, <1>2, BodyVerified
<1> HIDE DEF condition, statements
<1>4. t.s = s.s /\ t.condition = condition.e /\ t.statements = statements.s
  BY DEF Loop
<1>5. IsStatement(t)
  BY <1>3, <1>4, VerifiedAreAllocated DEF IsStatement
<1>6. Bodies(t) = {t.statements}
  BY <1>4 DEF Bodies
<1>7. VerifiedOne(t)
  BY <1>3, <1>4, <1>5, <1>6, VerifiedAreAllocated DEF VerifiedOne, AllocatedOne, PlainCall
<1> QED BY <1>2, <1>7 DEF Answered

LEMMA OfCaseVerified ==
  ASSUME NEW c, AllocatedBody(c.statements), NEW selector, NEW v, AreVariables(v),
         VerifyOfCase(c, selector, v).r = "ok"
  PROVE  LET d == VerifyOfCase(c, selector, v).s
         IN VerifiedBody(d.statements) /\ d = OfCase(d.list, d.statements)
<1> DEFINE statements == VerifyBody(c.statements, v)
           d == OfCase(c.list, statements.s)
<1>1. statements.r = "ok" /\ VerifyOfCase(c, selector, v) = Answered("ok", d)
  BY DEF VerifyOfCase, Chain
<1>2. VerifiedBody(statements.s)
  BY <1>1, BodyVerified
<1> HIDE DEF statements
<1>3. d.list = c.list /\ d.statements = statements.s
  BY DEF OfCase
<1>4. VerifyOfCase(c, selector, v).s = d
  BY <1>1 DEF Answered
<1> HIDE DEF d
<1> QED BY <1>2, <1>3, <1>4 DEF d

LEMMA CaseVerified ==
  ASSUME NEW s, AllocatedOne(s), s.s = "case", NEW v, AreVariables(v), VerifyCase(s, v).r = "ok"
  PROVE  VerifiedOne(VerifyCase(s, v).s)
<1> DEFINE selector == Verify(s.selector, v)
           answers == [c \in DOMAIN s.cases |-> VerifyOfCase(s.cases[c], ResultOf(selector.e, v), v)]
           cases == Through(answers)
           t == Case(selector.e, cases.s, s.else)
           N == Len(s.cases)
           f == cases.s
<1>1. IsList(s.cases) /\ AllocatedBody(s.else) /\ \A i \in DOMAIN s.cases : AllocatedBody(s.cases[i].statements)
  <2>1. Bodies(s) = {s.else} \union {s.cases[c].statements : c \in DOMAIN s.cases}
    BY DEF Bodies
  <2>2. IsList(s.cases)
    BY DEF AllocatedOne, IsStatement, IsAssignment
  <2> QED BY <2>1, <2>2 DEF AllocatedOne
<1>2. cases.r = "ok" /\ VerifyCase(s, v) = Answered("ok", t)
  BY DEF VerifyCase, Chain
<1>3. N \in Nat /\ DOMAIN s.cases = 1 .. N
  BY <1>1, ListMembers
<1>4. (\A i \in 1 .. N : answers[i].r = "ok") /\ f = [i \in 1 .. N |-> answers[i].s]
  <2>1. DOMAIN answers = 1 .. N
    BY <1>3
  <2> HIDE DEF answers
  <2> QED BY <1>2, <1>3, <2>1, ThroughOk
<1>5. ASSUME NEW i \in 1 .. N
      PROVE  VerifiedBody(f[i].statements) /\ f[i] = OfCase(f[i].list, f[i].statements)
  <2> DEFINE c == s.cases[i]
             value == ResultOf(selector.e, v)
  <2>1. answers[i] = VerifyOfCase(c, value, v) /\ f[i] = answers[i].s /\ answers[i].r = "ok"
    BY <1>3, <1>4
  <2>2. AllocatedBody(c.statements)
    BY <1>1, <1>3
  <2> HIDE DEF answers, f, c, value
  <2> QED BY <2>1, <2>2, OfCaseVerified
<1>6. f = [i \in 1 .. N |-> f[i]]
  BY <1>4
<1> HIDE DEF f, cases, selector
<1>7. IsList(f) /\ DOMAIN f = 1 .. N
  BY <1>3, <1>6, TrueList
<1>8. t.s = "case" /\ t.selector = selector.e /\ t.cases = f /\ t.else = s.else
  BY DEF Case, f
<1>9. \A c \in InBody(f) : VerifiedBody(c.statements) /\ c = OfCase(c.list, c.statements)
  BY <1>5, <1>7 DEF InBody
<1>10. t = Case(t.selector, t.cases, t.else)
  BY <1>8 DEF f
<1> HIDE DEF t
<1>11. IsStatement(t)
  <2>1. AreAssignments(t.else) /\ IsList(t.cases)
    BY <1>1, <1>7, <1>8, AllocatedAreAssignments
  <2>2. \A c \in InBody(t.cases) : AreAssignments(c.statements) /\ c = OfCase(c.list, c.statements)
    BY <1>8, <1>9, VerifiedAreAllocated
  <2> QED BY <1>8, <1>10, <2>1, <2>2 DEF IsStatement
<1>12. Bodies(t) = {t.else} \union {t.cases[c].statements : c \in DOMAIN t.cases}
  BY <1>8 DEF Bodies
<1>13. \A list \in Bodies(t) : VerifiedBody(list) \/ list = t.else
  BY <1>5, <1>7, <1>8, <1>12
<1>14. \A list \in Bodies(t) : AllocatedBody(list)
  BY <1>1, <1>8, <1>13, VerifiedAreAllocated
<1>15. VerifiedOne(t)
  BY <1>8, <1>11, <1>13, <1>14 DEF VerifiedOne, AllocatedOne, PlainCall
<1> QED BY <1>2, <1>15 DEF Answered

\* No enumerated variable counts.
LEMMA NoCount ==
  ASSUME NEW n \in Names, Enumerated(n), NEW v, AreVariables(v), NEW from, NEW to, NEW increment
  PROVE  ForChecks(v[n], n, from, to, increment, v).r # "ok"
<1>1. v[n].k = "enum"
  BY DEF AreVariables, IsVariable, Enumerated
<1>2. OperatesWith(v[n], increment) = "crash"
  BY <1>1 DEF OperatesWith, Has, Methods, EnumMethods, Common
<1>3. Accepts(OperatesWith(v[n], increment)) = "crash"
  BY <1>2 DEF Accepts
<1> QED BY <1>3 DEF ForChecks, Chain, Answered

LEMMA ForVerified ==
  ASSUME NEW s, AllocatedOne(s), s.s = "for", NEW v, AreVariables(v), VerifyFor(s, v).r = "ok"
  PROVE  VerifiedOne(VerifyFor(s, v).s)
<1> DEFINE from == Verify(s.from, v)
           to == Verify(s.to, v)
           increment == Verify(s.increment, v)
           checks == ForChecks(v[s.variable], s.variable, ResultOf(from.e, v), ResultOf(to.e, v),
                               ResultOf(increment.e, v), v)
           statements == VerifyBody(s.statements, v)
           t == For(s.variable, from.e, to.e, increment.e, statements.s)
<1>1. AllocatedBody(s.statements)
  BY DEF AllocatedOne, Bodies
<1>2. checks.r = "ok" /\ statements.r = "ok" /\ VerifyFor(s, v) = Answered("ok", t)
  <2>1. VerifyFor(s, v) = IF from.r # "ok" THEN from ELSE IF to.r # "ok" THEN to
                          ELSE IF increment.r # "ok" THEN increment ELSE IF checks.r # "ok" THEN checks
                          ELSE IF statements.r # "ok" THEN statements ELSE Answered("ok", t)
    BY DEF VerifyFor, Chain
  <2> HIDE DEF from, to, increment, checks, statements, t
  <2> QED BY <2>1
<1>3. VerifiedBody(statements.s)
  BY <1>1, <1>2, BodyVerified
<1>4. s.variable \in Names => ~Enumerated(s.variable)
  BY <1>2, NoCount
<1> HIDE DEF from, to, increment, statements
<1>5. t.s = "for" /\ t.variable = s.variable /\ t.from = from.e /\ t.to = to.e /\ t.increment = increment.e
      /\ t.statements = statements.s
  BY DEF For
<1>6. IsStatement(t)
  BY <1>3, <1>5, VerifiedAreAllocated DEF IsStatement
<1>7. Bodies(t) = {t.statements}
  BY <1>5 DEF Bodies
<1>8. VerifiedOne(t)
  BY <1>3, <1>4, <1>5, <1>6, <1>7, VerifiedAreAllocated DEF VerifiedOne, AllocatedOne, PlainCall
<1> QED BY <1>2, <1>8 DEF Answered

\* The parameters of a call, verified one by one.
VerifiedAfter(parameters, header, v, n, h) ==
  IF n = 0 THEN [r |-> "ok", last |-> 0, over |-> FALSE]
  ELSE VerifyParameter(h[n - 1], parameters[n], header, v)
VerifiesEach(parameters, header, v, N, h) ==
  h = [n \in 0 .. N |-> VerifiedAfter(parameters, header, v, n, h)]

LEMMA VerifiesExist ==
  ASSUME NEW parameters, NEW header, NEW v, NEW N \in Nat
  PROVE  \E h : VerifiesEach(parameters, header, v, N, h)
<1> DEFINE Bad == {m \in Nat : ~ \E h : VerifiesEach(parameters, header, v, m, h)}
<1> SUFFICES ASSUME Bad # {} PROVE FALSE
  OBVIOUS
<1>1. PICK m \in Bad : m \in Nat /\ (m # 0 => m - 1 \in Nat /\ m - 1 \notin Bad)
  <2>1. Bad \subseteq Nat
    OBVIOUS
  <2> HIDE DEF Bad
  <2> QED BY <2>1, LeastNumber
<1>2. m # 0
  <2> DEFINE h == [n \in 0 .. 0 |-> [r |-> "ok", last |-> 0, over |-> FALSE]]
  <2>1. \A n \in 0 .. 0 : VerifiedAfter(parameters, header, v, n, h) = [r |-> "ok", last |-> 0, over |-> FALSE]
    BY DEF VerifiedAfter
  <2>2. VerifiesEach(parameters, header, v, 0, h)
    BY <2>1 DEF VerifiesEach
  <2> QED BY <2>2
<1>3. PICK h : VerifiesEach(parameters, header, v, m - 1, h)
  BY <1>1, <1>2
<1> DEFINE g == [n \in 0 .. m |-> IF n = m THEN VerifiedAfter(parameters, header, v, m, h) ELSE h[n]]
<1>4. ASSUME NEW n \in 0 .. m PROVE g[n] = VerifiedAfter(parameters, header, v, n, g)
  <2>1. n = 0 \/ (n - 1 \in 0 .. m /\ n - 1 # m)
    BY <1>1
  <2>2. n # 0 => g[n - 1] = h[n - 1]
    BY <2>1
  <2>3. VerifiedAfter(parameters, header, v, n, g) = VerifiedAfter(parameters, header, v, n, h)
    BY <2>2 DEF VerifiedAfter
  <2>4. CASE n = m
    BY <2>3, <2>4
  <2>5. CASE n # m
    <3>1. n \in 0 .. (m - 1)
      BY <1>1, <2>5
    <3>2. h[n] = VerifiedAfter(parameters, header, v, n, h)
      BY <1>3, <3>1 DEF VerifiesEach
    <3> QED BY <2>3, <2>5, <3>2
  <2> QED BY <2>4, <2>5
<1>5. VerifiesEach(parameters, header, v, m, g)
  BY <1>4 DEF VerifiesEach
<1> QED BY <1>1, <1>5

LEMMA VerifyEachIsTraced ==
  ASSUME NEW parameters, Len(parameters) \in Nat, NEW header, NEW v
  PROVE  \E h : /\ VerifiesEach(parameters, header, v, Len(parameters), h)
                /\ VerifyEach(parameters, header, v) = h[Len(parameters)]
<1> DEFINE P(h) == h = [n \in 0 .. Len(parameters) |->
                          IF n = 0 THEN [r |-> "ok", last |-> 0, over |-> FALSE]
                          ELSE VerifyParameter(h[n - 1], parameters[n], header, v)]
           H == CHOOSE h : P(h)
<1>1. \A h : P(h) <=> VerifiesEach(parameters, header, v, Len(parameters), h)
  BY DEF VerifiesEach, VerifiedAfter
<1>2. VerifyEach(parameters, header, v) = H[Len(parameters)]
  BY DEF VerifyEach
<1> HIDE DEF P
<1>3. \E h : P(h)
  BY <1>1, VerifiesExist
<1>4. P(H)
  BY <1>3, Zenon
<1> HIDE DEF H
<1> QED BY <1>1, <1>2, <1>4

\* One parameter: what it says of an error is remembered.
LEMMA ParameterVerified ==
  ASSUME NEW done, done.over => done.r # "ok", NEW p, NEW header, NEW v,
         NEW next, next = VerifyParameter(done, p, header, v),
         NEW at, at = Matched(p, header, done.last)
  PROVE  /\ next.over => next.r # "ok"
         /\ next.r = "ok" =>
              /\ done.r = "ok" /\ at # 0
              /\ HasVerify(p) => Verify(p.expression, v).r = "ok" /\ next.last = done.last
              /\ ~HasVerify(p) => /\ next.last = at
                                  /\ VariableAssignable(header[at].name, ResultOf(p.expression, v), v) = "ok"
<1> DEFINE verified == Verify(p.expression, v)
           assignable == VariableAssignable(header[at].name, ResultOf(p.expression, v), v)
           wrong == p.name # "" /\ ~header[at].input
           Is(r, last) == next.r = (IF r = "ok" THEN done.r ELSE r) /\ next.last = last
                         /\ (r # "crash" => next.over = FALSE)
<1>1. \/ done.over /\ next = done
      \/ ~done.over /\ at = 0 /\ next = [r |-> "error", last |-> 0, over |-> TRUE]
      \/ ~done.over /\ at # 0 /\ wrong /\ next = Seen(done, "error", at)
      \/ ~done.over /\ at # 0 /\ ~wrong /\ HasVerify(p) /\ next = Seen(done, verified.r, done.last)
      \/ ~done.over /\ at # 0 /\ ~wrong /\ ~HasVerify(p) /\ next = Seen(done, assignable, at)
  BY DEF VerifyParameter
<1>2. next = [r |-> "error", last |-> 0, over |-> TRUE] => next.r = "error"
  OBVIOUS
<1>3. ASSUME NEW r, NEW last, next = Seen(done, r, last) PROVE Is(r, last)
  <2>1. next.r = (IF r = "ok" THEN done.r ELSE r) /\ next.last = last
    BY <1>3 DEF Seen
  <2>2. r # "crash" => next.over = FALSE
    <3> DEFINE over == r = "crash"
    <3>1. next = [r |-> IF r = "ok" THEN done.r ELSE r, last |-> last, over |-> over]
      BY <1>3 DEF Seen
    <3>2. r # "crash" => over = FALSE
      OBVIOUS
    <3> HIDE DEF over
    <3> QED BY <3>1, <3>2
  <2> QED BY <2>1, <2>2
<1> HIDE DEF verified, assignable, wrong, Is
<1>4. \/ done.over /\ next = done
      \/ ~done.over /\ at = 0 /\ next.r = "error"
      \/ ~done.over /\ at # 0 /\ wrong /\ Is("error", at)
      \/ ~done.over /\ at # 0 /\ ~wrong /\ HasVerify(p) /\ Is(verified.r, done.last)
      \/ ~done.over /\ at # 0 /\ ~wrong /\ ~HasVerify(p) /\ Is(assignable, at)
  BY <1>1, <1>2, <1>3
<1>5. /\ next.over => next.r # "ok"
      /\ next.r = "ok" =>
           /\ done.r = "ok" /\ at # 0
           /\ HasVerify(p) => verified.r = "ok" /\ next.last = done.last
           /\ ~HasVerify(p) => next.last = at /\ assignable = "ok"
  BY <1>4 DEF Is
<1> QED BY <1>5 DEF verified, assignable

\* The places the verification comes by, last[n] after n parameters.
Places(parameters, header, v, last) ==
  /\ last[0] = 0
  /\ \A n \in 1 .. Len(parameters) :
       LET p == parameters[n]
           at == Matched(p, header, last[n - 1])
       IN /\ at # 0
          /\ HasVerify(p) => Verify(p.expression, v).r = "ok" /\ last[n] = last[n - 1]
          /\ ~HasVerify(p) => /\ last[n] = at
                              /\ VariableAssignable(header[at].name, ResultOf(p.expression, v), v) = "ok"

LEMMA PlacesAreThere ==
  ASSUME NEW parameters, Len(parameters) \in Nat, NEW header, NEW v,
         VerifyEach(parameters, header, v).r = "ok"
  PROVE  \E last : Places(parameters, header, v, last)
<1> DEFINE N == Len(parameters)
<1>1. PICK h : VerifiesEach(parameters, header, v, N, h) /\ VerifyEach(parameters, header, v) = h[N]
  BY VerifyEachIsTraced
<1>2. h[0] = [r |-> "ok", last |-> 0, over |-> FALSE]
  BY <1>1 DEF VerifiesEach, VerifiedAfter
<1>3. ASSUME NEW n \in 1 .. N PROVE h[n] = VerifyParameter(h[n - 1], parameters[n], header, v)
  <2>1. n \in 0 .. N /\ n # 0
    OBVIOUS
  <2>2. h[n] = VerifiedAfter(parameters, header, v, n, h)
    BY <1>1, <2>1 DEF VerifiesEach
  <2> QED BY <2>1, <2>2 DEF VerifiedAfter
<1> DEFINE Sound(n) == h[n].over => h[n].r # "ok"
           Unsound == {n \in 0 .. N : ~Sound(n)}
<1>4. \A n \in 0 .. N : Sound(n)
  <2> SUFFICES ASSUME Unsound # {} PROVE FALSE
    OBVIOUS
  <2>1. PICK m \in Unsound : m \in Nat /\ (m # 0 => m - 1 \in Nat /\ m - 1 \notin Unsound)
    <3>1. Unsound \subseteq Nat
      OBVIOUS
    <3> HIDE DEF Unsound
    <3> QED BY <3>1, LeastNumber
  <2>2. m # 0
    BY <1>2, <2>1
  <2>3. m \in 1 .. N /\ Sound(m - 1)
    BY <2>1, <2>2
  <2>4. Sound(m)
    BY <1>3, <2>3, ParameterVerified
  <2> QED BY <2>1, <2>4
<1> DEFINE Failed1 == {k \in 0 .. N : h[N - k].r # "ok"}
<1>5. \A n \in 0 .. N : h[n].r = "ok"
  <2>1. ASSUME Failed1 # {} PROVE FALSE
    <3>1. PICK k \in Failed1 : k \in Nat /\ (k # 0 => k - 1 \in Nat /\ k - 1 \notin Failed1)
      <4>1. Failed1 \subseteq Nat
        OBVIOUS
      <4> HIDE DEF Failed1
      <4> QED BY <2>1, <4>1, LeastNumber
    <3>2. k # 0
      BY <1>1, <3>1
    <3> DEFINE n == N - k + 1
    <3>3. n \in 1 .. N /\ n - 1 = N - k /\ n = N - (k - 1) /\ k - 1 \in 0 .. N
      BY <3>1, <3>2
    <3>4. h[n].r = "ok"
      BY <3>1, <3>2, <3>3
    <3>5. Sound(n - 1)
      BY <1>4, <3>3
    <3> HIDE DEF n
    <3>6. h[n - 1].r = "ok"
      BY <1>3, <3>3, <3>4, <3>5, ParameterVerified
    <3> QED BY <3>1, <3>3, <3>6
  <2>2. ASSUME NEW n \in 0 .. N PROVE N - n \in 0 .. N /\ N - (N - n) = n
    OBVIOUS
  <2> QED BY <2>1, <2>2
<1> DEFINE last == [n \in 0 .. N |-> h[n].last]
<1>6. ASSUME NEW n \in 1 .. N
      PROVE  LET p == parameters[n]
                 at == Matched(p, header, last[n - 1])
             IN /\ at # 0
                /\ HasVerify(p) => Verify(p.expression, v).r = "ok" /\ last[n] = last[n - 1]
                /\ ~HasVerify(p) => /\ last[n] = at
                                    /\ VariableAssignable(header[at].name, ResultOf(p.expression, v), v) = "ok"
  <2>1. last[n] = h[n].last /\ last[n - 1] = h[n - 1].last /\ Sound(n - 1) /\ h[n].r = "ok"
    BY <1>4, <1>5
  <2> HIDE DEF last
  <2> QED BY <1>3, <2>1, ParameterVerified
<1>7. last[0] = 0
  BY <1>2
<1> HIDE DEF last
<1> QED BY <1>6, <1>7 DEF Places

LEMMA OperatorKept ==
  ASSUME NEW e, IsExpression(e, Names), NEW f, SameNodes(e, f)
  PROVE  IsOperator(Root(e)) <=> IsOperator(Root(f))
BY RootIsThere DEF SameNodes, SameNode, Root

\* The parameters after the verification: unless one is computed, they are
\* what they were.
LEMMA ParametersVerified ==
  ASSUME NEW parameters, AreParameters(parameters), NEW header, NEW v, AreVariables(v),
         VerifyParameters(parameters, header, v).r = "ok",
         NEW f, f = VerifyParameters(parameters, header, v).s
  PROVE  /\ AreParameters(f)
         /\ VerifyEach(parameters, header, v).r = "ok"
         /\ (\A i \in DOMAIN f : ~HasVerify(f[i])) => f = parameters
<1> DEFINE N == Len(parameters)
           new == [i \in DOMAIN parameters |->
                     IF HasVerify(parameters[i])
                     THEN Named(parameters[i].name, Verify(parameters[i].expression, v).e)
                     ELSE parameters[i]]
<1>1. /\ N \in Nat /\ DOMAIN parameters = 1 .. N
      /\ \A i \in 1 .. N : /\ parameters[i] = Named(parameters[i].name, parameters[i].expression)
                           /\ IsExpression(parameters[i].expression, Names)
  BY ListMembers DEF AreParameters
<1>2. VerifyEach(parameters, header, v).r = "ok" /\ f = new
  <2>1. VerifyParameters(parameters, header, v)
          = IF VerifyEach(parameters, header, v).r = "ok" THEN Answered("ok", new)
            ELSE VerifyEach(parameters, header, v)
    BY DEF VerifyParameters, Chain
  <2> HIDE DEF new
  <2> QED BY <2>1 DEF Answered
<1>3. PICK last : Places(parameters, header, v, last)
  BY <1>1, <1>2, PlacesAreThere
<1>4. ASSUME NEW i \in 1 .. N
      PROVE  /\ f[i] = Named(f[i].name, f[i].expression) /\ IsExpression(f[i].expression, Names)
             /\ HasVerify(f[i]) <=> HasVerify(parameters[i])
             /\ ~HasVerify(f[i]) => f[i] = parameters[i]
  <2> DEFINE p == parameters[i]
             one == Verify(p.expression, v)
             q == Named(p.name, one.e)
  <2>1. f[i] = IF HasVerify(p) THEN q ELSE p
    BY <1>1, <1>2
  <2>2. CASE HasVerify(p)
    <3>1. one.r = "ok"
      BY <1>3, <2>2 DEF Places
    <3>2. IsExpression(one.e, Names) /\ SameNodes(p.expression, one.e)
      BY <1>1, <3>1, VisitKeeps DEF Visit, Tasks
    <3>3. IsOperator(Root(one.e))
      BY <1>1, <2>2, <3>2, OperatorKept DEF HasVerify
    <3> HIDE DEF one
    <3>4. q.name = p.name /\ q.expression = one.e
      BY DEF Named
    <3>5. f[i] = q
      BY <2>1, <2>2
    <3> QED BY <2>2, <3>2, <3>3, <3>4, <3>5 DEF HasVerify
  <2>3. CASE ~HasVerify(p)
    BY <1>1, <2>1, <2>3
  <2> QED BY <2>2, <2>3
<1>5. f = [i \in 1 .. N |-> f[i]] /\ DOMAIN f = 1 .. N
  BY <1>1, <1>2
<1> HIDE DEF new
<1>6. IsList(f) /\ Len(f) = N
  BY <1>1, <1>5, ListOf
<1>7. AreParameters(f)
  BY <1>4, <1>5, <1>6 DEF AreParameters, InBody
<1>8. ASSUME \A i \in DOMAIN f : ~HasVerify(f[i]) PROVE f = parameters
  <2>1. \A i \in 1 .. N : f[i] = parameters[i]
    BY <1>4, <1>5, <1>8
  <2>2. parameters = [i \in 1 .. N |-> parameters[i]]
    BY ListMembers DEF AreParameters
  <2> QED BY <1>5, <2>1, <2>2
<1> QED BY <1>2, <1>7, <1>8

LEMMA CallVerified ==
  ASSUME NEW s, AllocatedOne(s), s.s = "call", NEW v, AreVariables(v), VerifyCall(s, v).r = "ok"
  PROVE  VerifiedOne(VerifyCall(s, v).s)
<1> DEFINE statements == ThroughAll([i \in DOMAIN s.statements |-> VerifyAssignment(s.statements[i], v)])
           parameters == VerifyParameters(s.parameters, s.header, v)
           t == Call(s.header, statements.s, parameters.s)
<1>1. /\ AllocatedBody(s.statements) /\ IsList(s.header) /\ AreParameters(s.parameters)
      /\ \A h \in InBody(s.header) : h.name \in Names
  BY DEF AllocatedOne, Bodies, IsStatement, IsAssignment, AreParameters
<1>2. statements.r = "ok" /\ parameters.r = "ok" /\ VerifyCall(s, v) = Answered("ok", t)
  BY DEF VerifyCall, Chain
<1>3. VerifiedBody(statements.s)
  BY <1>1, <1>2, BodyVerified
<1>4. /\ AreParameters(parameters.s) /\ VerifyEach(s.parameters, s.header, v).r = "ok"
      /\ (\A i \in DOMAIN parameters.s : ~HasVerify(parameters.s[i])) => parameters.s = s.parameters
  BY <1>1, <1>2, ParametersVerified
<1> HIDE DEF statements, parameters
<1>5. t.s = "call" /\ t.header = s.header /\ t.statements = statements.s /\ t.parameters = parameters.s
  BY DEF Call
<1>6. IsStatement(t)
  BY <1>1, <1>3, <1>4, <1>5, VerifiedAreAllocated DEF IsStatement, AreParameters
<1>7. Bodies(t) = {t.statements}
  BY <1>5 DEF Bodies
<1>8. PlainCall(t) => AskedCall(t)
  BY <1>4, <1>5 DEF PlainCall, AskedCall
<1>9. VerifiedOne(t)
  BY <1>3, <1>5, <1>6, <1>7, <1>8, VerifiedAreAllocated DEF VerifiedOne, AllocatedOne
<1> QED BY <1>2, <1>9 DEF Answered

LEMMA StatementVerified ==
  ASSUME NEW s, AllocatedOne(s), NEW v, AreVariables(v), VerifyStatement(s, v).r = "ok"
  PROVE  VerifiedOne(VerifyStatement(s, v).s)
<1>1. CASE s.s = "assign"
  <2> DEFINE t == VerifyAssignment(s, v).s
  <2>1. VerifyStatement(s, v) = VerifyAssignment(s, v) /\ AllocatedAssignment(s)
    BY <1>1 DEF VerifyStatement, AllocatedOne
  <2>2. VerifiedAssignment(t)
    BY <2>1, AssignmentVerified
  <2> HIDE DEF t
  <2>3. t.s = "assign" /\ IsStatement(t) /\ Bodies(t) = {}
    BY <2>2 DEF VerifiedAssignment, AllocatedAssignment, IsAssignment, IsStatement, Bodies
  <2> QED BY <2>1, <2>2, <2>3 DEF VerifiedOne, AllocatedOne, VerifiedAssignment, PlainCall, t
<1>2. CASE s.s = "if"
  BY <1>2, IfVerified DEF VerifyStatement
<1>3. CASE s.s \in {"while", "repeat"}
  <2>1. VerifyStatement(s, v) = VerifyWhile(s, v)
    BY <1>3 DEF VerifyStatement
  <2> QED BY <1>3, <2>1, WhileVerified
<1>4. CASE s.s = "case"
  BY <1>4, CaseVerified DEF VerifyStatement
<1>5. CASE s.s = "for"
  BY <1>5, ForVerified DEF VerifyStatement
<1>6. CASE s.s = "call"
  BY <1>6, CallVerified DEF VerifyStatement
<1>7. s.s \in {"assign", "if", "while", "repeat", "case", "for", "call"}
  BY DEF AllocatedOne, IsStatement, IsAssignment
<1> QED BY <1>1, <1>2, <1>3, <1>4, <1>5, <1>6, <1>7

VerifiedAll(list) == IsList(list) /\ \A s \in InBody(list) : VerifiedOne(s)

LEMMA ProgramVerified ==
  ASSUME NEW list, AllocatedAll(list), NEW v, AreVariables(v),
         NEW result, result = ThroughAll([i \in DOMAIN list |-> VerifyStatement(list[i], v)]), result.r = "ok"
  PROVE  VerifiedAll(result.s)
<1> DEFINE N == Len(list)
           answers == [i \in DOMAIN list |-> VerifyStatement(list[i], v)]
           f == result.s
<1>1. N \in Nat /\ DOMAIN list = 1 .. N /\ \A i \in 1 .. N : AllocatedOne(list[i])
  BY ListMembers DEF AllocatedAll
<1>2. /\ \A i \in 1 .. N : answers[i].r = "ok"
      /\ f = [i \in 1 .. N |-> answers[i].s]
  <2>1. DOMAIN answers = 1 .. N /\ result = ThroughAll(answers)
    BY <1>1
  <2> HIDE DEF answers
  <2> QED BY <1>1, <2>1, ThroughAllOk
<1>3. ASSUME NEW i \in 1 .. N PROVE VerifiedOne(f[i])
  <2>1. answers[i] = VerifyStatement(list[i], v) /\ f[i] = answers[i].s /\ answers[i].r = "ok"
    BY <1>1, <1>2
  <2> HIDE DEF answers, f
  <2> QED BY <1>1, <2>1, StatementVerified
<1>4. f = [i \in 1 .. N |-> f[i]]
  BY <1>2
<1> HIDE DEF f
<1>5. IsList(f) /\ DOMAIN f = 1 .. N
  BY <1>1, <1>4, TrueList
<1>6. VerifiedAll(f)
  BY <1>3, <1>5 DEF VerifiedAll, InBody
<1> QED BY <1>6 DEF f

-----------------------------------------------------------------------------
(* The values *)

\* One value for every variable.
IsMemory(v) == v = [n \in Names |-> v[n]] /\ AreVariables(v)

\* The numbers are in range, but for those that are counted with.
NumbersKept(v, counters) == \A n \in Names \ counters : Numeric(n) => NumberHeld(n, v[n])
NumbersFollow(v, w) == \A counters : NumbersKept(v, counters) => NumbersKept(w, counters)

LEMMA ValueCreated ==
  ASSUME NEW n \in Names, NEW garbage, NEW x
  PROVE  LET a == CreateValue(TypeOfVariable[n], garbage, x) IN IsVariable(n, a) /\ a.v = x
<1> DEFINE temp == ClassUninitialised(TypeOfVariable[n]) /\ "temp" \in garbage
           const == ClassUninitialised(TypeOfVariable[n]) /\ "const" \in garbage
           a == CreateValue(TypeOfVariable[n], garbage, x)
<1>1. a = [k |-> FamilyOf(TypeOfVariable[n]), t |-> TypeOfVariable[n], typeOf |-> "set",
           temp |-> temp, const |-> const, v |-> x]
  BY DEF CreateValue
<1>2. temp => ClassUninitialised(TypeOfVariable[n])
  OBVIOUS
<1> HIDE DEF a, temp, const
<1>3. a.k = FamilyOf(TypeOfVariable[n]) /\ a.t = TypeOfVariable[n] /\ a.typeOf = "set" /\ a.temp = temp
      /\ a.const = const /\ a.v = x
  BY <1>1
<1>4. IsRecord(a)
  BY <1>1, <1>3 DEF IsRecord
<1> QED BY <1>2, <1>3, <1>4 DEF IsVariable, a

\* What a variable may have when a cycle starts is in its range.
LEMMA InputInRange ==
  ASSUME NEW n \in Names, NEW x \in Inputs[n], NEW a, IsVariable(n, a), a.v = x
  PROVE  (Numeric(n) => NumberHeld(n, a)) /\ (Enumerated(n) => a.v \in Items(n))
<1> DEFINE b == CreateValue(TypeOfVariable[n], {}, x)
<1>1. IsVariable(n, b) /\ b.v = x
  BY ValueCreated
<1>2. Ranged(n) => CanHold(TypeOfVariable[n], b) = "yes"
  BY InputsAssumption
<1> HIDE DEF b
<1>3. CASE Numeric(n)
  BY <1>1, <1>2, <1>3, NumberKept DEF Numeric, Ranged, NumberHeld, Enumerated
<1>4. CASE Enumerated(n)
  BY <1>1, <1>2, <1>4, NameHeld DEF Numeric, Ranged, Enumerated
<1> QED BY <1>3, <1>4

\* A value is stored in a variable.
LEMMA Stored ==
  ASSUME NEW v, IsMemory(v), NEW n, NEW value, NEW w, w = [v EXCEPT ![n] = Assign(v[n], value).v]
  PROVE  /\ IsMemory(w)
         /\ NumbersFollow(v, w)
         /\ NamesIn(v) /\ (n \in Names /\ Enumerated(n) => value.v \in Items(n)) => NamesIn(w)
<1>1. CASE n \notin Names
  <2>1. w = v
    BY <1>1 DEF IsMemory
  <2> QED BY <1>1, <2>1 DEF NumbersFollow
<1>2. CASE n \in Names
  <2> DEFINE b == Assign(v[n], value).v
  <2>1. /\ w = [m \in Names |-> IF m = n THEN b ELSE v[m]]
        /\ w = [m \in Names |-> w[m]]
    BY <1>2 DEF IsMemory
  <2>2. w[n] = b /\ \A m \in Names : m # n => w[m] = v[m]
    BY <1>2, <2>1
  <2>3. IsVariable(n, v[n]) /\ v[n].k \in Assignable
    BY <1>2, VariableMethods DEF IsMemory, AreVariables
  <2>4. IsVariable(n, b)
    BY <2>3, AssignAlike, VariableAlike DEF IsVariable
  <2>5. IsMemory(w)
    BY <2>1, <2>2, <2>4 DEF IsMemory, AreVariables
  <2>6. ASSUME NEW counters, NumbersKept(v, counters) PROVE NumbersKept(w, counters)
    <3> SUFFICES ASSUME NEW m \in Names \ counters, Numeric(m) PROVE NumberHeld(m, w[m])
      BY DEF NumbersKept
    <3>1. NumberHeld(m, v[m])
      BY <2>6 DEF NumbersKept
    <3>2. CASE m = n
      BY <2>2, <2>3, <3>1, <3>2, NumberAssigned
    <3>3. CASE m # n
      BY <2>2, <3>1, <3>3
    <3> QED BY <3>2, <3>3
  <2>7. ASSUME NamesIn(v), Enumerated(n) => value.v \in Items(n) PROVE NamesIn(w)
    <3>1. Enumerated(n) => b.v \in Items(n)
      BY <1>2, <2>3, <2>7, NameAssigned DEF NamesIn
    <3> HIDE DEF b
    <3> QED BY <1>2, <2>2, <2>7, <3>1 DEF NamesIn
  <2> QED BY <1>2, <2>5, <2>6, <2>7 DEF NumbersFollow
<1> QED BY <1>1, <1>2

\* A FOR adds its increment to its variable.
MayCount(n, counters) == n \in Names => n \in counters /\ ~Enumerated(n)
CountsOn(v, w, counters) ==
  /\ IsMemory(w)
  /\ NumbersKept(v, counters) => NumbersKept(w, counters)
  /\ NamesIn(v) => NamesIn(w)

LEMMA Counted ==
  ASSUME NEW v, IsMemory(v), NEW n, NEW value, NEW w, w = [v EXCEPT ![n] = Operate("plus", v[n], value).v],
         NEW counters, MayCount(n, counters)
  PROVE  CountsOn(v, w, counters)
<1> USE DEF MayCount, CountsOn
<1>1. CASE n \notin Names
  <2>1. w = v
    BY <1>1 DEF IsMemory
  <2> QED BY <1>1, <2>1
<1>2. CASE n \in Names
  <2> DEFINE b == Operate("plus", v[n], value).v
  <2>1. /\ w = [m \in Names |-> IF m = n THEN b ELSE v[m]]
        /\ w = [m \in Names |-> w[m]]
    BY <1>2 DEF IsMemory
  <2>2. w[n] = b /\ \A m \in Names : m # n => w[m] = v[m]
    BY <1>2, <2>1
  <2>3. IsVariable(n, v[n]) /\ v[n].k \in Assignable
    BY <1>2, VariableMethods DEF IsMemory, AreVariables
  <2>4. IsVariable(n, b)
    <3>1. "plus" \in Operations
      BY DEF Operations, SumOps
    <3> QED BY <2>3, <3>1, OperateAlike, VariableAlike DEF IsVariable
  <2> HIDE DEF b
  <2> QED BY <1>2, <2>1, <2>2, <2>4 DEF IsMemory, AreVariables, NumbersKept, NamesIn
<1> QED BY <1>1, <1>2

\* Some variables take values they may have when a cycle starts.
LEMMA Reset ==
  ASSUME NEW v, IsMemory(v), NEW some, NEW x, \A n \in Names \cap some : x[n] \in Inputs[n],
         NEW w, w = [n \in Names |-> IF n \in some THEN [v[n] EXCEPT !.v = x[n]] ELSE v[n]]
  PROVE  /\ IsMemory(w)
         /\ NumbersFollow(v, w)
         /\ NamesIn(v) => NamesIn(w)
<1>1. ASSUME NEW n \in Names
      PROVE  IsVariable(n, v[n]) /\ IsVariable(n, w[n])
             /\ (n \notin some => w[n] = v[n])
             /\ (n \in some => (Numeric(n) => NumberHeld(n, w[n])) /\ (Enumerated(n) => w[n].v \in Items(n)))
  <2>1. IsVariable(n, v[n])
    BY DEF IsMemory, AreVariables
  <2>2. CASE n \notin some
    BY <2>1, <2>2
  <2>3. CASE n \in some
    <3> DEFINE y == x[n]
               b == [v[n] EXCEPT !.v = y]
    <3>1. w[n] = b /\ y \in Inputs[n]
      BY <2>3
    <3> HIDE DEF y
    <3>2. Alike(v[n], b) /\ b.v = y
      BY <2>1, ReplacedAlike DEF IsVariable
    <3> HIDE DEF b
    <3>3. IsVariable(n, w[n]) /\ w[n].v = y
      BY <2>1, <3>1, <3>2, VariableAlike
    <3> QED BY <2>1, <2>3, <3>1, <3>3, InputInRange
  <2> QED BY <2>2, <2>3
<1>2. w = [n \in Names |-> w[n]]
  OBVIOUS
<1> QED BY <1>1, <1>2 DEF IsMemory, AreVariables, NumbersKept, NamesIn, NumbersFollow

-----------------------------------------------------------------------------
(* The parameters of a call *)

LEMMA MatchedIsThere ==
  ASSUME NEW p, NEW header, IsList(header), NEW last \in Nat, Matched(p, header, last) # 0
  PROVE  Matched(p, header, last) \in DOMAIN header
<1>1. Len(header) \in Nat /\ DOMAIN header = 1 .. Len(header)
  BY ListMembers
<1>2. PICK places : places \subseteq 1 .. Len(header) /\ Matched(p, header, last) = PlaceOf(places)
  <2>1. CASE p.name = ""
    <3> DEFINE places == {i \in last + 1 .. Len(header) : header[i].input}
    <3>1. Matched(p, header, last) = PlaceOf(places)
      BY <2>1 DEF Matched, NextInput
    <3>2. places \subseteq 1 .. Len(header)
      BY <1>1
    <3> QED BY <3>1, <3>2
  <2>2. CASE p.name # ""
    <3> DEFINE places == {i \in DOMAIN header : header[i].name = p.name}
    <3>1. Matched(p, header, last) = PlaceOf(places)
      BY <2>2 DEF Matched
    <3>2. places \subseteq 1 .. Len(header)
      BY <1>1
    <3> QED BY <3>1, <3>2
  <2> QED BY <2>1, <2>2
<1>3. places # {} /\ PlaceOf(places) = FirstOf(places)
  BY <1>2 DEF PlaceOf
<1>4. places \subseteq Nat
  BY <1>1, <1>2
<1> QED BY <1>1, <1>2, <1>3, <1>4, FirstIsIn

LEMMA ParameterAssigned ==
  ASSUME NEW done, IsMemory(done.v), done.last \in Nat, NEW p, NEW header, IsList(header),
         NEW next, next = AssignParameter(done, p, header),
         NEW at, at = Matched(p, header, done.last)
  PROVE  /\ IsMemory(next.v) /\ next.last \in Nat
         /\ NumbersFollow(done.v, next.v)
         /\ (next.r = "ok" => done.r = "ok" /\ (at # 0 => next.last = at))
         /\ \/ next.v = done.v
            \/ /\ done.r = "ok" /\ at \in DOMAIN header
               /\ LET n == header[at].name
                  IN NamesIn(done.v) /\ (n \in Names /\ Enumerated(n) => ResultOf(p.expression, done.v).v \in Items(n))
                       => NamesIn(next.v)
<1> DEFINE n == header[at].name
           value == ResultOf(p.expression, done.v)
           assigned == Assign(done.v[n], value)
           w == [done.v EXCEPT ![n] = assigned.v]
<1>1. CASE done.r # "ok"
  BY <1>1 DEF AssignParameter, NumbersFollow
<1>2. CASE done.r = "ok" /\ at = 0
  <2>1. next = [r |-> done.r, last |-> 0, v |-> done.v]
    BY <1>2 DEF AssignParameter
  <2> QED BY <1>2, <2>1 DEF NumbersFollow
<1>3. CASE done.r = "ok" /\ at # 0
  <2>1. next = [r |-> assigned.r, last |-> at, v |-> w]
    BY <1>3 DEF AssignParameter
  <2>2. at \in DOMAIN header /\ at \in Nat
    BY <1>3, MatchedIsThere, ListMembers
  <2>3. /\ IsMemory(w)
        /\ NumbersFollow(done.v, w)
        /\ NamesIn(done.v) /\ (n \in Names /\ Enumerated(n) => value.v \in Items(n)) => NamesIn(w)
    <3> DEFINE before == done.v
    <3>1. IsMemory(before) /\ w = [before EXCEPT ![n] = Assign(before[n], value).v]
      OBVIOUS
    <3> HIDE DEF w, before, n, value
    <3>2. /\ IsMemory(w)
          /\ NumbersFollow(before, w)
          /\ NamesIn(before) /\ (n \in Names /\ Enumerated(n) => value.v \in Items(n)) => NamesIn(w)
      BY <3>1, Stored
    <3> QED BY <3>2 DEF before
  <2> HIDE DEF w, assigned
  <2>4. next.r = assigned.r /\ next.last = at /\ next.v = w
    BY <2>1
  <2> QED BY <1>3, <2>2, <2>3, <2>4
<1> QED BY <1>1, <1>2, <1>3

\* The parameters, assigned one by one.
AssignedAfter(parameters, header, v, n, h) ==
  IF n = 0 THEN [r |-> "ok", last |-> 0, v |-> v] ELSE AssignParameter(h[n - 1], parameters[n], header)
AssignsEach(parameters, header, v, N, h) == h = [n \in 0 .. N |-> AssignedAfter(parameters, header, v, n, h)]

LEMMA AssignsExist ==
  ASSUME NEW parameters, NEW header, NEW v, NEW N \in Nat
  PROVE  \E h : AssignsEach(parameters, header, v, N, h)
<1> DEFINE Bad == {m \in Nat : ~ \E h : AssignsEach(parameters, header, v, m, h)}
<1> SUFFICES ASSUME Bad # {} PROVE FALSE
  OBVIOUS
<1>1. PICK m \in Bad : m \in Nat /\ (m # 0 => m - 1 \in Nat /\ m - 1 \notin Bad)
  <2>1. Bad \subseteq Nat
    OBVIOUS
  <2> HIDE DEF Bad
  <2> QED BY <2>1, LeastNumber
<1>2. m # 0
  <2> DEFINE h == [n \in 0 .. 0 |-> [r |-> "ok", last |-> 0, v |-> v]]
  <2>1. \A n \in 0 .. 0 : AssignedAfter(parameters, header, v, n, h) = [r |-> "ok", last |-> 0, v |-> v]
    BY DEF AssignedAfter
  <2>2. AssignsEach(parameters, header, v, 0, h)
    BY <2>1 DEF AssignsEach
  <2> QED BY <2>2
<1>3. PICK h : AssignsEach(parameters, header, v, m - 1, h)
  BY <1>1, <1>2
<1> DEFINE g == [n \in 0 .. m |-> IF n = m THEN AssignedAfter(parameters, header, v, m, h) ELSE h[n]]
<1>4. ASSUME NEW n \in 0 .. m PROVE g[n] = AssignedAfter(parameters, header, v, n, g)
  <2>1. n = 0 \/ (n - 1 \in 0 .. m /\ n - 1 # m)
    BY <1>1
  <2>2. n # 0 => g[n - 1] = h[n - 1]
    BY <2>1
  <2>3. AssignedAfter(parameters, header, v, n, g) = AssignedAfter(parameters, header, v, n, h)
    BY <2>2 DEF AssignedAfter
  <2>4. CASE n = m
    BY <2>3, <2>4
  <2>5. CASE n # m
    <3>1. n \in 0 .. (m - 1)
      BY <1>1, <2>5
    <3>2. h[n] = AssignedAfter(parameters, header, v, n, h)
      BY <1>3, <3>1 DEF AssignsEach
    <3> QED BY <2>3, <2>5, <3>2
  <2> QED BY <2>4, <2>5
<1>5. AssignsEach(parameters, header, v, m, g)
  BY <1>4 DEF AssignsEach
<1> QED BY <1>1, <1>5

LEMMA AssignFromIsTraced ==
  ASSUME NEW parameters, Len(parameters) \in Nat, NEW header, NEW v
  PROVE  \E h : /\ AssignsEach(parameters, header, v, Len(parameters), h)
                /\ AssignFrom(parameters, header, v) = h[Len(parameters)]
<1> DEFINE P(h) == h = [n \in 0 .. Len(parameters) |->
                          IF n = 0 THEN [r |-> "ok", last |-> 0, v |-> v]
                          ELSE AssignParameter(h[n - 1], parameters[n], header)]
           H == CHOOSE h : P(h)
<1>1. \A h : P(h) <=> AssignsEach(parameters, header, v, Len(parameters), h)
  BY DEF AssignsEach, AssignedAfter
<1>2. AssignFrom(parameters, header, v) = H[Len(parameters)]
  BY DEF AssignFrom
<1> HIDE DEF P
<1>3. \E h : P(h)
  BY <1>1, AssignsExist
<1>4. P(H)
  BY <1>3, Zenon
<1> HIDE DEF H
<1> QED BY <1>1, <1>2, <1>4

\* The parameters of a plain call come by the places their verification came
\* by.
PlainlyAsked(old, new, header, v, last) ==
  /\ AreParameters(old) /\ SameParameters(old, new) /\ AreVariables(v) /\ Places(old, header, v, last)
  /\ \A i \in DOMAIN old : ~HasVerify(old[i])

LEMMA PlainValue ==
  ASSUME NEW old, NEW new, NEW header, NEW v, NEW last, PlainlyAsked(old, new, header, v, last),
         NEW i \in 1 .. Len(old), NEW at, at = Matched(new[i], header, last[i - 1]),
         NEW w, NamesIn(w), NEW n, n = header[at].name, n \in Names, Enumerated(n)
  PROVE  ResultOf(new[i].expression, w).v \in Items(n)
<1> DEFINE e == old[i].expression
           f == new[i].expression
<1>1. IsExpression(e, Names) /\ ~IsOperator(Root(e)) /\ SameNodes(e, f) /\ new[i].name = old[i].name
  BY ListMembers DEF PlainlyAsked, AreParameters, SameParameters, HasVerify
<1>2. at = Matched(old[i], header, last[i - 1])
  BY <1>1 DEF Matched
<1>3. VariableAssignable(n, ResultOf(e, v), v) = "ok"
  BY <1>1, <1>2 DEF PlainlyAsked, Places, HasVerify
<1> HIDE DEF e, f
<1>4. Asked(n, e)
  BY <1>1, <1>3, AskedWhenVerified DEF PlainlyAsked
<1>5. Asked(n, f)
  BY <1>1, <1>4, AskedAfter
<1>6. ResultOf(f, w).v \in Items(n)
  BY <1>5, AskedInRange
<1> QED BY <1>6 DEF f

\* A call whose variables are not enumerated.
NoNames(header) == \A i \in DOMAIN header : header[i].name \in Names => ~Enumerated(header[i].name)

LEMMA ParametersAssigned ==
  ASSUME NEW parameters, Len(parameters) \in Nat, NEW header, IsList(header), NEW v, IsMemory(v),
         NEW w, w = AssignFrom(parameters, header, v).v, NEW old, NEW u, NEW last
  PROVE  /\ IsMemory(w)
         /\ NumbersFollow(v, w)
         /\ NamesIn(v) /\ NoNames(header) => NamesIn(w)
         /\ NamesIn(v) /\ PlainlyAsked(old, parameters, header, u, last) => NamesIn(w)
<1> DEFINE N == Len(parameters)
           Plain == PlainlyAsked(old, parameters, header, u, last)
<1>1. PICK h : AssignsEach(parameters, header, v, N, h) /\ AssignFrom(parameters, header, v) = h[N]
  BY AssignFromIsTraced
<1>2. h[0] = [r |-> "ok", last |-> 0, v |-> v]
  BY <1>1 DEF AssignsEach, AssignedAfter
<1>3. ASSUME NEW n \in 1 .. N PROVE h[n] = AssignParameter(h[n - 1], parameters[n], header)
  <2>1. n \in 0 .. N /\ n # 0
    OBVIOUS
  <2>2. h[n] = AssignedAfter(parameters, header, v, n, h)
    BY <1>1, <2>1 DEF AssignsEach
  <2> QED BY <2>1, <2>2 DEF AssignedAfter
<1>4. Plain => Len(old) = N /\ last[0] = 0
  BY DEF PlainlyAsked, SameParameters, Places
<1> DEFINE Good(n) ==
             /\ IsMemory(h[n].v) /\ h[n].last \in Nat
             /\ NumbersFollow(v, h[n].v)
             /\ NamesIn(v) /\ NoNames(header) => NamesIn(h[n].v)
             /\ NamesIn(v) /\ Plain => NamesIn(h[n].v)
             /\ Plain /\ h[n].r = "ok" => h[n].last = last[n]
           Bad == {n \in 0 .. N : ~Good(n)}
<1>5. Good(0)
  BY <1>2, <1>4 DEF NumbersFollow
<1>6. ASSUME NEW n \in 1 .. N, Good(n - 1) PROVE Good(n)
  <2> DEFINE done == h[n - 1]
             next == h[n]
             p == parameters[n]
             at == Matched(p, header, done.last)
             m == header[at].name
  <2>1. next = AssignParameter(done, p, header) /\ IsMemory(done.v) /\ done.last \in Nat
    BY <1>3, <1>6
  <2>2. /\ IsMemory(next.v) /\ next.last \in Nat
        /\ NumbersFollow(done.v, next.v)
        /\ (next.r = "ok" => done.r = "ok" /\ (at # 0 => next.last = at))
        /\ \/ next.v = done.v
           \/ /\ done.r = "ok" /\ at \in DOMAIN header
              /\ NamesIn(done.v) /\ (m \in Names /\ Enumerated(m) => ResultOf(p.expression, done.v).v \in Items(m))
                       => NamesIn(next.v)
    <3>1. at = Matched(p, header, done.last)
      OBVIOUS
    <3> HIDE DEF done, next, p, at
    <3> QED BY <2>1, <3>1, ParameterAssigned
  <2>3. ASSUME Plain, done.r = "ok" PROVE at = Matched(p, header, last[n - 1]) /\ at # 0 /\ at = last[n]
    <3>1. done.last = last[n - 1]
      BY <1>6, <2>3
    <3>2. n \in 1 .. Len(old) /\ p.name = old[n].name /\ ~HasVerify(old[n])
      BY <1>4, <2>3, ListMembers DEF PlainlyAsked, SameParameters, AreParameters
    <3>3. at = Matched(old[n], header, last[n - 1])
      BY <3>1, <3>2 DEF Matched
    <3>4. at # 0 /\ at = last[n]
      BY <2>3, <3>2, <3>3 DEF PlainlyAsked, Places
    <3> QED BY <3>1, <3>4
  <2>4. ASSUME NamesIn(v), NoNames(header) PROVE NamesIn(next.v)
    BY <1>6, <2>2, <2>4 DEF NoNames
  <2>5. ASSUME NamesIn(v), Plain PROVE NamesIn(next.v)
    <3>1. NamesIn(done.v)
      BY <1>6, <2>5
    <3>2. CASE next.v = done.v
      BY <3>1, <3>2
    <3>3. CASE done.r = "ok" /\ next.v # done.v
      <4>1. at = Matched(p, header, last[n - 1]) /\ n \in 1 .. Len(old)
        BY <1>4, <2>3, <2>5, <3>3
      <4>2. m \in Names /\ Enumerated(m) => ResultOf(p.expression, done.v).v \in Items(m)
        <5> HIDE DEF at, m
        <5> QED BY <2>5, <3>1, <4>1, PlainValue DEF m
      <4> QED BY <2>2, <3>1, <3>3, <4>2
    <3> QED BY <2>2, <3>2, <3>3
  <2>6. ASSUME Plain, next.r = "ok" PROVE next.last = last[n]
    BY <2>2, <2>3, <2>6
  <2>7. NumbersFollow(v, next.v)
    BY <1>6, <2>2 DEF NumbersFollow
  <2> HIDE DEF next, done, Plain
  <2> QED BY <2>2, <2>4, <2>5, <2>6, <2>7 DEF next
<1>7. Bad = {}
  <2> SUFFICES ASSUME Bad # {} PROVE FALSE
    OBVIOUS
  <2>1. Bad \subseteq Nat
    OBVIOUS
  <2>2. PICK m \in Bad : m \in Nat /\ (m # 0 => m - 1 \in Nat /\ m - 1 \notin Bad)
    <3> HIDE DEF Bad
    <3> QED BY <2>1, LeastNumber
  <2>3. m # 0
    BY <1>5, <2>2
  <2>4. m \in 1 .. N /\ m - 1 \in 0 .. N
    BY <2>2, <2>3
  <2>5. Good(m - 1)
    BY <2>2, <2>3, <2>4
  <2> QED BY <1>6, <2>2, <2>4, <2>5
<1>8. Good(N)
  BY <1>7
<1> QED BY <1>1, <1>8

-----------------------------------------------------------------------------
(* The statements that are run *)

\* The variables of the FOR loops.
Counters(list) == {n \in Names : \E s \in Statements(list) : s.s = "for" /\ s.variable = n}

\* Assignments, and the statements of the program itself.
Running(list) == {s \in Statements(list) : s.s # "assign" => s \in InBody(list)}
ToRun(list) == [statement : Running(list), at : {0, 1, 2, 5}]

LEMMA BodiesAreAssignments ==
  ASSUME NEW list, VerifiedAll(list), NEW s \in InBody(list), NEW body \in Bodies(s)
  PROVE  AreAssignments(body) /\ InBody(body) \subseteq Running(list)
<1>1. AllocatedBody(body)
  BY DEF VerifiedAll, VerifiedOne, AllocatedOne
<1>2. AreAssignments(body)
  BY <1>1, AllocatedAreAssignments
<1>3. \A t \in InBody(body) : t.s = "assign" /\ t \in Statements(list)
  BY <1>2 DEF AreAssignments, IsAssignment, Statements, Inner
<1> QED BY <1>2, <1>3 DEF Running

LEMMA RunningKnown ==
  ASSUME NEW list, VerifiedAll(list), NEW s \in Running(list)
  PROVE  /\ s.s # "assign" => s \in InBody(list) /\ VerifiedOne(s)
         /\ s.s = "assign" =>
              /\ IsAssignment(s)
              /\ \/ Enumerated(s.to) => Asked(s.to, s.from)
                 \/ \E t \in Statements(list) : t.s = "case" /\ s \in InBody(t.else)
<1>1. CASE s \in InBody(list)
  BY <1>1 DEF VerifiedAll, VerifiedOne, VerifiedAssignment, AllocatedAssignment
<1>2. CASE s \notin InBody(list)
  <2>1. PICK t \in InBody(list) : s \in Inner(t)
    BY <1>2 DEF Running, Statements
  <2>2. PICK body \in Bodies(t) : s \in InBody(body)
    BY <2>1 DEF Inner
  <2>3. s.s = "assign" /\ IsAssignment(s)
    BY <2>2, BodiesAreAssignments DEF AreAssignments, IsAssignment
  <2>4. VerifiedBody(body) \/ (t.s = "case" /\ body = t.else)
    BY <2>2 DEF VerifiedAll, VerifiedOne
  <2>5. t \in Statements(list)
    BY DEF Statements
  <2> QED BY <2>2, <2>3, <2>4, <2>5 DEF VerifiedBody, VerifiedAssignment
<1> QED BY <1>1, <1>2

LEMMA AtIsToRun ==
  ASSUME NEW list, NEW s \in Running(list), NEW at \in {0, 1, 2, 5}
  PROVE  At(s, at) \in ToRun(list)
BY DEF At, ToRun

LEMMA FreshIsToRun ==
  ASSUME NEW list, NEW body, IsList(body), InBody(body) \subseteq Running(list)
  PROVE  Fresh(body) \in Seq(ToRun(list))
<1> DEFINE f == Fresh(body)
<1>1. Len(body) \in Nat /\ DOMAIN body = 1 .. Len(body) /\ \A i \in 1 .. Len(body) : body[i] \in Running(list)
  BY ListMembers
<1>2. f = [i \in 1 .. Len(body) |-> At(body[i], 0)]
  BY <1>1 DEF Fresh
<1>3. \A i \in 1 .. Len(body) : At(body[i], 0) \in ToRun(list)
  BY <1>1, AtIsToRun
<1>4. f \in [1 .. Len(body) -> ToRun(list)]
  BY <1>2, <1>3
<1> HIDE DEF f
<1>5. f \in Seq(ToRun(list))
  BY <1>1, <1>4, SeqDef
<1> QED BY <1>5 DEF f

-----------------------------------------------------------------------------
(* The invariant *)

Linked == phase \in {"ready", "stopped"}

\* Before the program is linked, nothing is written.  Afterwards every
\* statement has been verified, the numbers are in range but for those of a
\* FOR, and so are the names, if someone has been asked about all of them.
ValuesInv ==
  /\ IsMemory(variables)
  /\ phase = "created" => IsProgram(program)
  /\ phase = "allocated" => AllocatedAll(program)
  /\ ~Linked => NumbersKept(variables, {}) /\ NamesIn(variables)
  /\ Linked => /\ VerifiedAll(program)
               /\ NumbersKept(variables, Counters(program))
               /\ NamesUnasked \/ NamesIn(variables)
  /\ phase \in {"created", "allocated", "ready", "rejected", "stopped"}
  /\ phase # "ready" => todo = <<>>
  /\ todo \in Seq(ToRun(program))

LEMMA ValuesInit == Init => ValuesInv
<1> SUFFICES ASSUME Init PROVE ValuesInv
  OBVIOUS
<1>1. PICK garbage \in Garbage :
        variables = [n \in Names |-> CreateValue(TypeOfVariable[n], garbage, DefaultOf(TypeOfVariable[n]))]
  BY DEF Init
<1>2. ASSUME NEW n \in Names
      PROVE  IsVariable(n, variables[n]) /\ variables[n].v \in Inputs[n]
  <2>1. variables[n] = CreateValue(TypeOfVariable[n], garbage, DefaultOf(TypeOfVariable[n]))
    BY <1>1
  <2>2. DefaultOf(TypeOfVariable[n]) \in Inputs[n]
    BY InputsAssumption
  <2>3. IsVariable(n, variables[n]) /\ variables[n].v = DefaultOf(TypeOfVariable[n])
    BY <2>1, ValueCreated
  <2> QED BY <2>2, <2>3
<1>3. IsMemory(variables)
  BY <1>1, <1>2 DEF IsMemory, AreVariables
<1>4. NumbersKept(variables, {}) /\ NamesIn(variables)
  BY <1>2, InputInRange DEF NumbersKept, NamesIn
<1>5. IsProgram(program) /\ phase = "created" /\ todo = <<>>
  BY ProgramsAssumption DEF Init
<1>6. todo \in Seq(ToRun(program))
  BY <1>5
<1> QED BY <1>3, <1>4, <1>5, <1>6 DEF ValuesInv, Linked

LEMMA FewerNumbers ==
  ASSUME NEW v, NumbersKept(v, {}), NEW counters
  PROVE  NumbersKept(v, counters)
BY DEF NumbersKept

LEMMA ValuesAllocate == ValuesInv /\ AllocateProgram => ValuesInv'
<1> SUFFICES ASSUME ValuesInv, AllocateProgram PROVE ValuesInv'
  OBVIOUS
<1> DEFINE result == Through([i \in DOMAIN program |-> AllocateStatement(program[i], variables)])
<1>1. /\ phase = "created" /\ variables' = variables /\ todo' = todo
      /\ \/ result.r = "ok" /\ program' = result.s /\ phase' = "allocated"
         \/ phase' = "rejected"
  BY DEF AllocateProgram, Link
<1>2. IsMemory(variables) /\ IsProgram(program) /\ NumbersKept(variables, {}) /\ NamesIn(variables) /\ todo = <<>>
  BY <1>1 DEF ValuesInv, Linked
<1>3. result.r = "ok" => AllocatedAll(result.s)
  BY <1>2, ProgramAllocated DEF IsMemory
<1>4. todo' \in Seq(ToRun(program'))
  BY <1>1, <1>2
<1> QED BY <1>1, <1>2, <1>3, <1>4 DEF ValuesInv, Linked

LEMMA ValuesVerify == ValuesInv /\ VerifyProgram => ValuesInv'
<1> SUFFICES ASSUME ValuesInv, VerifyProgram PROVE ValuesInv'
  OBVIOUS
<1> DEFINE result == ThroughAll([i \in DOMAIN program |-> VerifyStatement(program[i], variables)])
<1>1. /\ phase = "allocated" /\ variables' = variables /\ todo' = todo
      /\ \/ result.r = "ok" /\ program' = result.s /\ phase' = "ready"
         \/ phase' = "rejected"
  BY DEF VerifyProgram, Link
<1>2. /\ IsMemory(variables) /\ AllocatedAll(program) /\ NumbersKept(variables, {}) /\ NamesIn(variables)
      /\ todo = <<>>
  BY <1>1 DEF ValuesInv, Linked
<1>3. result.r = "ok" => VerifiedAll(result.s)
  BY <1>2, ProgramVerified DEF IsMemory
<1>4. todo' \in Seq(ToRun(program'))
  BY <1>1, <1>2
<1>5. NumbersKept(variables, Counters(program'))
  BY <1>2, FewerNumbers
<1> QED BY <1>1, <1>2, <1>3, <1>4, <1>5 DEF ValuesInv, Linked

LEMMA ValuesCycle == ValuesInv /\ StartCycle => ValuesInv'
<1> SUFFICES ASSUME ValuesInv, StartCycle PROVE ValuesInv'
  OBVIOUS
<1>1. /\ phase = "ready" /\ phase' = phase /\ program' = program /\ todo' = Fresh(program)
      /\ \E n \in Mentioned(program) : \E x \in Inputs[n] : variables' = [variables EXCEPT ![n].v = x]
  BY DEF StartCycle
<1>2. PICK n \in Mentioned(program) : \E z \in Inputs[n] : variables' = [variables EXCEPT ![n].v = z]
  BY <1>1
<1>9. PICK x \in Inputs[n] : variables' = [variables EXCEPT ![n].v = x]
  BY <1>2
<1>3. n \in Names
  BY DEF Mentioned
<1>4. /\ IsMemory(variables) /\ VerifiedAll(program) /\ NumbersKept(variables, Counters(program))
      /\ NamesUnasked \/ NamesIn(variables)
  BY <1>1 DEF ValuesInv, Linked
<1> DEFINE y == [m \in Names |-> x]
           w == [m \in Names |-> IF m \in {n} THEN [variables[m] EXCEPT !.v = y[m]] ELSE variables[m]]
<1>5. variables' = w
  <2>1. variables = [m \in Names |-> variables[m]]
    BY <1>4 DEF IsMemory
  <2>2. variables' = [m \in Names |-> IF m = n THEN [variables[n] EXCEPT !.v = x] ELSE variables[m]]
    BY <1>3, <1>9, <2>1
  <2> QED BY <1>3, <2>2
<1>6. IsMemory(w) /\ NumbersFollow(variables, w) /\ (NamesIn(variables) => NamesIn(w))
  <2>1. \A m \in Names \cap {n} : y[m] \in Inputs[m]
    BY <1>3
  <2> HIDE DEF y
  <2> QED BY <1>4, <2>1, Reset
<1> HIDE DEF w
<1>7. todo' \in Seq(ToRun(program'))
  <2>1. IsList(program) /\ InBody(program) \subseteq Running(program)
    BY <1>4 DEF VerifiedAll, Running, Statements
  <2> QED BY <1>1, <2>1, FreshIsToRun
<1>8. NamesUnasked' <=> NamesUnasked
  BY <1>1 DEF NamesUnasked, Unverified
<1> QED BY <1>1, <1>4, <1>5, <1>6, <1>7, <1>8 DEF ValuesInv, Linked, NumbersFollow

\* The statement under the cursor ends, and has left values that are in range.
LEMMA ValuesEnd ==
  ASSUME ValuesInv, phase = "ready", todo # <<>>,
         NEW r, NEW values, IsMemory(values), NumbersKept(values, Counters(program)),
         NamesUnasked \/ NamesIn(values),
         NEW next \in Seq(ToRun(program)), Ends(r, values, next)
  PROVE  ValuesInv'
<1>1. /\ variables' = values /\ program' = program
      /\ \/ r = "ok" /\ phase' = "ready" /\ todo' = next \o Tail(todo)
         \/ phase' = "stopped" /\ todo' = <<>>
  BY DEF Ends
<1>2. VerifiedAll(program) /\ Tail(todo) \in Seq(ToRun(program))
  BY DEF ValuesInv, Linked
<1>3. todo' \in Seq(ToRun(program'))
  <2> DEFINE S == ToRun(program)
             rest == Tail(todo)
  <2>1. ToRun(program') = S /\ rest \in Seq(S) /\ next \in Seq(S)
    BY <1>1, <1>2
  <2> HIDE DEF S, rest
  <2>2. next \o rest \in Seq(S) /\ <<>> \in Seq(S)
    BY <2>1
  <2>3. todo' = next \o rest \/ todo' = <<>>
    BY <1>1 DEF rest
  <2> QED BY <2>1, <2>2, <2>3
<1>4. NamesUnasked' <=> NamesUnasked
  BY <1>1 DEF NamesUnasked, Unverified
<1> QED BY <1>1, <1>2, <1>3, <1>4 DEF ValuesInv, Linked

\* What is known when a statement is run.
LEMMA RunStarts ==
  ASSUME ValuesInv, phase = "ready", todo # <<>>
  PROVE  /\ IsMemory(variables) /\ VerifiedAll(program) /\ NumbersKept(variables, Counters(program))
         /\ NamesUnasked \/ NamesIn(variables)
         /\ todo[1].statement \in Running(program)
         /\ <<>> \in Seq(ToRun(program))
<1>1. todo \in Seq(ToRun(program)) /\ todo[1] \in ToRun(program)
  BY DEF ValuesInv
<1> QED BY <1>1 DEF ValuesInv, Linked, ToRun

\* A statement that writes nothing.
LEMMA ValuesStay ==
  ASSUME ValuesInv, phase = "ready", todo # <<>>,
         NEW r, NEW next \in Seq(ToRun(program)), Ends(r, variables, next)
  PROVE  ValuesInv'
BY RunStarts, ValuesEnd

\* A statement that stores a value.
LEMMA ValuesStore ==
  ASSUME ValuesInv, phase = "ready", todo # <<>>,
         NEW n, NEW value, NEW next \in Seq(ToRun(program)), StoreAndGo(n, value, next),
         \/ NamesUnasked
         \/ n \in Names /\ Enumerated(n) => value.v \in Items(n)
  PROVE  ValuesInv'
<1> DEFINE assigned == Assign(variables[n], value)
           w == [variables EXCEPT ![n] = assigned.v]
<1>1. Ends(assigned.r, w, next)
  BY DEF StoreAndGo
<1>2. /\ IsMemory(variables) /\ NumbersKept(variables, Counters(program))
      /\ NamesUnasked \/ NamesIn(variables)
  BY RunStarts
<1>3. /\ IsMemory(w) /\ NumbersFollow(variables, w)
      /\ NamesIn(variables) /\ (n \in Names /\ Enumerated(n) => value.v \in Items(n)) => NamesIn(w)
  BY <1>2, Stored
<1> HIDE DEF w, assigned
<1>4. NumbersKept(w, Counters(program)) /\ (NamesUnasked \/ NamesIn(w))
  BY <1>2, <1>3 DEF NumbersFollow
<1> QED BY <1>1, <1>3, <1>4, ValuesEnd

LEMMA ValuesAssignment == ValuesInv /\ RunAssignment => ValuesInv'
<1> SUFFICES ASSUME ValuesInv, RunAssignment PROVE ValuesInv'
  OBVIOUS
<1> DEFINE s == todo[1].statement
           result == Step(s.from, variables)
           value == ResultOf(result.e, variables)
<1>1. phase = "ready" /\ todo # <<>> /\ s.s = "assign"
  BY DEF RunAssignment, Current
<1>2. \/ result.r = "ok" /\ StoreAndGo(s.to, value, <<>>)
      \/ Ends(result.r, variables, <<>>)
  BY DEF RunAssignment, Evaluated
<1>3. /\ IsMemory(variables) /\ VerifiedAll(program) /\ s \in Running(program)
      /\ NamesUnasked \/ NamesIn(variables)
      /\ <<>> \in Seq(ToRun(program))
  BY <1>1, RunStarts
<1>4. CASE Ends(result.r, variables, <<>>)
  BY <1>1, <1>3, <1>4, ValuesStay
<1>5. CASE result.r = "ok" /\ StoreAndGo(s.to, value, <<>>)
  <2>1. /\ IsAssignment(s)
        /\ \/ Enumerated(s.to) => Asked(s.to, s.from)
           \/ \E t \in Statements(program) : t.s = "case" /\ s \in InBody(t.else)
    BY <1>1, <1>3, RunningKnown
  <2>2. IsExpression(s.from, Names) /\ s.to \in Names
    BY <2>1 DEF IsAssignment
  <2>3. SameNodes(s.from, result.e)
    BY <1>3, <1>5, <2>2, VisitKeeps DEF Visit, Tasks, IsMemory
  <2>4. ASSUME ~NamesUnasked, Enumerated(s.to) PROVE value.v \in Items(s.to)
    <3>1. Asked(s.to, s.from)
      BY <2>1, <2>4 DEF NamesUnasked, Unverified
    <3>2. Asked(s.to, result.e)
      BY <2>2, <2>3, <3>1, AskedAfter
    <3> QED BY <1>3, <2>2, <2>4, <3>2, AskedInRange
  <2> HIDE DEF value, result, s
  <2> QED BY <1>1, <1>3, <1>5, <2>4, ValuesStore
<1> QED BY <1>2, <1>4, <1>5

\* The statements other than an assignment.
LEMMA OtherStarts ==
  ASSUME ValuesInv, NEW kind, kind # "assign", Current(kind)
  PROVE  LET s == todo[1].statement
         IN /\ phase = "ready" /\ todo # <<>> /\ s.s = kind
            /\ s \in InBody(program) /\ VerifiedOne(s) /\ IsStatement(s)
            /\ \A at \in {0, 1, 2, 5} : At(s, at) \in ToRun(program)
            /\ \A body \in Bodies(s) : Fresh(body) \in Seq(ToRun(program))
<1> DEFINE s == todo[1].statement
<1>1. phase = "ready" /\ todo # <<>> /\ s.s = kind
  BY DEF Current
<1>2. VerifiedAll(program) /\ s \in Running(program)
  BY <1>1, RunStarts
<1>3. s \in InBody(program) /\ VerifiedOne(s) /\ IsStatement(s)
  BY <1>1, <1>2, RunningKnown DEF VerifiedOne, AllocatedOne
<1>4. \A at \in {0, 1, 2, 5} : At(s, at) \in ToRun(program)
  BY <1>2, AtIsToRun
<1>5. ASSUME NEW body \in Bodies(s) PROVE Fresh(body) \in Seq(ToRun(program))
  <2>1. AreAssignments(body) /\ InBody(body) \subseteq Running(program)
    BY <1>2, <1>3, BodiesAreAssignments
  <2> QED BY <2>1, FreshIsToRun DEF AreAssignments
<1> QED BY <1>1, <1>3, <1>4, <1>5

LEMMA ValuesIf == ValuesInv /\ RunIf => ValuesInv'
<1> SUFFICES ASSUME ValuesInv, RunIf PROVE ValuesInv'
  OBVIOUS
<1> DEFINE s == todo[1].statement
           result == Step(s.condition, variables)
           value == ResultOf(result.e, variables)
<1>1. Current("if")
  BY DEF RunIf
<1>2. /\ phase = "ready" /\ todo # <<>> /\ s.s = "if"
      /\ \A body \in Bodies(s) : Fresh(body) \in Seq(ToRun(program))
  BY <1>1, OtherStarts
<1>3. <<>> \in Seq(ToRun(program)) /\ Fresh(s.true) \in Seq(ToRun(program)) /\ Fresh(s.else) \in Seq(ToRun(program))
  BY <1>2, RunStarts DEF Bodies
<1>4. \/ Ends(result.r, variables, <<>>)
      \/ Ends("crash", variables, <<>>)
      \/ Ends("ok", variables, Fresh(IF value.v = 1 THEN s.true ELSE s.else))
  BY DEF RunIf, Evaluated
<1>5. Fresh(IF value.v = 1 THEN s.true ELSE s.else) \in {Fresh(s.true), Fresh(s.else)}
  OBVIOUS
<1> HIDE DEF s, result, value
<1> QED BY <1>2, <1>3, <1>4, <1>5, ValuesStay

LEMMA AppendIsToRun ==
  ASSUME NEW list, NEW f \in Seq(ToRun(list)), NEW x \in ToRun(list)
  PROVE  Append(f, x) \in Seq(ToRun(list)) /\ <<x>> \in Seq(ToRun(list)) /\ <<>> \in Seq(ToRun(list))
<1> DEFINE S == ToRun(list)
<1>1. f \in Seq(S) /\ x \in S
  OBVIOUS
<1> HIDE DEF S
<1>2. Append(f, x) \in Seq(S) /\ <<x>> \in Seq(S) /\ <<>> \in Seq(S)
  BY <1>1
<1> QED BY <1>2 DEF S

LEMMA ValuesWhile == ValuesInv /\ RunWhile => ValuesInv'
<1> SUFFICES ASSUME ValuesInv, RunWhile PROVE ValuesInv'
  OBVIOUS
<1> DEFINE s == todo[1].statement
           result == Step(s.condition, variables)
           value == ResultOf(result.e, variables)
           next == IF value.v = 1 THEN Append(Fresh(s.statements), At(s, 1)) ELSE <<>>
<1>1. Current("while")
  BY DEF RunWhile
<1>2. /\ phase = "ready" /\ todo # <<>> /\ s.s = "while" /\ At(s, 1) \in ToRun(program)
      /\ \A body \in Bodies(s) : Fresh(body) \in Seq(ToRun(program))
  BY <1>1, OtherStarts
<1>3. Fresh(s.statements) \in Seq(ToRun(program))
  BY <1>2 DEF Bodies
<1>4. next \in Seq(ToRun(program)) /\ <<>> \in Seq(ToRun(program))
  BY <1>2, <1>3, AppendIsToRun
<1>5. \/ Ends(result.r, variables, <<>>)
      \/ Ends("crash", variables, <<>>)
      \/ Ends("ok", variables, next)
  BY DEF RunWhile, Evaluated
<1> HIDE DEF s, result, value, next
<1> QED BY <1>2, <1>4, <1>5, ValuesStay

LEMMA ValuesRepeat == ValuesInv /\ RunRepeat => ValuesInv'
<1> SUFFICES ASSUME ValuesInv, RunRepeat PROVE ValuesInv'
  OBVIOUS
<1> DEFINE s == todo[1].statement
           result == Step(s.condition, variables)
           value == ResultOf(result.e, variables)
           first == Append(Fresh(s.statements), At(s, 1))
           next == IF value.v = 0 THEN <<At(s, 0)>> ELSE <<>>
<1>1. Current("repeat")
  BY DEF RunRepeat
<1>2. /\ phase = "ready" /\ todo # <<>> /\ s.s = "repeat"
      /\ At(s, 0) \in ToRun(program) /\ At(s, 1) \in ToRun(program)
      /\ \A body \in Bodies(s) : Fresh(body) \in Seq(ToRun(program))
  BY <1>1, OtherStarts
<1>3. Fresh(s.statements) \in Seq(ToRun(program))
  BY <1>2 DEF Bodies
<1>4. first \in Seq(ToRun(program)) /\ next \in Seq(ToRun(program)) /\ <<>> \in Seq(ToRun(program))
  BY <1>2, <1>3, AppendIsToRun
<1>5. \/ Ends("ok", variables, first)
      \/ Ends(result.r, variables, <<>>)
      \/ Ends("crash", variables, <<>>)
      \/ Ends("ok", variables, next)
  BY DEF RunRepeat, Evaluated
<1> HIDE DEF s, result, value, next, first
<1> QED BY <1>2, <1>4, <1>5, ValuesStay

\* What a CASE selects is the body of one of its cases, unless it is nothing.
LEMMA SelectedIsBody ==
  ASSUME NEW s, s.s = "case", IsList(s.cases), NEW value, Selected(s.cases, value).answer = "yes"
  PROVE  Selected(s.cases, value).statements \in Bodies(s)
<1> DEFINE cases == s.cases
           answers == [c \in DOMAIN cases |-> InCaseList(cases[c].list, value)]
           answering == {c \in DOMAIN cases : answers[c] # "no"}
           first == FirstOf(answering)
           none == [answer |-> "no", statements |-> <<>>]
           some == [answer |-> answers[first], statements |-> cases[first].statements]
<1>1. Selected(cases, value) = IF answering = {} THEN none ELSE some
  BY DEF Selected
<1>2. answering \subseteq Nat /\ answering \subseteq DOMAIN cases
  BY ListMembers
<1>3. none.answer = "no" /\ some.statements = cases[first].statements
  OBVIOUS
<1> HIDE DEF answering, none, some, answers
<1>4. answering # {} /\ Selected(cases, value) = some
  BY <1>1, <1>3
<1>5. first \in DOMAIN cases
  BY <1>2, <1>4, FirstIsIn
<1>6. Selected(cases, value).statements = cases[first].statements
  BY <1>3, <1>4
<1> HIDE DEF first
<1> QED BY <1>5, <1>6 DEF Bodies

LEMMA ValuesCase == ValuesInv /\ RunCase => ValuesInv'
<1> SUFFICES ASSUME ValuesInv, RunCase PROVE ValuesInv'
  OBVIOUS
<1> DEFINE s == todo[1].statement
           result == Step(s.selector, variables)
           value == ResultOf(result.e, variables)
           selected == Selected(s.cases, value)
           body == IF selected.answer = "yes" THEN selected.statements ELSE s.else
<1>1. Current("case")
  BY DEF RunCase
<1>2. /\ phase = "ready" /\ todo # <<>> /\ s.s = "case" /\ IsStatement(s)
      /\ \A list \in Bodies(s) : Fresh(list) \in Seq(ToRun(program))
  BY <1>1, OtherStarts
<1>3. s.else \in Bodies(s) /\ IsList(s.cases)
  BY <1>2 DEF Bodies, IsStatement, IsAssignment
<1>4. body \in Bodies(s)
  BY <1>2, <1>3, SelectedIsBody
<1>5. Fresh(body) \in Seq(ToRun(program)) /\ <<>> \in Seq(ToRun(program))
  BY <1>2, <1>4, RunStarts
<1>6. \/ Ends(result.r, variables, <<>>)
      \/ Ends("crash", variables, <<>>)
      \/ Ends("ok", variables, Fresh(body))
  BY DEF RunCase, Evaluated
<1> HIDE DEF s, result, value, selected, body
<1> QED BY <1>2, <1>5, <1>6, ValuesStay

LEMMA ValuesForEnter == ValuesInv /\ ForEnter => ValuesInv'
<1> SUFFICES ASSUME ValuesInv, ForEnter PROVE ValuesInv'
  OBVIOUS
<1> DEFINE s == todo[1].statement
           result == Step(s.from, variables)
           value == ResultOf(result.e, variables)
           next == <<At(s, 2)>>
<1>1. Current("for")
  BY DEF ForEnter
<1>2. phase = "ready" /\ todo # <<>> /\ s.s = "for" /\ VerifiedOne(s) /\ At(s, 2) \in ToRun(program)
  BY <1>1, OtherStarts
<1>3. <<>> \in Seq(ToRun(program))
  BY <1>2, RunStarts
<1>4. next \in Seq(ToRun(program))
  BY <1>2, <1>3, AppendIsToRun
<1>5. s.variable \in Names => ~Enumerated(s.variable)
  BY <1>2 DEF VerifiedOne
<1>6. \/ StoreAndGo(s.variable, value, next)
      \/ Ends(result.r, variables, <<>>)
  BY DEF ForEnter, Evaluated
<1> HIDE DEF s, result, value, next
<1>7. CASE StoreAndGo(s.variable, value, next)
  BY <1>2, <1>4, <1>5, <1>7, ValuesStore
<1>8. CASE Ends(result.r, variables, <<>>)
  BY <1>2, <1>3, <1>8, ValuesStay
<1> QED BY <1>6, <1>7, <1>8

LEMMA ValuesForTest == ValuesInv /\ ForTest => ValuesInv'
<1> SUFFICES ASSUME ValuesInv, ForTest PROVE ValuesInv'
  OBVIOUS
<1> DEFINE s == todo[1].statement
           result == Step(s.to, variables)
           value == ResultOf(result.e, variables)
           greater == Compare("greater", variables[s.variable], value)
           next == IF greater = "yes" THEN <<>> ELSE Append(Fresh(s.statements), At(s, 5))
<1>1. Current("for")
  BY DEF ForTest
<1>2. /\ phase = "ready" /\ todo # <<>> /\ s.s = "for" /\ At(s, 5) \in ToRun(program)
      /\ \A body \in Bodies(s) : Fresh(body) \in Seq(ToRun(program))
  BY <1>1, OtherStarts
<1>3. Fresh(s.statements) \in Seq(ToRun(program))
  BY <1>2 DEF Bodies
<1>4. next \in Seq(ToRun(program)) /\ <<>> \in Seq(ToRun(program))
  BY <1>2, <1>3, AppendIsToRun
<1>5. \/ Ends(result.r, variables, <<>>)
      \/ Ends("crash", variables, <<>>)
      \/ Ends("ok", variables, next)
  BY DEF ForTest, Evaluated
<1> HIDE DEF s, result, value, greater, next
<1> QED BY <1>2, <1>4, <1>5, ValuesStay

LEMMA ValuesForIncrement == ValuesInv /\ ForIncrement => ValuesInv'
<1> SUFFICES ASSUME ValuesInv, ForIncrement PROVE ValuesInv'
  OBVIOUS
<1> DEFINE s == todo[1].statement
           n == s.variable
           result == Step(s.increment, variables)
           value == ResultOf(result.e, variables)
           added == Operate("plus", variables[n], value)
           w == [variables EXCEPT ![n] = added.v]
           next == <<At(s, 2)>>
<1>1. Current("for")
  BY DEF ForIncrement
<1>2. /\ phase = "ready" /\ todo # <<>> /\ s.s = "for" /\ VerifiedOne(s) /\ At(s, 2) \in ToRun(program)
      /\ s \in InBody(program)
  BY <1>1, OtherStarts
<1>3. /\ <<>> \in Seq(ToRun(program)) /\ IsMemory(variables) /\ NumbersKept(variables, Counters(program))
      /\ NamesUnasked \/ NamesIn(variables)
  BY <1>2, RunStarts
<1>4. next \in Seq(ToRun(program))
  BY <1>2, <1>3, AppendIsToRun
<1>5. n \in Names => n \in Counters(program) /\ ~Enumerated(n)
  BY <1>2 DEF VerifiedOne, Counters, Statements
<1>6. \/ Ends(added.r, w, next)
      \/ Ends(result.r, variables, <<>>)
  BY DEF ForIncrement, Evaluated
<1>7. /\ IsMemory(w)
      /\ NumbersKept(variables, Counters(program)) => NumbersKept(w, Counters(program))
      /\ NamesIn(variables) => NamesIn(w)
  <2> DEFINE before == variables
             counters == Counters(program)
  <2>1. w = [before EXCEPT ![n] = Operate("plus", before[n], value).v]
    OBVIOUS
  <2>2. IsMemory(before) /\ MayCount(n, counters)
    BY <1>3, <1>5 DEF MayCount
  <2> HIDE DEF n, value, w, before, counters
  <2>3. CountsOn(before, w, counters)
    BY <2>1, <2>2, Counted
  <2> QED BY <2>3 DEF before, counters, CountsOn
<1> HIDE DEF s, n, result, value, added, w, next
<1>8. CASE Ends(added.r, w, next)
  BY <1>2, <1>3, <1>4, <1>7, <1>8, ValuesEnd
<1>9. CASE Ends(result.r, variables, <<>>)
  BY <1>2, <1>3, <1>9, ValuesStay
<1> QED BY <1>6, <1>8, <1>9

LEMMA ValuesCall == ValuesInv /\ RunCall => ValuesInv'
<1> SUFFICES ASSUME ValuesInv, RunCall PROVE ValuesInv'
  OBVIOUS
<1> DEFINE s == todo[1].statement
           header == s.header
           reset == [n \in Names |->
                       IF n \in HeaderNames(s)
                       THEN [variables[n] EXCEPT !.v = DefaultOf(TypeOfVariable[n])] ELSE variables[n]]
           stepped == StepParameters(s.parameters, variables)
           new == stepped.s
           assigned == AssignFrom(new, header, reset)
           w == assigned.v
           next == Fresh(s.statements)
<1>1. Current("call")
  BY DEF RunCall
<1>2. /\ phase = "ready" /\ todo # <<>> /\ s.s = "call" /\ VerifiedOne(s) /\ IsStatement(s) /\ s \in InBody(program)
      /\ \A body \in Bodies(s) : Fresh(body) \in Seq(ToRun(program))
  BY <1>1, OtherStarts
<1>3. next \in Seq(ToRun(program))
  BY <1>2 DEF Bodies
<1>4. /\ <<>> \in Seq(ToRun(program)) /\ IsMemory(variables) /\ NumbersKept(variables, Counters(program))
      /\ NamesUnasked \/ NamesIn(variables)
  BY <1>2, RunStarts
<1>5. AreParameters(s.parameters) /\ IsList(header) /\ \A h \in InBody(header) : h.name \in Names
  BY <1>2 DEF IsStatement, IsAssignment, AreParameters
<1>6. \/ Ends(stepped.r, reset, <<>>)
      \/ stepped.r = "ok" /\ Ends(assigned.r, w, next)
  BY DEF RunCall
<1>7. IsMemory(reset) /\ NumbersFollow(variables, reset) /\ (NamesIn(variables) => NamesIn(reset))
  <2> DEFINE x == [n \in Names |-> DefaultOf(TypeOfVariable[n])]
             some == HeaderNames(s)
  <2>1. \A n \in Names \cap some : x[n] \in Inputs[n]
    BY InputsAssumption
  <2>2. reset = [n \in Names |-> IF n \in some THEN [variables[n] EXCEPT !.v = x[n]] ELSE variables[n]]
    OBVIOUS
  <2> HIDE DEF x, some, reset
  <2> QED BY <1>4, <2>1, <2>2, Reset
<1>8. NumbersKept(reset, Counters(program)) /\ (NamesUnasked \/ NamesIn(reset))
  BY <1>4, <1>7 DEF NumbersFollow
<1>9. CASE Ends(stepped.r, reset, <<>>)
  <2> HIDE DEF reset, stepped
  <2> QED BY <1>2, <1>4, <1>7, <1>8, <1>9, ValuesEnd
<1>10. CASE stepped.r = "ok" /\ Ends(assigned.r, w, next)
  <2>1. AreParameters(new) /\ SameParameters(s.parameters, new)
    <3>1. stepped = Through([i \in DOMAIN s.parameters |->
                               WithExpression(s.parameters[i], Visit("step", s.parameters[i].expression, variables))])
      BY DEF StepParameters, Visit
    <3> HIDE DEF stepped, s
    <3> QED BY <1>4, <1>5, <1>10, <3>1, ParametersKept DEF Tasks, IsMemory
  <2>2. Len(new) \in Nat
    BY <2>1, ListMembers DEF AreParameters
  <2>3. /\ IsMemory(w) /\ NumbersFollow(reset, w)
        /\ NamesIn(reset) /\ NoNames(header) => NamesIn(w)
        /\ \A old, u, last : NamesIn(reset) /\ PlainlyAsked(old, new, header, u, last) => NamesIn(w)
    <3> HIDE DEF reset, new, header
    <3> QED BY <1>5, <1>7, <2>2, ParametersAssigned
  <2>4. CASE UncheckedCall(s)
    <3>1. s \in Statements(program)
      BY <1>2 DEF Statements
    <3>2. NamesUnasked \/ NoNames(header)
      BY <2>4, <3>1 DEF NamesUnasked, NoNames, HeaderNames
    <3> HIDE DEF s, header, reset, stepped, new, assigned, w, next
    <3>3. NumbersKept(w, Counters(program)) /\ (NamesUnasked \/ NamesIn(w))
      BY <1>8, <2>3, <3>2 DEF NumbersFollow
    <3> QED BY <1>2, <1>3, <1>10, <2>3, <3>3, ValuesEnd
  <2>5. CASE PlainCall(s)
    <3>1. PICK u : AreVariables(u) /\ VerifyEach(s.parameters, header, u).r = "ok"
      BY <1>2, <2>5 DEF VerifiedOne, AskedCall
    <3>2. PICK last : Places(s.parameters, header, u, last)
      BY <1>5, <3>1, PlacesAreThere, ListMembers DEF AreParameters
    <3>3. PlainlyAsked(s.parameters, new, header, u, last)
      BY <1>5, <2>1, <2>5, <3>1, <3>2 DEF PlainlyAsked, PlainCall
    <3> HIDE DEF s, header, reset, stepped, new, assigned, w, next
    <3>4. NumbersKept(w, Counters(program)) /\ (NamesUnasked \/ NamesIn(w))
      BY <1>8, <2>3, <3>3 DEF NumbersFollow
    <3> QED BY <1>2, <1>3, <1>10, <2>3, <3>4, ValuesEnd
  <2> QED BY <1>2, <2>4, <2>5 DEF UncheckedCall
<1> QED BY <1>6, <1>9, <1>10

LEMMA ValuesNext == ValuesInv /\ [Next]_vars => ValuesInv'
<1> SUFFICES ASSUME ValuesInv, [Next]_vars PROVE ValuesInv'
  OBVIOUS
<1>1. CASE UNCHANGED vars
  BY <1>1 DEF ValuesInv, Linked, vars, NamesUnasked, Unverified
<1>2. CASE Next
  BY <1>2, ValuesAllocate, ValuesVerify, ValuesCycle, ValuesAssignment, ValuesIf, ValuesWhile, ValuesRepeat,
     ValuesCase, ValuesForEnter, ValuesForTest, ValuesForIncrement, ValuesCall DEF Next
<1> QED BY <1>1, <1>2

LEMMA ValuesAreKept == Spec => []ValuesInv
<1> QED BY ValuesInit, ValuesNext, PTL DEF Spec

LEMMA ValuesInRange == ValuesInv => StoredInRange
<1> SUFFICES ASSUME ValuesInv, NEW n \in Names, Ranged(n)
    PROVE  \/ variables[n].temp
           \/ \E s \in Statements(program) : s.s = "for" /\ s.variable = n
           \/ Enumerated(n) /\ NamesUnasked
           \/ CanHold(TypeOfVariable[n], variables[n]) = "yes"
  BY DEF StoredInRange
<1>1. IsVariable(n, variables[n])
  BY DEF ValuesInv, IsMemory, AreVariables
<1>2. CASE Numeric(n)
  <2>1. n \in Counters(program) \/ NumberHeld(n, variables[n])
    BY <1>2 DEF ValuesInv, NumbersKept
  <2> QED BY <2>1 DEF Counters, NumberHeld
<1>3. CASE Enumerated(n)
  <2>1. NamesUnasked \/ variables[n].v \in Items(n)
    BY <1>3 DEF ValuesInv, NamesIn
  <2> QED BY <1>1, <1>3, <2>1, NameHeld
<1> QED BY <1>2, <1>3 DEF Ranged, Numeric, Enumerated

\* What a program stores stays within the type of its variable: integers,
\* subranges and enumerated values, whatever the types, the programs and their
\* expressions.
THEOREM StoredStaysInRange == Spec => []StoredInRange
<1> QED BY ValuesAreKept, ValuesInRange, PTL
=============================================================================
