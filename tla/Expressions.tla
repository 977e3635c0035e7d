---------------------------- MODULE Expressions ----------------------------
(***************************************************************************)
(* Expressions: the identifier, the inline value, the prefix term and the  *)
(* binary expression (expressions/identifier.c, inline_expression.c,       *)
(* negative_prefix.c, binary_expressions.c).                               *)
(*                                                                         *)
(* An expression is the sequence of its nodes in the order they are        *)
(* visited: the operands of a node come before it, the root is the last.   *)
(* An operator owns a temporary, made by Allocate when the program is      *)
(* linked; Verify asks the operands whether they go together, and computes *)
(* the operators whose operands are constant, once and for all; Step       *)
(* computes the others each time the program gets to them.  How the cursor *)
(* walks through the operands is Interpreter's subject; here an expression *)
(* is evaluated as a whole.  Allocate, Verify and Step answer with r, "ok",*)
(* "error" (an issue is reported) or "crash", and with e, the expression   *)
(* with its temporaries brought up to date.                                *)
(***************************************************************************)
EXTENDS TypeChecks

LogicOps == {"xor", "and", "or"}
SumOps == {"plus", "minus", "multiply"}
QuotientOps == {"divide"}
PowerOps == {"modulus", "to_power"}
OrderOps == {"greater", "lesser"}
EqualOps == {"equals"}
DerivedComparisons == {"gequals", "lequals", "nequals"}
PrefixOps == {"negate", "not"}
Operations == LogicOps \union SumOps \union QuotientOps \union PowerOps
Comparisons == OrderOps \union EqualOps \union DerivedComparisons
BinaryOps == Operations \union Comparisons

----------------------------------------------------------------------------
(* The constructors *)

NoValue == [k |-> "none"]
Root(e) == e[Len(e)]
IsOperator(node) == node.e \in PrefixOps \union BinaryOps

\* An identifier can be cloned: what it is part of may change between one
\* evaluation and the next.
Identifier(name) == <<[e |-> "identifier", name |-> name, changes |-> TRUE]>>
InlineValue(value) == <<[e |-> "inline", value |-> value, changes |-> FALSE]>>

\* An operator has a step function when an operand has one or can be cloned;
\* otherwise its verify function computes the result.
Operator(op, operands, changes) ==
  [e |-> op, operands |-> operands, changes |-> changes, temporary |-> NoValue]
PrefixTerm(op, term) == Append(term, Operator(op, <<Len(term)>>, Root(term).changes))

Shifted(e, by) ==
  [i \in DOMAIN e |-> IF IsOperator(e[i]) THEN [e[i] EXCEPT !.operands = [j \in DOMAIN @ |-> @[j] + by]]
                      ELSE e[i]]
BinaryExpression(op, left, right) ==
  left \o Shifted(right, Len(left)) \o
    <<Operator(op, <<Len(left), Len(left) + Len(right)>>, Root(left).changes \/ Root(right).changes)>>
LogicOrComparison(op, left, right) == BinaryExpression(op, left, right)
Arithmetic(op, left, right) == BinaryExpression(op, left, right)

\* The link resolves an identifier to a variable, or leaves it as the name of
\* an enumerated value.
Resolved(identifier, names) ==
  IF identifier.name \in names THEN identifier
  ELSE [e |-> "name", value |-> InlineEnum(identifier.name), changes |-> TRUE]

\* What the constructors build over a set of variables: a sequence of nodes,
\* the left operand of an operator before it.
Kinds == {"integer", "bool", "real", "string", "literal_string", "enum", "inline_enum",
          "subrange", "case_range"}
IsNode(e, i, names) ==
  \/ /\ e[i].e = "identifier" /\ e[i].name \in names
     /\ e[i] = [e |-> "identifier", name |-> e[i].name, changes |-> TRUE]
  \/ /\ e[i].e \in {"inline", "name"} /\ e[i].value.k \in Kinds
     /\ e[i] = [e |-> e[i].e, value |-> e[i].value, changes |-> e[i].changes]
  \/ /\ IsOperator(e[i]) /\ e[i].operands[1] \in 1 .. i - 1
     /\ e[i] = [e |-> e[i].e, operands |-> e[i].operands, changes |-> e[i].changes,
                temporary |-> e[i].temporary]
IsExpression(e, names) ==
  /\ e \in Seq({e[i] : i \in DOMAIN e}) /\ e # <<>>
  /\ \A i \in DOMAIN e : IsNode(e, i, names)

Steps(node) == IsOperator(node) /\ node.changes
Constant(node) == IsOperator(node) /\ ~node.changes

----------------------------------------------------------------------------
(* return_value *)

Value(node, variables) ==
  CASE node.e = "identifier" -> variables[node.name]
    [] node.e \in {"inline", "name"} -> node.value
    [] OTHER -> node.temporary

ResultOf(e, variables) == Value(Root(e), variables)

\* The values of the operands of node i; a prefix has a left operand only.
Left(e, i) == e[e[i].operands[1]]
Right(e, i) == e[e[i].operands[2]]

Answer(r, e) == [r |-> r, e |-> e]
Kept(e, i, temporary) == Answer("ok", [e EXCEPT ![i].temporary = temporary])

----------------------------------------------------------------------------
(* allocate *)

ClonedTemporary(e, i, of) ==
  IF Has(of, "create_temp_from") THEN Kept(e, i, TemporaryFrom(of)) ELSE Answer("error", e)

AllocateBool(e, i) == Kept(e, i, BoolTemporary)

AllocateNode(e, i, variables) ==
  IF ~IsOperator(e[i]) THEN Answer("ok", e)
  ELSE IF e[i].e \in Comparisons THEN AllocateBool(e, i)
  ELSE ClonedTemporary(e, i, Value(Left(e, i), variables))

----------------------------------------------------------------------------
(* The computation, at verify for a constant, at step for the others *)

\* An operation assigns the left value to the temporary and lets it operate
\* on the right value.
DoOperation(e, i, variables) ==
  Chain(Assign(e[i].temporary, Value(Left(e, i), variables)), LAMBDA assigned :
    Chain(Operate(e[i].e, assigned.v, Value(Right(e, i), variables)), LAMBDA result :
      Kept(e, i, result.v)))

AssignAndNegate(e, i, variables) ==
  Chain(Assign(e[i].temporary, Value(Left(e, i), variables)), LAMBDA assigned :
    Chain(Prefix(e[i].e, assigned.v), LAMBDA result :
      Kept(e, i, result.v)))

Decided(e, i, answer) ==
  IF answer = "crash" THEN Answer("crash", e)
  ELSE Kept(e, i, [e[i].temporary EXCEPT !.v = IF answer = "yes" THEN 1 ELSE 0])

DoComparison(e, i, variables) ==
  Decided(e, i, Compare(e[i].e, Value(Left(e, i), variables), Value(Right(e, i), variables)))

Opposite(answer) == CASE answer = "yes" -> "no" [] answer = "no" -> "yes" [] OTHER -> answer

NotEqual(e, i, variables) ==
  Decided(e, i, Opposite(Compare("equals", Value(Left(e, i), variables), Value(Right(e, i), variables))))

\* >= and <= ask the left expression's return_value for the right operand's
\* value: an operand of another structure is misread, and what is found there
\* is used as a value.
SameStructure(left, right) ==
  \/ left.e = right.e
  \/ {left.e, right.e} \subseteq PrefixOps
  \/ {left.e, right.e} \subseteq BinaryOps

Either(first, second) == IF first = "no" THEN second ELSE first

GreaterOrEqual(e, i, variables) ==
  LET left == Value(Left(e, i), variables)
      right == Value(Right(e, i), variables)
  IN IF ~SameStructure(Left(e, i), Right(e, i)) THEN Answer("crash", e)
     ELSE Decided(e, i, Either(Compare("greater", left, right), Compare("equals", left, right)))

LesserOrEqual(e, i, variables) ==
  LET left == Value(Left(e, i), variables)
      right == Value(Right(e, i), variables)
  IN IF ~SameStructure(Left(e, i), Right(e, i)) THEN Answer("crash", e)
     ELSE Decided(e, i, Either(Compare("lesser", left, right), Compare("equals", left, right)))

Compute(e, i, variables) ==
  CASE e[i].e \in PrefixOps -> AssignAndNegate(e, i, variables)
    [] e[i].e \in Operations -> DoOperation(e, i, variables)
    [] e[i].e \in OrderOps \union EqualOps -> DoComparison(e, i, variables)
    [] e[i].e = "nequals" -> NotEqual(e, i, variables)
    [] e[i].e = "gequals" -> GreaterOrEqual(e, i, variables)
    [] e[i].e = "lequals" -> LesserOrEqual(e, i, variables)

----------------------------------------------------------------------------
(* verify *)

\* The answer of a check as the result of verify: only "yes" is accepted.
Accepts(answer) == CASE answer = "yes" -> "ok" [] answer = "no" -> "error" [] OTHER -> answer

\* Whether the left value supports the operation is not looked at: the check
\* tests the address of the pointer, which is never NULL.
OperandsOperate(left, right) == Accepts(OperatesWith(left, right))
OperandsCompare(left, right) == Accepts(ComparableTo(left, right))

\* >= and <= look at the left value only.
OperandOrdered(left, op) == IF Has(left, op) /\ Has(left, "equals") THEN "ok" ELSE "error"

\* A remainder that is computed at each step checks its operands as a
\* comparison does.
Check(node, left, right) ==
  CASE node.e = "gequals" -> OperandOrdered(left, "greater")
    [] node.e = "lequals" -> OperandOrdered(left, "lesser")
    [] node.e \in OrderOps \union EqualOps \union {"nequals"} -> OperandsCompare(left, right)
    [] node.e = "modulus" /\ node.changes -> OperandsCompare(left, right)
    [] OTHER -> OperandsOperate(left, right)

CheckNode(e, i, variables) ==
  Answer(IF e[i].e \in PrefixOps THEN "ok"
         ELSE Check(e[i], Value(Left(e, i), variables), Value(Right(e, i), variables)), e)

\* Mutant: the operands are not asked whether they go together.
UncheckedVerifyNode(e, i, variables) ==
  IF Constant(e[i]) THEN Compute(e, i, variables) ELSE Answer("ok", e)
\* A constant operator is computed as soon as it is accepted; a prefix accepts
\* any operand.
VerifyNode(e, i, variables) ==
  IF ~IsOperator(e[i]) THEN Answer("ok", e)
  ELSE Chain(CheckNode(e, i, variables), LAMBDA checked :
         IF Constant(e[i]) THEN Compute(e, i, variables) ELSE Answer("ok", e))

----------------------------------------------------------------------------
(* step *)

\* A prefix switches to its operand whether or not that has anything to run.
PrefixStep(e, i) == e[i].e \in PrefixOps => Steps(Left(e, i))

StepNode(e, i, variables) ==
  IF ~Steps(e[i]) THEN Answer("ok", e)
  ELSE IF PrefixStep(e, i) THEN Compute(e, i, variables) ELSE Answer("crash", e)

----------------------------------------------------------------------------
(* An expression does what its nodes do, one after the other, until one does *)
(* not answer "ok"                                                           *)

Allocate(e, variables) ==
  LET allocated[n \in 0 .. Len(e)] ==
        IF n = 0 THEN Answer("ok", e)
        ELSE Chain(allocated[n - 1], LAMBDA done : AllocateNode(done.e, n, variables))
  IN allocated[Len(e)]
Verify(e, variables) ==
  LET verified[n \in 0 .. Len(e)] ==
        IF n = 0 THEN Answer("ok", e)
        ELSE Chain(verified[n - 1], LAMBDA done : VerifyNode(done.e, n, variables))
  IN verified[Len(e)]
Step(e, variables) ==
  LET stepped[n \in 0 .. Len(e)] ==
        IF n = 0 THEN Answer("ok", e)
        ELSE Chain(stepped[n - 1], LAMBDA done : StepNode(done.e, n, variables))
  IN stepped[Len(e)]
=============================================================================
