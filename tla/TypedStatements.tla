-------------------------- MODULE TypedStatements --------------------------
(***************************************************************************)
(* The statements of a program and the values they move: the assignment,   *)
(* IF, CASE, FOR, WHILE, REPEAT and the call of statements/*.c from the    *)
(* link, which allocates and verifies them, to the cycles that run them.   *)
(*                                                                         *)
(* Structured and Interpreter leave the data out and keep the cursor; this *)
(* module keeps the data and runs a statement, with its expressions, in    *)
(* one step (a loop in one step per test and one per increment).  Between  *)
(* two cycles the variables take any value of their type: other programs,  *)
(* queries and direct memory write them.                                   *)
(***************************************************************************)
EXTENDS InvokeParameters

LOCAL INSTANCE SequencesExt

CONSTANTS
  \* The programs: sequences of statements, preceded by an empty one, for the
  \* cursor does not reset the statement that starts a program (Cursor).
  Programs,
  TypeOfVariable,   \* the variables and their types
  \* What the memory of a new value may hold where its flags are: sets of
  \* flags.
  Garbage,
  \* The values each variable may have when a cycle starts.
  Inputs,
  \* Bound: a FOR with a negative increment stops this far below zero.
  Depth

VARIABLES
  program,     \* the statements, with the temporaries of their expressions
  variables,   \* the value of each variable
  phase,       \* "created", "allocated", "ready", "rejected" or "stopped"
  outcome,     \* why the program is rejected or stopped
  todo         \* what is left of the cycle: statements, with where they are

vars == <<program, variables, phase, outcome, todo>>

Names == DOMAIN TypeOfVariable

InBody(list) == {list[i] : i \in DOMAIN list}
IsList(list) == list \in Seq(InBody(list))

\* The value of a type that is declared without a default.
DefaultOf(t) ==
  LET a == Ancestor(t)
  IN CASE a.k = "subrange" -> a.min [] a.k = "enum" -> a.items[1] [] OTHER -> 0

\* The type a subrange narrows holds the bounds, which are integers.
ASSUME TypesAssumption ==
  \A n \in Names :
    /\ FamilyOf(TypeOfVariable[n]) \in {"integer", "bool", "real", "string", "enum", "subrange"}
    /\ FamilyOf(TypeOfVariable[n]) = "subrange" => FamilyOf(Ancestor(TypeOfVariable[n]).of) = "integer"
    /\ FamilyOf(TypeOfVariable[n]) = "enum" => IsList(Ancestor(TypeOfVariable[n]).items)

\* The default of a variable is a value it may have, and those are of its
\* type; so no variable is an LWORD, whose type holds nothing.
Ranged(name) == FamilyOf(TypeOfVariable[name]) \in {"integer", "subrange", "enum"}
ASSUME InputsAssumption ==
  \A n \in Names :
    /\ DefaultOf(TypeOfVariable[n]) \in Inputs[n]
    /\ Ranged(n) =>
         \A x \in Inputs[n] :
           CanHold(TypeOfVariable[n], CreateValue(TypeOfVariable[n], {}, x)) = "yes"

----------------------------------------------------------------------------
(* Statements *)

Assignment(to, from) == [s |-> "assign", to |-> to, from |-> from]
If(condition, true, else) ==
  [s |-> "if", condition |-> condition, true |-> true, else |-> else]
Loop(kind, condition, statements) ==
  [s |-> kind, condition |-> condition, statements |-> statements]
While(condition, statements) == Loop("while", condition, statements)
Repeat(condition, statements) == Loop("repeat", condition, statements)
OfCase(list, statements) == [list |-> list, statements |-> statements]
Case(selector, cases, else) ==
  [s |-> "case", selector |-> selector, cases |-> cases, else |-> else]
For(variable, from, to, increment, statements) ==
  [s |-> "for", variable |-> variable, from |-> from, to |-> to,
   increment |-> increment, statements |-> statements]
\* A call of a function: its variables and its statements.
Call(header, statements, parameters) ==
  [s |-> "call", header |-> header, statements |-> statements, parameters |-> parameters]

\* All of a list; an error is remembered.
ThroughAll(answers) ==
  LET results == {answers[i].r : i \in DOMAIN answers}
  IN IF results \subseteq {"ok"} THEN Answered("ok", [i \in DOMAIN answers |-> answers[i].s])
     ELSE Answered(IF "crash" \in results THEN "crash" ELSE "error", <<>>)

\* What the parser builds.  The bodies hold assignments, for how statements
\* nest is Structured's subject.
IsAssignment(s) ==
  s.s = "assign" /\ s = Assignment(s.to, s.from) /\ s.to \in Names /\ IsExpression(s.from, Names)
AreAssignments(list) == IsList(list) /\ \A s \in InBody(list) : IsAssignment(s)
IsStatement(s) ==
  \/ IsAssignment(s)
  \/ /\ s.s = "if" /\ s = If(s.condition, s.true, s.else)
     /\ AreAssignments(s.true) /\ AreAssignments(s.else)
  \/ /\ s.s \in {"while", "repeat"} /\ AreAssignments(s.statements)
     /\ s = Loop(s.s, s.condition, s.statements)
  \/ /\ s.s = "case" /\ s = Case(s.selector, s.cases, s.else)
     /\ AreAssignments(s.else) /\ IsList(s.cases)
     /\ \A c \in InBody(s.cases) :
          AreAssignments(c.statements) /\ c = OfCase(c.list, c.statements)
  \/ /\ s.s = "for" /\ AreAssignments(s.statements)
     /\ s = For(s.variable, s.from, s.to, s.increment, s.statements)
  \/ /\ s.s = "call" /\ s = Call(s.header, s.statements, s.parameters)
     /\ AreAssignments(s.statements) /\ IsList(s.header) /\ IsList(s.parameters)
     /\ \A h \in InBody(s.header) : h.name \in Names
     /\ \A p \in InBody(s.parameters) :
          p = Named(p.name, p.expression) /\ IsExpression(p.expression, Names)
IsProgram(list) == IsList(list) /\ \A s \in InBody(list) : IsStatement(s)

ASSUME ProgramsAssumption == \A list \in Programs : IsProgram(list)

----------------------------------------------------------------------------
(* allocate: every statement hands it to its expressions and statements *)

AllocateAssignment(s, v) ==
  Chain(Allocate(s.from, v), LAMBDA from : Answered("ok", Assignment(s.to, from.e)))
AllocateBody(list, v) == Through([i \in DOMAIN list |-> AllocateAssignment(list[i], v)])

AllocateIf(s, v) ==
  Chain(Allocate(s.condition, v), LAMBDA condition :
    Chain(AllocateBody(s.true, v), LAMBDA true :
      Chain(AllocateBody(s.else, v), LAMBDA else :
        Answered("ok", If(condition.e, true.s, else.s)))))
AllocateWhile(s, v) ==
  Chain(Allocate(s.condition, v), LAMBDA condition :
    Chain(AllocateBody(s.statements, v), LAMBDA statements :
      Answered("ok", Loop(s.s, condition.e, statements.s))))
AllocateOfCase(c, v) ==
  Chain(AllocateBody(c.statements, v), LAMBDA statements :
    Answered("ok", OfCase(c.list, statements.s)))
AllocateCase(s, v) ==
  Chain(Allocate(s.selector, v), LAMBDA selector :
    Chain(Through([c \in DOMAIN s.cases |-> AllocateOfCase(s.cases[c], v)]), LAMBDA cases :
      Chain(AllocateBody(s.else, v), LAMBDA else :
        Answered("ok", Case(selector.e, cases.s, else.s)))))
AllocateFor(s, v) ==
  Chain(Allocate(s.from, v), LAMBDA from :
    Chain(Allocate(s.to, v), LAMBDA to :
      Chain(Allocate(s.increment, v), LAMBDA increment :
        Chain(AllocateBody(s.statements, v), LAMBDA statements :
          Answered("ok", For(s.variable, from.e, to.e, increment.e, statements.s))))))
AllocateCall(s, v) ==
  Chain(AllocateBody(s.statements, v), LAMBDA statements :
    Chain(AllocateParameters(s.parameters, v), LAMBDA parameters :
      Answered("ok", Call(s.header, statements.s, parameters.s))))
AllocateStatement(s, v) ==
  CASE s.s = "assign" -> AllocateAssignment(s, v)
    [] s.s = "if" -> AllocateIf(s, v)
    [] s.s \in {"while", "repeat"} -> AllocateWhile(s, v)
    [] s.s = "case" -> AllocateCase(s, v)
    [] s.s = "for" -> AllocateFor(s, v)
    [] s.s = "call" -> AllocateCall(s, v)

----------------------------------------------------------------------------
(* verify *)

\* Mutant: the variable is not asked whether it takes the value.
UncheckedAssignment(s, v) ==
  Chain(Verify(s.from, v), LAMBDA from : Answered("ok", Assignment(s.to, from.e)))
VerifyAssignment(s, v) ==
  Chain(Verify(s.from, v), LAMBDA from :
    Answered(VariableAssignable(s.to, ResultOf(from.e, v), v), Assignment(s.to, from.e)))
VerifyBody(list, v) == Through([i \in DOMAIN list |-> VerifyAssignment(list[i], v)])

\* The condition of an IF, a WHILE or an UNTIL.
VerifyCondition(e, v) ==
  Chain(Verify(e, v), LAMBDA condition :
    Answer(IF Has(ResultOf(condition.e, v), "bool") THEN "ok" ELSE "error", condition.e))

VerifyIf(s, v) ==
  Chain(VerifyCondition(s.condition, v), LAMBDA condition :
    Chain(VerifyBody(s.true, v), LAMBDA true :
      Chain(VerifyBody(s.else, v), LAMBDA else :
        Answered("ok", If(condition.e, true.s, else.s)))))
VerifyWhile(s, v) ==
  Chain(VerifyCondition(s.condition, v), LAMBDA condition :
    Chain(VerifyBody(s.statements, v), LAMBDA statements :
      Answered("ok", Loop(s.s, condition.e, statements.s))))
\* The labels and the statements of each case; the statements of ELSE are left
\* out.
VerifyLabel(label, selector) == Answered(Accepts(ComparableTo(label, selector)), label)
VerifyOfCase(c, selector, v) ==
  Chain(Through([i \in DOMAIN c.list |-> VerifyLabel(c.list[i], selector)]), LAMBDA labels :
    Chain(VerifyBody(c.statements, v), LAMBDA statements :
      Answered("ok", OfCase(c.list, statements.s))))
VerifyCase(s, v) ==
  Chain(Verify(s.selector, v), LAMBDA selector :
    Chain(Through([c \in DOMAIN s.cases |-> VerifyOfCase(s.cases[c], ResultOf(selector.e, v), v)]),
          LAMBDA cases :
      Answered("ok", Case(selector.e, cases.s, s.else))))
\* The checks of FOR, in the order of the code.
ForChecks(variable, name, from, to, increment, v) ==
  Chain(Answered(VariableAssignable(name, from, v), name), LAMBDA assignable :
    Chain(Answered(Accepts(CanHold(variable.t, to)), name), LAMBDA held :
      Chain(Answered(Accepts(OperatesWith(variable, increment)), name), LAMBDA operates :
        Answered(Accepts(ComparableTo(variable, to)), name))))
VerifyFor(s, v) ==
  Chain(Verify(s.from, v), LAMBDA from :
    Chain(Verify(s.to, v), LAMBDA to :
      Chain(Verify(s.increment, v), LAMBDA increment :
        Chain(ForChecks(v[s.variable], s.variable, ResultOf(from.e, v), ResultOf(to.e, v),
                        ResultOf(increment.e, v), v), LAMBDA checks :
          Chain(VerifyBody(s.statements, v), LAMBDA statements :
            Answered("ok", For(s.variable, from.e, to.e, increment.e, statements.s)))))))
\* The statements of the functions are verified before those of the programs.
VerifyCall(s, v) ==
  Chain(ThroughAll([i \in DOMAIN s.statements |-> VerifyAssignment(s.statements[i], v)]), LAMBDA statements :
    Chain(VerifyParameters(s.parameters, s.header, v), LAMBDA parameters :
      Answered("ok", Call(s.header, statements.s, parameters.s))))
VerifyStatement(s, v) ==
  CASE s.s = "assign" -> VerifyAssignment(s, v)
    [] s.s = "if" -> VerifyIf(s, v)
    [] s.s \in {"while", "repeat"} -> VerifyWhile(s, v)
    [] s.s = "case" -> VerifyCase(s, v)
    [] s.s = "for" -> VerifyFor(s, v)
    [] s.s = "call" -> VerifyCall(s, v)

----------------------------------------------------------------------------
(* The link *)

\* create_header makes the variables before the statements are allocated.
Init ==
  /\ program \in Programs
  /\ \E garbage \in Garbage :
       variables = [n \in Names |->
                      CreateValue(TypeOfVariable[n], garbage, DefaultOf(TypeOfVariable[n]))]
  /\ phase = "created" /\ outcome = "none" /\ todo = <<>>

Link(from, to, result) ==
  /\ phase = from
  /\ program' = IF result.r = "ok" THEN result.s ELSE program
  /\ phase' = IF result.r = "ok" THEN to ELSE "rejected"
  /\ outcome' = IF result.r = "ok" THEN "none" ELSE result.r
  /\ UNCHANGED <<variables, todo>>

AllocateProgram ==
  Link("created", "allocated", Through([i \in DOMAIN program |-> AllocateStatement(program[i], variables)]))
VerifyProgram ==
  Link("allocated", "ready", ThroughAll([i \in DOMAIN program |-> VerifyStatement(program[i], variables)]))

----------------------------------------------------------------------------
(* The expressions and the statements of a program *)

Bodies(s) ==
  CASE s.s = "assign" -> {}
    [] s.s = "if" -> {s.true, s.else}
    [] s.s = "case" -> {s.else} \union {s.cases[c].statements : c \in DOMAIN s.cases}
    [] s.s \in {"for", "while", "repeat", "call"} -> {s.statements}
Inner(s) == UNION {InBody(list) : list \in Bodies(s)}
Statements(list) == InBody(list) \union UNION {Inner(s) : s \in InBody(list)}

ExpressionsOf(s) ==
  CASE s.s = "assign" -> {s.from}
    [] s.s \in {"if", "while", "repeat"} -> {s.condition}
    [] s.s = "case" -> {s.selector}
    [] s.s = "for" -> {s.from, s.to, s.increment}
    [] s.s = "call" -> {s.parameters[i].expression : i \in DOMAIN s.parameters}
Uses(e, name) == \E i \in DOMAIN e : e[i].e = "identifier" /\ e[i].name = name

HeaderNames(s) == {s.header[i].name : i \in DOMAIN s.header}
OfFunctions(list) == UNION {HeaderNames(s) : s \in {c \in InBody(list) : c.s = "call"}}

\* The variables a program mentions, those of its functions excepted.
Mentioned(list) ==
  UNION {{n \in Names : \/ s.s = "assign" /\ s.to = n
                        \/ s.s = "for" /\ s.variable = n
                        \/ \E e \in ExpressionsOf(s) : Uses(e, n)}
         : s \in Statements(list)} \ OfFunctions(list)

----------------------------------------------------------------------------
(* The cycles *)

At(s, at) == [statement |-> s, at |-> at]
Fresh(list) == [i \in DOMAIN list |-> At(list[i], 0)]

\* Only the variables the program mentions matter.
StartCycle ==
  /\ phase = "ready" /\ todo = <<>>
  /\ \E n \in Mentioned(program) :
       \E x \in Inputs[n] : variables' = [variables EXCEPT ![n].v = x]
  /\ todo' = Fresh(program)
  /\ UNCHANGED <<program, phase, outcome>>

\* The statement under the cursor ends in r and leaves next behind.
Ends(r, values, next) ==
  /\ variables' = values
  /\ IF r = "ok" THEN todo' = next \o Tail(todo) /\ UNCHANGED <<phase, outcome>>
     ELSE todo' = <<>> /\ phase' = "stopped" /\ outcome' = r
  /\ UNCHANGED program

Current(kind) ==
  /\ phase = "ready" /\ todo # <<>> /\ todo[1].statement.s = kind

\* The variable takes a value, and the statement goes on to next.
StoreAndGo(name, value, next) ==
  \E assigned \in {Assign(variables[name], value)} :
    Ends(assigned.r, [variables EXCEPT ![name] = assigned.v], next)

\* The expression is evaluated, and Use says what follows from its value.
Evaluated(e, Use(_)) ==
  \E result \in {Step(e, variables)} :
    IF result.r = "ok" THEN Use(ResultOf(result.e, variables))
    ELSE Ends(result.r, variables, <<>>)

RunAssignment ==
  /\ Current("assign")
  /\ LET s == todo[1].statement
     IN Evaluated(s.from, LAMBDA value : StoreAndGo(s.to, value, <<>>))

\* A condition is TRUE when its value is 1.
RunIf ==
  /\ Current("if")
  /\ LET s == todo[1].statement
     IN Evaluated(s.condition, LAMBDA value :
          IF ~Has(value, "bool") THEN Ends("crash", variables, <<>>)
          ELSE Ends("ok", variables, Fresh(IF value.v = 1 THEN s.true ELSE s.else)))

RunWhile ==
  /\ Current("while")
  /\ LET s == todo[1].statement
     IN Evaluated(s.condition, LAMBDA value :
          IF ~Has(value, "bool") THEN Ends("crash", variables, <<>>)
          ELSE Ends("ok", variables,
                    IF value.v = 1 THEN Append(Fresh(s.statements), At(s, 1)) ELSE <<>>))

\* The body runs first; anything but FALSE ends it.
RunRepeat ==
  /\ Current("repeat")
  /\ LET s == todo[1].statement
     IN IF todo[1].at = 0 THEN Ends("ok", variables, Append(Fresh(s.statements), At(s, 1)))
        ELSE Evaluated(s.condition, LAMBDA value :
               IF ~Has(value, "bool") THEN Ends("crash", variables, <<>>)
               ELSE Ends("ok", variables, IF value.v = 0 THEN <<At(s, 0)>> ELSE <<>>))

\* The answer of the first label of a list that is not "no".
InCaseList(list, selector) ==
  FoldLeft(LAMBDA answer, label : Either(answer, Compare("equals", label, selector)), "no", list)

\* The first case with a label that answers, and its answer.
Selected(cases, selector) ==
  LET answers == [c \in DOMAIN cases |-> InCaseList(cases[c].list, selector)]
      answering == {c \in DOMAIN cases : answers[c] # "no"}
      first == FirstOf(answering)
  IN IF answering = {} THEN [answer |-> "no", statements |-> <<>>]
     ELSE [answer |-> answers[first], statements |-> cases[first].statements]

RunCase ==
  /\ Current("case")
  /\ LET s == todo[1].statement
     IN Evaluated(s.selector, LAMBDA value :
          \E selected \in {Selected(s.cases, value)} :
            IF selected.answer = "crash" THEN Ends("crash", variables, <<>>)
            ELSE Ends("ok", variables,
                      Fresh(IF selected.answer = "yes" THEN selected.statements ELSE s.else)))

\* FOR: 0 assigns the start value, 2 compares with the end value and runs the
\* body, 5 increments the variable, which checks no range.
ForEnter ==
  /\ Current("for") /\ todo[1].at = 0
  /\ LET s == todo[1].statement
     IN Evaluated(s.from, LAMBDA value : StoreAndGo(s.variable, value, <<At(s, 2)>>))

ForTest ==
  /\ Current("for") /\ todo[1].at = 2
  /\ LET s == todo[1].statement
     IN Evaluated(s.to, LAMBDA value :
          \E greater \in {Compare("greater", variables[s.variable], value)} :
            IF greater = "crash" THEN Ends("crash", variables, <<>>)
            ELSE Ends("ok", variables,
                      IF greater = "yes" THEN <<>> ELSE Append(Fresh(s.statements), At(s, 5))))

\* Mutant: the start value is added instead of the increment.
WrongForIncrement ==
  /\ Current("for") /\ todo[1].at = 5
  /\ LET s == todo[1].statement
     IN Evaluated(s.from, LAMBDA value :
          \E added \in {Operate("plus", variables[s.variable], value)} :
            Ends(added.r, [variables EXCEPT ![s.variable] = added.v], <<At(s, 2)>>))
ForIncrement ==
  /\ Current("for") /\ todo[1].at = 5
  /\ LET s == todo[1].statement
     IN /\ variables[s.variable].v > -Depth
        /\ Evaluated(s.increment, LAMBDA value :
             \E added \in {Operate("plus", variables[s.variable], value)} :
               Ends(added.r, [variables EXCEPT ![s.variable] = added.v], <<At(s, 2)>>))

\* A call: the cursor has reset the function's variables on its way to it; the
\* parameters are stepped, assigned, and the statements run.
RunCall ==
  /\ Current("call")
  /\ LET s == todo[1].statement
         reset == [n \in Names |->
                     IF n \in HeaderNames(s)
                     THEN [variables[n] EXCEPT !.v = DefaultOf(TypeOfVariable[n])] ELSE variables[n]]
     IN \E stepped \in {StepParameters(s.parameters, variables)} :
          IF stepped.r # "ok" THEN Ends(stepped.r, reset, <<>>)
          ELSE \E assigned \in {AssignFrom(stepped.s, s.header, reset)} :
                 Ends(assigned.r, assigned.v, Fresh(s.statements))

Next ==
  \/ AllocateProgram \/ VerifyProgram \/ StartCycle
  \/ RunAssignment \/ RunIf \/ RunWhile \/ RunRepeat \/ RunCase
  \/ ForEnter \/ ForTest \/ ForIncrement \/ RunCall

Spec == Init /\ [][Next]_vars

----------------------------------------------------------------------------
(* Properties *)

AllExpressions == UNION {ExpressionsOf(s) : s \in Statements(program)}

\* The statements the ELSE of a CASE holds are run without being verified.
Unverified ==
  UNION {InBody(s.else) : s \in {t \in Statements(program) : t.s = "case"}}

TypeOK ==
  /\ DOMAIN variables = Names
  /\ \A n \in Names : variables[n].k = FamilyOf(TypeOfVariable[n]) /\ variables[n].t = TypeOfVariable[n]
  /\ phase \in {"created", "allocated", "ready", "rejected", "stopped"}
  /\ outcome \in {"none", "error", "crash"}
  /\ \A i \in DOMAIN todo : todo[i].at \in {0, 1, 2, 5}

\* A call with a parameter that is computed: its variable is not asked whether
\* it takes the value, and the parameters behind it ask the wrong variable.
PlainCall(s) == s.s = "call" /\ \A i \in DOMAIN s.parameters : ~HasVerify(s.parameters[i])
UncheckedCall(s) == s.s = "call" /\ ~PlainCall(s)

\* An enumerated variable takes any name: whether it is one of its own is
\* asked once, when the assignment or the parameter is verified, and no one
\* asks for some.  One variable hands the wrong name on to the others.
Enumerated(name) == FamilyOf(TypeOfVariable[name]) = "enum"
NamesUnasked ==
  \/ \E s \in Unverified : Enumerated(s.to)
  \/ \E s \in Statements(program) : UncheckedCall(s) /\ \E n \in HeaderNames(s) : Enumerated(n)

\* What a program stores stays within the type of the variable, whatever the
\* expression computes; the exceptions are the variable of a FOR, whose
\* increment checks nothing, a variable whose uninitialised flags happen to
\* say that it is a temporary, and the enumerated variables of a program that
\* has a name no one was asked about.
StoredInRange ==
  \A n \in Names :
    Ranged(n) =>
      \/ variables[n].temp
      \/ \E s \in Statements(program) : s.s = "for" /\ s.variable = n
      \/ Enumerated(n) /\ NamesUnasked
      \/ CanHold(TypeOfVariable[n], variables[n]) = "yes"

\* The link checks an assignment of a constant, and a call with constants for
\* parameters, completely: one it accepts does not fail when it is run, unless
\* no one looked at it.
ConstantCall(s) ==
  /\ s.s = "call"
  /\ \A i \in DOMAIN s.parameters : Root(s.parameters[i].expression).e \in {"inline", "name"}
ConstantAssignment(s) ==
  /\ s.s = "assign" /\ ~Root(s.from).changes /\ s \notin Unverified
  /\ FamilyOf(TypeOfVariable[s.to]) # "subrange"
AcceptedConstantsStored ==
  [][todo # <<>> /\ (ConstantAssignment(todo[1].statement) \/ ConstantCall(todo[1].statement))
       => phase' = "ready"]_vars

\* The ways in which a node of an expression can bring the interpreter down:
\* an operation its left value has no function for; a prefix before a
\* variable, which has nothing to run; the remainder of a division by zero, and
\* a division of the smallest word by -1; >= and <= between operands of
\* different structure or kind; two enumerated variables, one with a list of
\* names the other begins with; and, when it is verified, an operand whose
\* type is asked for and is not there: a temporary of a typed constant says it
\* has a type, and has none; a real literal has none and does not look.
Function(op) == CASE op = "gequals" -> "greater" [] op = "lequals" -> "lesser" [] OTHER -> op
Unsupported(e, i) ==
  /\ e[i].e \in PrefixOps \union Operations \union OrderOps \union {"gequals", "lequals"}
  /\ ~Has(Value(Left(e, i), variables), Function(e[i].e))
PrefixOfVariable(e, i) == e[i].e \in PrefixOps /\ e[i].changes /\ ~Steps(Left(e, i))
TrappingDivision(e, i) ==
  /\ e[i].e \in {"divide", "modulus"}
  /\ LET right == Value(Right(e, i), variables)
     IN \/ IsOperator(Right(e, i))
        \/ Has(right, "integer") /\ right.v \in (IF e[i].e = "modulus" THEN {0, -1} ELSE {-1})
MixedKinds(e, i) ==
  /\ e[i].e \in BinaryOps
  /\ ~Has(Value(Right(e, i), variables), Accessor(Value(Left(e, i), variables)))
MixedOrder(e, i) ==
  /\ e[i].e \in {"gequals", "lequals"}
  /\ ~SameStructure(Left(e, i), Right(e, i)) \/ MixedKinds(e, i)
\* The loop over the names of the other list runs past the end of its own.
Overrun(value, other) ==
  /\ value.k = "enum" /\ other.k = "enum"
  /\ LET mine == Ancestor(value.t).items
         theirs == Ancestor(other.t).items
     IN Len(mine) < Len(theirs) /\ \A i \in DOMAIN mine : mine[i] = theirs[i]
OverrunOperands(e, i) ==
  e[i].e \in Comparisons /\ Overrun(Value(Left(e, i), variables), Value(Right(e, i), variables))
MissingType(e, i) ==
  \/ /\ e[i].e \in PrefixOps \union Operations /\ e[i].temporary.k # "none"
     /\ e[i].temporary.typeOf = "none" /\ e[i].temporary.const
  \/ /\ e[i].e \in BinaryOps
     /\ LET left == Value(Left(e, i), variables) IN left.k = "real" /\ left.t = NoType
Explained(e, i) ==
  \/ Unsupported(e, i) \/ PrefixOfVariable(e, i) \/ TrappingDivision(e, i)
  \/ MixedOrder(e, i) \/ OverrunOperands(e, i) \/ MissingType(e, i)

\* A FOR over a variable that cannot be counted with or compared.
CannotCount(s) ==
  s.s = "for" /\ ~({"operates_with", "greater", "plus"} \subseteq Methods(variables[s.variable]))
\* A variable with a list of names is given a variable with a longer one.
OverrunVariable(s) ==
  \/ s.s = "assign" /\ Overrun(variables[s.to], ResultOf(s.from, variables))
  \/ s.s = "call" /\ \E n \in HeaderNames(s) : \E i \in DOMAIN s.parameters :
                       Overrun(variables[n], ResultOf(s.parameters[i].expression, variables))
\* A real literal among the labels is asked for its type.
RealLabel(s) ==
  s.s = "case" /\ \E c \in DOMAIN s.cases : \E i \in DOMAIN s.cases[c].list :
                    s.cases[c].list[i].k = "real" /\ s.cases[c].list[i].t = NoType
\* What no one looks at may be of any kind.
UnverifiedKinds(s) ==
  \/ ~Has(ResultOf(s.from, variables), Accessor(variables[s.to]))
  \/ \E i \in DOMAIN s.from : MixedKinds(s.from, i)

\* The interpreter comes down in no other way.
CrashesExplained ==
  outcome = "crash" =>
    \/ \E e \in AllExpressions : \E i \in DOMAIN e : Explained(e, i)
    \/ \E s \in Statements(program) :
         CannotCount(s) \/ UncheckedCall(s) \/ OverrunVariable(s) \/ RealLabel(s)
    \/ \E s \in Unverified : UnverifiedKinds(s)

\* A FOR that counts upwards and ends before the largest word: its variable
\* rises with every increment, whatever its body does to other variables, so
\* that the loop comes to its end; nothing on the way checks a range.
Upwards(s) ==
  /\ Root(s.increment).e = "inline" /\ Root(s.increment).value.k = "integer"
  /\ Root(s.increment).value.v > 0
  /\ Root(s.to).e = "inline"
  /\ Root(s.to).value.v + Root(s.increment).value.v < Word \div 2
CountsUp ==
  [][\A s \in Statements(program) :
       (ForIncrement /\ s = todo[1].statement /\ Upwards(s) /\ phase' = "ready")
         => variables'[s.variable].v > variables[s.variable].v]_vars

\* The name a parameter of a call is for: its own, or that of the input
\* variable that is as far behind the last one named as the parameter is.
Intended(s, i) ==
  LET inputs == SelectSeq(s.header, LAMBDA h : h.input)
      named == SelectLastInSubSeq(s.parameters, 1, i, LAMBDA p : p.name # "")
      from == IF named = 0 THEN 0 ELSE SelectInSeq(inputs, LAMBDA h : h.name = s.parameters[named].name)
  IN inputs[from + i - named].name

\* A call whose parameters are plain, constants and variables, named and not:
\* if it goes through, each variable of the function has the value of the last
\* parameter meant for it, and the others have none of a former call.
ParametersArrive ==
  [][todo # <<>> /\ PlainCall(todo[1].statement) /\ phase' = "ready" =>
       LET s == todo[1].statement
       IN \A n \in HeaderNames(s) :
            LET last == SelectLastInSeq([i \in DOMAIN s.parameters |-> i], LAMBDA i : Intended(s, i) = n)
            IN variables'[n].v = IF last = 0 THEN DefaultOf(TypeOfVariable[n])
                                 ELSE ResultOf(s.parameters[last].expression, variables).v]_vars
=============================================================================
