-------------------------- MODULE InvokeParameters --------------------------
(***************************************************************************)
(* The parameters of a call and the variables of what is called            *)
(* (elements/invoke_parameters.c).  A parameter is named, or it is for the *)
(* input variable that follows the one of the parameter before it.  Which  *)
(* variable that is is worked out twice: when the call is linked, to ask   *)
(* the variable whether it takes the value, and each time the call is run. *)
(*                                                                         *)
(* A header is the sequence of the variables, a variable is found by its   *)
(* place in it; 0 is the variable that is not there.                       *)
(***************************************************************************)
EXTENDS Expressions

CONSTANT
  ConstantVariables   \* the variables declared CONSTANT

VariableAssignable(name, value, v) ==
  IF name \in ConstantVariables THEN "error" ELSE Accepts(AssignableFrom(v[name], value))

Declared(name, input) == [name |-> name, input |-> input]
Named(name, expression) == [name |-> name, expression |-> expression]
ByPosition(expression) == Named("", expression)

HasVerify(parameter) == IsOperator(Root(parameter.expression))

\* The place of the first of some elements of a list, 0 of none.
FirstOf(places) == CHOOSE i \in places : \A j \in places : i <= j
PlaceOf(places) == IF places = {} THEN 0 ELSE FirstOf(places)

\* Mutant: every variable counts, whatever its class.
NextVariable(header, last) == IF last < Len(header) THEN last + 1 ELSE 0
\* The first input variable behind the last one.
NextInput(header, last) == PlaceOf({i \in last + 1 .. Len(header) : header[i].input})

Matched(parameter, header, last) ==
  IF parameter.name = "" THEN NextInput(header, last)
  ELSE PlaceOf({i \in DOMAIN header : header[i].name = parameter.name})

----------------------------------------------------------------------------
(* allocate and step hand on to the expressions *)

Answered(r, s) == [r |-> r, s |-> s]

\* The elements of a list, one after the other: the first answer that is not
\* "ok" is the answer for the list.
Through(answers) ==
  LET failed == {i \in DOMAIN answers : answers[i].r # "ok"}
  IN IF failed = {} THEN Answered("ok", [i \in DOMAIN answers |-> answers[i].s])
     ELSE answers[FirstOf(failed)]

WithExpression(parameter, answer) ==
  Chain(answer, LAMBDA one : Answered("ok", Named(parameter.name, one.e)))

AllocateParameters(parameters, variables) ==
  Through([i \in DOMAIN parameters |->
             WithExpression(parameters[i], Allocate(parameters[i].expression, variables))])
StepParameters(parameters, variables) ==
  Through([i \in DOMAIN parameters |->
             WithExpression(parameters[i], Step(parameters[i].expression, variables))])

----------------------------------------------------------------------------
(* verify: an error is remembered, and the next parameter is looked at;     *)
(* over is set by the errors that end the loop                              *)

Seen(done, r, last) ==
  [r |-> IF r = "ok" THEN done.r ELSE r, last |-> last, over |-> r = "crash"]

\* A parameter that is verified itself is not compared with its variable, and
\* does not count for the place of the next one.
VerifyParameter(done, parameter, header, variables) ==
  LET at == Matched(parameter, header, done.last)
      verified == Verify(parameter.expression, variables)
      assignable == VariableAssignable(header[at].name, ResultOf(parameter.expression, variables), variables)
  IN IF done.over THEN done
     ELSE IF at = 0 THEN [r |-> "error", last |-> 0, over |-> TRUE]
     ELSE IF parameter.name # "" /\ ~header[at].input THEN Seen(done, "error", at)
     ELSE IF HasVerify(parameter) THEN Seen(done, verified.r, done.last)
     ELSE Seen(done, assignable, at)

VerifyEach(parameters, header, variables) ==
  LET seen[n \in 0 .. Len(parameters)] ==
        IF n = 0 THEN [r |-> "ok", last |-> 0, over |-> FALSE]
        ELSE VerifyParameter(seen[n - 1], parameters[n], header, variables)
  IN seen[Len(parameters)]

VerifyParameters(parameters, header, variables) ==
  Chain(VerifyEach(parameters, header, variables), LAMBDA seen :
    Answered("ok", [i \in DOMAIN parameters |->
                      IF HasVerify(parameters[i])
                      THEN Named(parameters[i].name, Verify(parameters[i].expression, variables).e)
                      ELSE parameters[i]]))

----------------------------------------------------------------------------
(* assign_from: a parameter without variable is passed over, and the next   *)
(* one starts at the first variable again                                   *)

AssignParameter(done, parameter, header) ==
  LET at == Matched(parameter, header, done.last)
      value == ResultOf(parameter.expression, done.v)
  IN IF done.r # "ok" THEN done
     ELSE IF at = 0 THEN [r |-> done.r, last |-> 0, v |-> done.v]
     ELSE LET assigned == Assign(done.v[header[at].name], value)
          IN [r |-> assigned.r, last |-> at, v |-> [done.v EXCEPT ![header[at].name] = assigned.v]]

AssignFrom(parameters, header, variables) ==
  LET assigned[n \in 0 .. Len(parameters)] ==
        IF n = 0 THEN [r |-> "ok", last |-> 0, v |-> variables]
        ELSE AssignParameter(assigned[n - 1], parameters[n], header)
  IN assigned[Len(parameters)]
=============================================================================
