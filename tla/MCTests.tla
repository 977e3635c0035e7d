------------------------------ MODULE MCTests ------------------------------
(***************************************************************************)
(* Programs outside the discipline of Structured: two of the               *)
(* repository's own tests, run for more than the one cycle the tests run   *)
(* them for, and two that reach corners of the cursor.                     *)
(***************************************************************************)
EXTENDS Interpreter, ProgramTree

Empty == [n \in {} |-> NULL]

\* tests/programs/loops/while.ST, without its second loop, whose condition is
\* the literal False.
While == [
  first |-> "while",
  lists |-> {<<"while", "while4">>, <<"itr:=", "if", "control:=">>, <<"itr+1">>,
             <<"itr>5">>, <<"exit">>, <<"itr_two<4">>, <<"itr_two:=">>},
  kind |-> [n \in {"while", "while4"} |-> "while"] @@
           [n \in {"itr:=", "control:=", "itr_two:="} |-> "assign"] @@
           [n \in {"itr+1", "itr>5", "itr_two<4"} |-> "expression"] @@
           ("if" :> "if") @@ ("exit" :> "exit"),
  operands |-> ("itr:=" :> <<"itr+1">>) @@ ("if" :> <<"itr>5">>) @@ ("while4" :> <<"itr_two<4">>),
  body |-> ("while" :> "itr:=") @@ ("while4" :> "itr_two:="),
  branches |-> ("if" :> {"exit", NULL}),
  callee |-> Empty, entry |-> Empty, blocks |-> {}, faulty |-> {"itr+1"}]

\* tests/programs/function/funcparams.ST:
\*   c := my_func(1+1, my_func(4*10, 5));  d := my_func(a, a*10);
FuncParams == [
  first |-> "c:=",
  lists |-> {<<"c:=", "d:=">>, <<"outer">>, <<"inner">>, <<"other">>, <<"a*10">>,
             <<"my_func:=">>, <<"in1+in2">>},
  kind |-> [n \in {"c:=", "d:=", "my_func:="} |-> "assign"] @@
           [n \in {"outer", "inner", "other"} |-> "term"] @@
           [n \in {"a*10", "in1+in2"} |-> "expression"],
  operands |-> ("c:=" :> <<"outer">>) @@ ("d:=" :> <<"other">>) @@
               ("outer" :> <<NULL, "inner">>) @@ ("inner" :> <<NULL, NULL>>) @@
               ("other" :> <<NULL, "a*10">>) @@ ("my_func:=" :> <<"in1+in2">>),
  body |-> Empty, branches |-> Empty,
  callee |-> [n \in {"outer", "inner", "other"} |-> "my_func"],
  entry |-> ("my_func" :> "my_func:="), blocks |-> {}, faulty |-> {"outer"}]

\* A function that calls a function with a computed parameter and then returns:
\*   ;  f(1);  a := 1;
\*   f:  g(x+1);  RETURN;       g:  b := 1;
Nested == [
  first |-> "empty",
  lists |-> {<<"empty", "callF", "a:=1">>, <<"callG", "return">>, <<"x+1">>, <<"b:=1">>},
  kind |-> ("empty" :> "empty") @@ [n \in {"callF", "callG"} |-> "invoke"] @@
           [n \in {"a:=1", "b:=1"} |-> "assign"] @@ ("return" :> "return") @@
           ("x+1" :> "expression"),
  operands |-> ("callG" :> <<"x+1">>), body |-> Empty, branches |-> Empty,
  callee |-> ("callF" :> "f") @@ ("callG" :> "g"),
  entry |-> ("f" :> "callG") @@ ("g" :> "b:=1"), blocks |-> {}, faulty |-> {}]

\* Everything that resets or leaves nodes in the middle, invocations inside
\* expressions, and failures at every depth, for an embedding that runs on
\* after a failed cycle: the cycle ends by a RETURN of the program.
\*   c := g(1, g(a+1));
\*   FOR i := 1 TO 5 DO  f(2);  WHILE c < 1 DO EXIT; END_WHILE;  END_FOR;
\*   fb(x := i+1);  RETURN;  b := 1;
\*   f: IF d THEN RETURN; END_IF;  REPEAT b := 2; UNTIL TRUE END_REPEAT;
\*   g: g := in+1;
\*   fb: FOR j := k+1 TO 5 DO  CASE s+1 OF 1: d := 1; END_CASE;  END_FOR;
Cycles == [
  first |-> "c:=",
  lists |-> {<<"c:=", "for", "callFB", "return", "b:=1">>, <<"outer">>, <<"inner">>,
             <<"a+1">>, <<"callInLoop", "while">>,
             <<"c<1">>, <<"exit">>, <<"ifF", "repeat">>, <<"returnF">>, <<"b:=2">>,
             <<"g:=">>, <<"in+1">>, <<"i+1">>,
             <<"forFB">>, <<"k+1">>, <<"case">>, <<"s+1">>, <<"d:=1">>},
  kind |-> [n \in {"c:=", "b:=1", "b:=2", "g:=", "d:=1"} |-> "assign"] @@
           [n \in {"outer", "inner"} |-> "term"] @@
           [n \in {"callInLoop", "callFB"} |-> "invoke"] @@
           [n \in {"return", "returnF"} |-> "return"] @@
           [n \in {"a+1", "c<1", "in+1", "i+1", "k+1", "s+1"} |-> "expression"] @@
           [n \in {"for", "forFB"} |-> "for"] @@ ("repeat" :> "repeat") @@
           ("while" :> "while") @@ ("exit" :> "exit") @@ ("ifF" :> "if") @@ ("case" :> "case"),
  operands |-> ("c:=" :> <<"outer">>) @@ ("outer" :> <<NULL, "inner">>) @@
               ("inner" :> <<"a+1">>) @@ ("g:=" :> <<"in+1">>) @@ ("while" :> <<"c<1">>) @@
               ("callFB" :> <<"i+1">>) @@ ("forFB" :> <<"k+1", NULL, NULL>>) @@
               ("case" :> <<"s+1">>),
  body |-> ("for" :> "callInLoop") @@ ("while" :> "exit") @@ ("repeat" :> "b:=2") @@
           ("forFB" :> "case"),
  branches |-> ("ifF" :> {"returnF", NULL}) @@ ("case" :> {"d:=1", NULL}),
  callee |-> ("callInLoop" :> "f") @@ [n \in {"outer", "inner"} |-> "g"] @@
             ("callFB" :> "fb"),
  entry |-> ("f" :> "ifF") @@ ("g" :> "g:=") @@ ("fb" :> "forFB"),
  blocks |-> {"fb"},
  faulty |-> {"b:=2", "outer", "callFB", "case", "d:=1", "forFB", "k+1"}]
=============================================================================
