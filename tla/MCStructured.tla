--------------------------- MODULE MCStructured ----------------------------
(***************************************************************************)
(* A disciplined program.                                                  *)
(*                                                                         *)
(* The plant program calls a function block instance in a FOR loop, as     *)
(* tests/programs/function_blocks/simple.ST does, and has every construct  *)
(* somewhere: nested loops with EXIT at each level, calls in callees, a    *)
(* RETURN in a branch of a callee, stepped conditions, bounds, parameters. *)
(*   ;                                                                     *)
(*   FOR i := 1 TO i+n BY k+1 DO  fb(in := 1);  IF c THEN EXIT; END_IF;    *)
(*   END_FOR;                                                              *)
(*   p();  g(x+1);                                                         *)
(*   WHILE x<3 DO  REPEAT  CASE y OF 1: EXIT; 2: a := 1; END_CASE;         *)
(*                 UNTIL y>3 END_REPEAT;  END_WHILE;                       *)
(*   fb:  a := b+c;  IF d THEN RETURN; ELSIF d<1 THEN a := 2; END_IF;      *)
(*        g(2);  WHILE e DO EXIT; END_WHILE;                               *)
(*   p:   g(3);  IF d THEN RETURN; END_IF;                                 *)
(*   g:   CAST(4);  IF d THEN RETURN; ELSE a := 5; END_IF;                 *)
(***************************************************************************)
EXTENDS Structured, ProgramTree

PlantLists == {
  <<"empty", "for", "callP", "callG", "while">>,
  <<"to">>, <<"by">>, <<"callFB", "ifExit">>, <<"exitFor">>,
  <<"x+1">>, <<"x<3">>, <<"repeat">>, <<"y>3">>, <<"case">>, <<"exitRepeat">>, <<"a:=1">>,
  <<"a:=b+c", "ifFB", "fbCallsG", "whileFB">>, <<"b+c">>, <<"returnFB">>,
  <<"elsifFB">>, <<"d<1">>, <<"a:=2">>, <<"exitFB">>,
  <<"pCallsG", "ifP">>, <<"returnP">>,
  <<"cast", "ifG">>, <<"returnG">>, <<"a:=5">>}

PlantKind ==
  [n \in {"callP", "callG", "callFB", "fbCallsG", "pCallsG", "cast"} |-> "invoke"] @@
  [n \in {"to", "by", "x+1", "x<3", "y>3", "b+c", "d<1"} |-> "expression"] @@
  [n \in {"a:=1", "a:=b+c", "a:=2", "a:=5"} |-> "assign"] @@
  [n \in {"ifExit", "ifFB", "elsifFB", "ifP", "ifG"} |-> "if"] @@
  [n \in {"exitFor", "exitRepeat", "exitFB"} |-> "exit"] @@
  [n \in {"returnFB", "returnP", "returnG"} |-> "return"] @@
  [n \in {"while", "whileFB"} |-> "while"] @@
  ("empty" :> "empty") @@ ("for" :> "for") @@ ("repeat" :> "repeat") @@ ("case" :> "case")

PlantOperands ==
  ("for" :> <<NULL, "to", "by">>) @@ ("while" :> <<"x<3">>) @@ ("repeat" :> <<"y>3">>) @@
  ("a:=b+c" :> <<"b+c">>) @@ ("elsifFB" :> <<"d<1">>) @@
  ("callG" :> <<"x+1">>) @@ ("callP" :> <<>>)

PlantBody ==
  ("for" :> "callFB") @@ ("while" :> "repeat") @@ ("repeat" :> "case") @@ ("whileFB" :> "exitFB")

PlantBranches ==
  ("ifExit" :> {"exitFor", NULL}) @@ ("case" :> {"exitRepeat", "a:=1", NULL}) @@
  ("ifFB" :> {"returnFB", "elsifFB"}) @@ ("elsifFB" :> {"a:=2", NULL}) @@
  ("ifP" :> {"returnP", NULL}) @@ ("ifG" :> {"returnG", "a:=5"})

PlantCallee ==
  ("callP" :> "p") @@ ("callFB" :> "fb") @@ ("cast" :> "CAST") @@
  [n \in {"callG", "fbCallsG", "pCallsG"} |-> "g"]

PlantEntry ==
  ("fb" :> "a:=b+c") @@ ("p" :> "pCallsG") @@ ("g" :> "cast") @@ ("CAST" :> NULL)

Plant == [
  first |-> "empty", lists |-> PlantLists, kind |-> PlantKind,
  operands |-> PlantOperands, body |-> PlantBody, branches |-> PlantBranches,
  callee |-> PlantCallee, entry |-> PlantEntry, blocks |-> {"fb"},
  faulty |-> {"b+c", "a:=2", "case", "for", "callG", "cast"}]

=============================================================================
