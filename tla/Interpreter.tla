---------------------------- MODULE Interpreter ----------------------------
(***************************************************************************)
(* The interpreter of esstee: the step functions of the statements and of  *)
(* the expressions that call functions, run by the cursor.  One action is  *)
(* one call of a step function together with what cursor_step does with    *)
(* its result.  A step function is a switch on invoke_state whose cases    *)
(* fall through; each disjunct below is one path through it.               *)
(***************************************************************************)
EXTENDS Cursor

CONSTANTS
  Resume,   \* does the embedding run cycles after a failed one?
  Leftover  \* what the memory of a new program may hold: invoke_states nobody
            \* has written yet.  Any int is possible; the step functions tell
            \* apart 0..6 (0, 1 and the rest in a call, 2 being the rest)

ASSUME RunAssumption ==
  /\ Resume \in BOOLEAN
  /\ Leftover \subseteq [state : [Nodes -> 0..6], args : [Nodes -> Nat],
                          callee : [Callees -> 0..1]]
  /\ \A g \in Leftover : \A n \in Calls : g.state[n] \in 0..2

\* The node the cursor is about to step.
Stepping(n, kind) ==
  /\ outcome = "running" /\ ~Tangled
  /\ current = n
  /\ Kind[n] = kind

\* Node n has set its own invoke_state to s.
Now(n, s) == [state EXCEPT ![n] = s]

Descend(n, s, part) == SwitchCurrent(part, Now(n, s), argsDone, calleeState)

Finish(n, s) == FinishNode(n, callStack, Now(n, s), argsDone, calleeState)

\* The operands after the first `done' that have something to step.
OperandsLeft(n, done) ==
  {i \in (done + 1)..Len(Operands[n]) : Operands[n][i] # NULL}

-----------------------------------------------------------------------------
\* empty_statement_step
EmptyStep(n) ==
  /\ Stepping(n, "empty")
  /\ Finish(n, state[n])
  /\ UNCHANGED contexts

(***************************************************************************)
(* Assignments and expressions step their operands in order, state being   *)
(* the number of the last one stepped, and then compute, which may fail.   *)
(***************************************************************************)
Evaluate(n) ==
  LET left == OperandsLeft(n, state[n])
  IN /\ \/ \E i \in left : (\A k \in left : i <= k) /\ Descend(n, i, Operands[n][i])
        \/ left = {} /\ Finish(n, state[n])
        \/ left = {} /\ n \in Faulty /\ FailNode(state, argsDone)
     /\ UNCHANGED contexts

AssignStep(n) == Stepping(n, "assign") /\ Evaluate(n)

ExpressionStep(n) == Stepping(n, "expression") /\ Evaluate(n)

(***************************************************************************)
(* IF and CASE: 0 -> the condition or selector -> 1 -> a branch -> 2 ->    *)
(* finished.                                                               *)
(***************************************************************************)
Ask(n) ==
  state[n] = 0 /\ Operands[n][1] # NULL /\ Descend(n, 1, Operands[n][1])

Chosen(n) == state[n] = 1 \/ (state[n] = 0 /\ Operands[n][1] = NULL)

Select(n) ==
  \/ Ask(n)
  \/ Chosen(n) /\ \E b \in Branches[n] \ {NULL} : Descend(n, 2, b)
  \/ Chosen(n) /\ NULL \in Branches[n] /\ Finish(n, 2)
  \/ state[n] = 2 /\ Finish(n, 2)

IfStep(n) == Stepping(n, "if") /\ Select(n) /\ UNCHANGED contexts

CaseStep(n) ==
  /\ Stepping(n, "case")
  /\ Select(n) \/ (Chosen(n) /\ n \in Faulty /\ FailNode(state, argsDone))
  /\ UNCHANGED contexts

-----------------------------------------------------------------------------
\* Case 0 of every loop registers it for EXIT and falls through.
ExitContextsIn(n) ==
  IF state[n] = 0 THEN Prepend(exitContext, n) ELSE exitContext

LoopGoesOn(n) == exitContext' = ExitContextsIn(n) /\ UNCHANGED returnContext

\* Mutant: the loop stays registered.
LoopEndsRegistered(n) == exitContext' = ExitContextsIn(n) /\ UNCHANGED returnContext

LoopEnds(n) ==
  exitContext' = DeleteHead(ExitContextsIn(n)) /\ UNCHANGED returnContext

(***************************************************************************)
(* WHILE: 0, 1 -> the condition -> 2 -> the body -> 1.                     *)
(***************************************************************************)
WhileTested(n) == state[n] = 2 \/ (state[n] \in {0, 1} /\ Operands[n][1] = NULL)

WhileIterates(n) ==
  /\ Stepping(n, "while")
  /\ \/ /\ state[n] \in {0, 1} /\ Operands[n][1] # NULL
        /\ Descend(n, 2, Operands[n][1])
     \/ WhileTested(n) /\ Descend(n, 1, Body[n])
  /\ LoopGoesOn(n)

WhileEnds(n) ==
  /\ Stepping(n, "while")
  /\ WhileTested(n) /\ Finish(n, state[n])
  /\ LoopEnds(n)

(***************************************************************************)
(* REPEAT: 0, 1 -> the body -> 2 -> the condition -> 3 -> stepped again in *)
(* state 1, or finished.                                                   *)
(***************************************************************************)
RepeatTested(n) == state[n] = 3 \/ (state[n] = 2 /\ Operands[n][1] = NULL)

RepeatIterates(n) ==
  /\ Stepping(n, "repeat")
  /\ \/ state[n] \in {0, 1} /\ Descend(n, 2, Body[n])
     \/ /\ state[n] = 2 /\ Operands[n][1] # NULL
        /\ Descend(n, 3, Operands[n][1])
     \/ RepeatTested(n) /\ StayAt(Now(n, 1))
  /\ LoopGoesOn(n)

RepeatEnds(n) ==
  /\ Stepping(n, "repeat")
  /\ RepeatTested(n) /\ Finish(n, state[n])
  /\ LoopEnds(n)

(***************************************************************************)
(* FOR: 0 -> FROM -> 1 -> assign, TO -> 3 -> compare -> the body -> 5 ->   *)
(* BY -> 6 -> add -> stepped again in state 2, which evaluates TO anew.    *)
(***************************************************************************)
From(n) == Operands[n][1]
To(n) == Operands[n][2]
By(n) == Operands[n][3]

ForAssigns(n) == state[n] = 1 \/ (state[n] = 0 /\ From(n) = NULL)
ForTested(n) == state[n] = 3 \/ ((ForAssigns(n) \/ state[n] = 2) /\ To(n) = NULL)
ForAdds(n) == state[n] = 6 \/ (state[n] = 5 /\ By(n) = NULL)

ForIterates(n) ==
  /\ Stepping(n, "for")
  /\ \/ state[n] = 0 /\ From(n) # NULL /\ Descend(n, 1, From(n))
     \/ (ForAssigns(n) \/ state[n] = 2) /\ To(n) # NULL /\ Descend(n, 3, To(n))
     \/ ForTested(n) /\ Descend(n, 5, Body[n])
     \/ state[n] = 5 /\ By(n) # NULL /\ Descend(n, 6, By(n))
     \/ ForAdds(n) /\ StayAt(Now(n, 2))
  /\ LoopGoesOn(n)

ForFails(n) ==
  /\ Stepping(n, "for") /\ n \in Faulty
  /\ ForAssigns(n) \/ ForAdds(n)
  /\ FailNode(state, argsDone)
  /\ LoopGoesOn(n)

ForEnds(n) ==
  /\ Stepping(n, "for")
  /\ ForTested(n) /\ Finish(n, state[n])
  /\ LoopEnds(n)

-----------------------------------------------------------------------------
(***************************************************************************)
(* Calls: an invocation statement (of a function or of a function block    *)
(* instance) and a function invocation inside an expression take the same  *)
(* steps.  Case 0 pushes the return context and steps the parameters, one  *)
(* per visit; with parameters it ends in state 1, without it stays in 0.   *)
(* Case 1 steps the callee.                                                *)
(***************************************************************************)
ReturnContextsIn(n) ==
  IF state[n] = 0 THEN Prepend(returnContext, n) ELSE returnContext

\* The parameters still to be stepped: the first one whose invoke_state is 0
\* and what follows it.
ParametersLeft(n) ==
  IF state[n] # 0 THEN {} ELSE OperandsLeft(n, argsDone[n])

CallStepsParameter(n) ==
  /\ \E i \in ParametersLeft(n) :
       /\ \A k \in ParametersLeft(n) : i <= k
       /\ SwitchCurrent(Operands[n][i], state, [argsDone EXCEPT ![n] = i], calleeState)
  /\ returnContext' = ReturnContextsIn(n)
  /\ UNCHANGED exitContext

\* Case 0 is done with the parameters, or the node was in case 1 already.
StepsCallee(n) == state[n] \in {0, 1} /\ ParametersLeft(n) = {}

StateAtCallee(n) == IF Operands[n] = <<>> THEN state ELSE Now(n, 1)

ArgsAtCallee(n) ==
  IF state[n] = 0 THEN [argsDone EXCEPT ![n] = Len(Operands[n])] ELSE argsDone

Idle(f) == calleeState[f] = 0

\* user_function_step, user_fb_value_invoke_step: the parameters are assigned
\* and the cursor enters the callee's statements.
CallBegins(n) ==
  /\ StepsCallee(n)
  /\ Entry[Callee[n]] # NULL /\ Idle(Callee[n])
  /\ SwitchCurrent(Entry[Callee[n]], StateAtCallee(n), ArgsAtCallee(n),
                   [calleeState EXCEPT ![Callee[n]] = 1])
  /\ returnContext' = ReturnContextsIn(n)
  /\ UNCHANGED exitContext

\* A parameter does not fit the type of its variable, or a builtin fails.
CallFails(n) ==
  /\ StepsCallee(n) /\ Idle(Callee[n])
  /\ n \in Faulty
  /\ FailNode(StateAtCallee(n), ArgsAtCallee(n))
  /\ returnContext' = ReturnContextsIn(n)
  /\ UNCHANGED exitContext

\* The second visit finds invoke_state > 0: a function clears it ("Otherwise
\* nested calls are not possible"), a function block instance leaves it.
CalleeFinished(f) ==
  IF f \in FunctionBlocks THEN calleeState ELSE [calleeState EXCEPT ![f] = 0]

CallEnds(n) ==
  /\ \/ /\ StepsCallee(n)
        /\ Entry[Callee[n]] = NULL \/ ~Idle(Callee[n])
        /\ FinishNode(n, callStack, Now(n, 2), ArgsAtCallee(n), CalleeFinished(Callee[n]))
     \/ state[n] = 2 /\ Finish(n, 2)
  /\ returnContext' = DeleteHead(ReturnContextsIn(n))
  /\ UNCHANGED exitContext

CallStep(n) == CallStepsParameter(n) \/ CallBegins(n) \/ CallFails(n) \/ CallEnds(n)

InvokeStep(n) == Stepping(n, "invoke") /\ CallStep(n)

TermStep(n) == Stepping(n, "term") /\ CallStep(n)

ExitStep(n) == Stepping(n, "exit") /\ (JumpExit \/ JumpExitCrashes)

ReturnStep(n) ==
  Stepping(n, "return") /\ (JumpReturn \/ AllFinished \/ JumpReturnCrashes)

-----------------------------------------------------------------------------
\* One call of a step function.
Step ==
  \E n \in Nodes :
    \/ EmptyStep(n) \/ AssignStep(n) \/ ExpressionStep(n)
    \/ IfStep(n) \/ CaseStep(n)
    \/ WhileIterates(n) \/ WhileEnds(n)
    \/ RepeatIterates(n) \/ RepeatEnds(n)
    \/ ForIterates(n) \/ ForFails(n) \/ ForEnds(n)
    \/ InvokeStep(n) \/ TermStep(n)
    \/ ExitStep(n) \/ ReturnStep(n)

\* st_run_cycle enters the cycle where the cursor is: at the first statement,
\* or, after a failed cycle, at the node that failed.
RunCycle ==
  /\ outcome = "ready" \/ (outcome = "failed" /\ Resume)
  /\ outcome' = "running"
  /\ start' = current
  /\ UNCHANGED <<state, argsDone, calleeState, current, callStack, contexts>>

\* st_start: user_program_start and switch_cycle_start empty the cursor and
\* reset the first statement, that one only.
Restart ==
  /\ outcome \in {"ready", "failed"}
  /\ ResetNode(First, state, argsDone, calleeState)
  /\ current' = First /\ start' = First
  /\ callStack' = <<>> /\ exitContext' = <<>> /\ returnContext' = <<>>
  /\ outcome' = "ready"

(***************************************************************************)
(* A program has been loaded, linked and started.  The statements and      *)
(* expressions come from malloc and nothing initialises their invoke_state *)
(* before a reset does; st_start has reset the first statement.            *)
(***************************************************************************)
Init ==
  /\ \E g \in Leftover :
       LET cleared == {n \in Owned[First] : Kind[n] # "term"}
           idle == {Callee[n] : n \in Owned[First] \cap Calls}
       IN /\ state = [n \in Nodes |-> IF n \in cleared THEN 0 ELSE g.state[n]]
          /\ argsDone = [n \in Nodes |-> IF n \in Owned[First] THEN 0 ELSE g.args[n]]
          /\ calleeState = [f \in Callees |-> IF f \in idle THEN 0 ELSE g.callee[f]]
  /\ current = First /\ start = First
  /\ callStack = <<>> /\ exitContext = <<>> /\ returnContext = <<>>
  /\ outcome = "ready"

Next == Step \/ RunCycle \/ Restart

Spec == Init /\ [][Next]_vars

(***************************************************************************)
(* run_cycle steps until the cycle is over, so the interpreter never rests *)
(* in the middle; whether a loop ends is the Structured Text program's     *)
(* business, and the liveness properties assume that each of them does.    *)
(***************************************************************************)
LoopStepEnds(n) == WhileEnds(n) \/ RepeatEnds(n) \/ ForEnds(n)

FairSpec ==
  Spec /\ WF_vars(Step) /\ \A n \in Loops : SF_vars(LoopStepEnds(n))

-----------------------------------------------------------------------------
Lists == Seq(Nodes) \cup {<<TANGLED>>}

TypeOK ==
  /\ state \in [Nodes -> 0..6]
  /\ argsDone \in [Nodes -> Nat]
  /\ calleeState \in [Callees -> 0..1]
  /\ current \in Nodes /\ start \in Nodes
  /\ callStack \in Lists /\ exitContext \in Lists /\ returnContext \in Lists
  /\ outcome \in {"ready", "running", "failed", "crashed"}

\* A suspended node waits, by its state st[n] and args[n], for this part of it.
Awaits(st, args, n, part) ==
  \/ n \in Evaluations /\ \E i \in 1..Len(Operands[n]) : st[n] = i /\ part = Operands[n][i]
  \/ n \in Selections /\ st[n] = 1 /\ part = Operands[n][1]
  \/ n \in Selections /\ st[n] = 2 /\ part \in Branches[n]
  \/ /\ Kind[n] = "while"
     /\ <<st[n], part>> \in {<<1, Body[n]>>, <<2, Operands[n][1]>>}
  \/ /\ Kind[n] = "repeat"
     /\ <<st[n], part>> \in {<<2, Body[n]>>, <<3, Operands[n][1]>>}
  \/ /\ Kind[n] = "for"
     /\ <<st[n], part>> \in {<<1, From(n)>>, <<3, To(n)>>, <<5, Body[n]>>, <<6, By(n)>>}
  \/ /\ n \in Calls /\ st[n] = 0
     /\ \E i \in 1..Len(Operands[n]) : args[n] = i /\ part = Operands[n][i]
  \/ /\ n \in Calls /\ st[n] = IF Operands[n] = <<>> THEN 0 ELSE 1
     /\ part = Entry[Callee[n]]

ControlPath == <<current>> \o callStack

\* What is suspended below a node is the node that is waiting for the list it
\* is in, down to the program's own list: when set_current_to_next pops a node,
\* its invoke_state still is that of the part that has finished.
CallStackNests ==
  ~Tangled =>
    /\ \A i \in 1..Len(callStack) :
         Awaits(state, argsDone, ControlPath[i + 1], HeadOf[ControlPath[i]])
    /\ HeadOf[ControlPath[Len(ControlPath)]] = First

\* No EXIT or RETURN looks for a node that is not on the call stack, and no
\* list of the cursor becomes a ring (jump_exit, jump_return, DL_PREPEND2).
NeverCrashes == outcome # "crashed" /\ ~Tangled

\* A RETURN finds the innermost call it is in at the head of the return
\* contexts (invoke_statement_step, function_invocation_term_step, jump_return).
ReturnFindsItsCall ==
  outcome = "running" /\ Kind[current] = "return" =>
    \A i \in 1..Len(callStack) :
      callStack[i] \in Calls /\ (\A j \in 1..(i - 1) : callStack[j] \notin Calls) =>
        returnContext # <<>> /\ returnContext[1] = callStack[i]

\* A cycle that ends leaves the cursor as the first one found it: at the first
\* statement, with nothing suspended and no context registered, whichever way
\* the cycle ended (set_current_to_next, INVOKE_RESULT_ALL_FINISHED).
CleanAtCycleEnd ==
  outcome = "ready" =>
    /\ current = First
    /\ callStack = <<>> /\ exitContext = <<>> /\ returnContext = <<>>

\* Every cycle comes to an end, by its last statement, a RETURN or an error,
\* provided the loops do: no jump, call or context sends the cursor round for
\* ever (the do loops of cursor_step and user_program_run_cycle).
CycleCompletes == outcome = "running" ~> outcome # "running"

-----------------------------------------------------------------------------
\* The calls on the path whose callee's statements have been entered: they run
\* above the call, or have run when control is back at it.
EnteredCalls ==
  {ControlPath[i] : i \in
     {k \in 1..Len(ControlPath) :
        LET c == ControlPath[k]
        IN /\ c \in Calls /\ Entry[Callee[c]] # NULL /\ ~Idle(Callee[c])
           /\ k = 1 \/ HeadOf[ControlPath[k - 1]] = Entry[Callee[c]]}}

Control == INSTANCE StructuredControl WITH
  path <- ControlPath, entered <- EnteredCalls, phase <- outcome

\* The interpreter moves as the control constructs promise: EXIT leaves the
\* innermost loop, RETURN the innermost call, every statement list is run in
\* order and once, no call is over before its callee's statements have run, and
\* a cycle ends after the last statement and not before.
ImplementsStructuredControl == Control!Spec
=============================================================================
