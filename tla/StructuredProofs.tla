-------------------------- MODULE StructuredProofs -------------------------
(***************************************************************************)
(* The interpreter on any program: what the operations on the cursor's     *)
(* lists return, and that its state is well formed after any history of    *)
(* cycles, errors, jumps and restarts.  Then the pointers that these lists *)
(* are.  Then what is true of the cursor on every disciplined program, for *)
(* ever: the lists of contexts are exact, no jump misses its target, a     *)
(* cycle ends with nothing left behind, the control path nests as the      *)
(* statements do and every step is a step of StructuredControl or none.    *)
(***************************************************************************)
EXTENDS Structured, UtList, SequenceTheorems, WellFoundedInduction, TLAPS

-----------------------------------------------------------------------------
(* What the operations on the cursor's lists return, for any elements *)

\* A set of numbers has a least one.
LEMMA Least ==
  ASSUME NEW T, T \subseteq Nat, T # {}
  PROVE  \E x \in T : \A y \in T : x <= y
<1> DEFINE R == {ss \in Nat \X Nat : ss[1] < ss[2]}
<1>1. IsWellFoundedOn(R, Nat)
  BY NatLessThanWellFounded DEF OpToRel
<1>2. \E x \in T : \A y \in T : ~ (<<y, x>> \in R)
  BY <1>1, WFMin
<1>3. \A x \in Nat, y \in Nat : ~ (<<y, x>> \in R) => x <= y
  OBVIOUS
<1> QED BY <1>2, <1>3

\* Position finds the first occurrence.
LEMMA PositionIsFirst ==
  ASSUME NEW S, NEW s \in Seq(S), NEW x \in Elements(s)
  PROVE  /\ Position(s, x) \in 1..Len(s)
         /\ s[Position(s, x)] = x
         /\ \A j \in 1..(Position(s, x) - 1) : s[j] # x
<1> DEFINE T == {i \in 1..Len(s) : s[i] = x}
<1>1. T \subseteq Nat /\ T # {}
  BY DEF Elements
<1>2. PICK i \in T : \A k \in T : i <= k
  BY <1>1, Least
<1>3. i \in 1..Len(s) /\ s[i] = x /\ \A j \in 1..(i - 1) : s[j] # x
  <2> SUFFICES ASSUME NEW j \in 1..(i - 1) PROVE s[j] # x
    BY <1>2
  <2>1. j \in 1..Len(s) /\ ~ (i <= j)
    OBVIOUS
  <2> QED BY <2>1, <1>2
<1> QED BY <1>3 DEF Position

LEMMA PrependType ==
  ASSUME NEW S, NEW s \in Seq(S), NEW x \in S
  PROVE  Prepend(s, x) \in Seq(S) \cup {<<TANGLED>>}
BY DEF Prepend

LEMMA DeleteHeadType ==
  ASSUME NEW S, NEW s \in Seq(S)
  PROVE  DeleteHead(s) \in Seq(S)
BY DEF DeleteHead

LEMMA DeleteHeadTangled == DeleteHead(<<TANGLED>>) = <<TANGLED>>
BY DEF DeleteHead

LEMMA UnwindToType ==
  ASSUME NEW S, NEW s \in Seq(S), NEW x, CanUnwind(s, x)
  PROVE  UnwindTo(s, x) \in Seq(S)
<1>1. CASE s = <<>>
  BY <1>1 DEF UnwindTo
<1>2. CASE s # <<>>
  <2>1. x \in Elements(s)
    BY <1>2 DEF CanUnwind
  <2>2. Position(s, x) \in 1..Len(s)
    BY <2>1, PositionIsFirst
  <2> QED BY <1>2, <2>2 DEF UnwindTo
<1> QED BY <1>1, <1>2

-----------------------------------------------------------------------------
(* The steps of the interpreter *)

\* What ResetNode and its callers pass on.
InvokeTypes(st, ar, cl) ==
  st \in [Nodes -> 0..6] /\ ar \in [Nodes -> Nat] /\ cl \in [Callees -> 0..1]

\* TypeOK without the contexts, which a step function changes apart from what
\* the cursor does.
MoveTypes ==
  /\ InvokeTypes(state, argsDone, calleeState)
  /\ current \in Nodes /\ start \in Nodes
  /\ callStack \in Lists
  /\ outcome \in {"ready", "running", "failed", "crashed"}

ContextTypes == exitContext \in Lists /\ returnContext \in Lists

LEMMA TypeParts == TypeOK <=> MoveTypes /\ ContextTypes
BY DEF TypeOK, MoveTypes, ContextTypes, InvokeTypes

\* While a node is stepped every list is a sequence of nodes.
Running == MoveTypes /\ ContextTypes /\ ~Tangled

LEMMA RunningLists ==
  ASSUME Running
  PROVE  /\ callStack \in Seq(Nodes)
         /\ exitContext \in Seq(Nodes)
         /\ returnContext \in Seq(Nodes)
BY DEF Running, MoveTypes, ContextTypes, Lists, Tangled

-----------------------------------------------------------------------------
\* The movements of the cursor.

LEMMA ResetTypes ==
  ASSUME NEW t, NEW st, NEW ar, NEW cl, InvokeTypes(st, ar, cl), ResetNode(t, st, ar, cl)
  PROVE  InvokeTypes(state, argsDone, calleeState)'
BY DEF InvokeTypes, ResetNode

LEMMA SwitchTypes ==
  ASSUME Running, NEW t \in Nodes, NEW st, NEW ar, NEW cl, InvokeTypes(st, ar, cl),
         SwitchCurrent(t, st, ar, cl)
  PROVE  MoveTypes'
<1>1. InvokeTypes(state, argsDone, calleeState)'
  BY ResetTypes DEF SwitchCurrent
<1>2. callStack' \in Lists
  BY RunningLists, PrependType DEF SwitchCurrent, Running, MoveTypes, Lists
<1> QED BY <1>1, <1>2 DEF SwitchCurrent, Running, MoveTypes

LEMMA FinishTypes ==
  ASSUME Running, NEW m \in Nodes, NEW stack \in Seq(Nodes), NEW st, NEW ar, NEW cl,
         InvokeTypes(st, ar, cl), FinishNode(m, stack, st, ar, cl)
  PROVE  MoveTypes'
<1>1. InvokeTypes(state, argsDone, calleeState)'
  BY ResetTypes DEF FinishNode
<1>2. current' \in Nodes
  <2>1. stack # <<>> => stack[1] \in Nodes
    OBVIOUS
  <2> QED BY <2>1, ProgramTypes DEF FinishNode, Following, Optional
<1>3. callStack' \in Lists
  BY DeleteHeadType DEF FinishNode, Lists
<1>4. start' \in Nodes /\ outcome' \in {"ready", "running", "failed", "crashed"}
  BY <1>2 DEF FinishNode, StepReturns, Running, MoveTypes
<1> QED BY <1>1, <1>2, <1>3, <1>4 DEF MoveTypes

LEMMA StayTypes ==
  ASSUME Running, NEW st \in [Nodes -> 0..6], StayAt(st)
  PROVE  MoveTypes'
BY DEF StayAt, Running, MoveTypes, InvokeTypes

LEMMA FailTypes ==
  ASSUME Running, NEW st \in [Nodes -> 0..6], NEW ar \in [Nodes -> Nat], FailNode(st, ar)
  PROVE  MoveTypes'
BY DEF FailNode, Running, MoveTypes, InvokeTypes

LEMMA CrashTypes ==
  ASSUME Running, Crash
  PROVE  MoveTypes' /\ ContextTypes'
BY DEF Crash, Running, MoveTypes, ContextTypes, InvokeTypes

LEMMA JumpTypes ==
  ASSUME Running, NEW target \in Nodes, JumpTo(target)
  PROVE  MoveTypes'
<1>1. UnwindTo(callStack, target) \in Seq(Nodes)
  BY RunningLists, UnwindToType DEF JumpTo
<1> QED BY <1>1, FinishTypes DEF JumpTo, Running, MoveTypes

\* A step function's own state, and its descent and its end.
LEMMA NowTypes ==
  ASSUME Running, NEW n \in Nodes, NEW s \in 0..6
  PROVE  InvokeTypes(Now(n, s), argsDone, calleeState)
BY DEF Now, Running, MoveTypes, InvokeTypes

LEMMA DescendTypes ==
  ASSUME Running, NEW n \in Nodes, NEW s \in 0..6, NEW part \in Nodes, Descend(n, s, part)
  PROVE  MoveTypes'
BY NowTypes, SwitchTypes DEF Descend

LEMMA EndTypes ==
  ASSUME Running, NEW n \in Nodes, NEW s \in 0..6, Finish(n, s)
  PROVE  MoveTypes'
BY NowTypes, FinishTypes, RunningLists DEF Finish

LEMMA StateType == ASSUME Running, NEW n \in Nodes PROVE state[n] \in 0..6
BY DEF Running, MoveTypes, InvokeTypes

\* The contexts a step function pushes to and pops from.
LEMMA ExitContextTypes ==
  ASSUME Running, NEW n \in Nodes, LoopGoesOn(n) \/ LoopEnds(n)
  PROVE  ContextTypes'
<1>1. ExitContextsIn(n) \in Lists
  BY RunningLists, PrependType DEF ExitContextsIn, Lists
<1>2. DeleteHead(ExitContextsIn(n)) \in Lists
  BY <1>1, DeleteHeadType, DeleteHeadTangled DEF Lists
<1> QED BY <1>1, <1>2 DEF LoopGoesOn, LoopEnds, Running, ContextTypes

LEMMA ReturnContextTypes ==
  ASSUME Running, NEW n \in Nodes
  PROVE  ReturnContextsIn(n) \in Lists /\ DeleteHead(ReturnContextsIn(n)) \in Lists
<1>1. ReturnContextsIn(n) \in Lists
  BY RunningLists, PrependType DEF ReturnContextsIn, Lists
<1> QED BY <1>1, DeleteHeadType, DeleteHeadTangled DEF Lists

-----------------------------------------------------------------------------
\* The step functions.

LEMMA EvaluationTypes ==
  ASSUME Running, NEW n \in Evaluations, Evaluate(n)
  PROVE  MoveTypes' /\ ContextTypes'
<1>1. n \in Nodes /\ Operands[n] \in Seq(Optional) /\ Len(Operands[n]) \in 1..6
  BY ProgramTypes, ProgramShape DEF Evaluations
<1>2. state[n] \in 0..6
  BY <1>1, StateType
<1>3. ContextTypes'
  BY DEF Evaluate, contexts, Running, ContextTypes
<1>4. CASE \E i \in OperandsLeft(n, state[n]) : Descend(n, i, Operands[n][i])
  <2> PICK i \in OperandsLeft(n, state[n]) : Descend(n, i, Operands[n][i])
    BY <1>4
  <2>1. i \in 0..6 /\ Operands[n][i] \in Nodes
    BY <1>1, <1>2 DEF OperandsLeft, Optional
  <2> QED BY <1>1, <1>3, <2>1, DescendTypes
<1>5. CASE Finish(n, state[n])
  BY <1>1, <1>2, <1>3, <1>5, EndTypes
<1>6. CASE FailNode(state, argsDone)
  BY <1>3, <1>6, FailTypes DEF Running, MoveTypes, InvokeTypes
<1> QED BY <1>4, <1>5, <1>6 DEF Evaluate

LEMMA SelectionTypes ==
  ASSUME Running, NEW n \in Selections, Select(n)
  PROVE  MoveTypes'
<1>1. n \in Nodes /\ Operands[n] \in Seq(Optional) /\ Len(Operands[n]) = 1
      /\ Branches[n] \subseteq Optional
  BY ProgramTypes, ProgramShape DEF Selections
<1>2. CASE Ask(n)
  BY <1>1, <1>2, DescendTypes DEF Ask, Optional
<1>3. CASE \E b \in Branches[n] \ {NULL} : Descend(n, 2, b)
  BY <1>1, <1>3, DescendTypes DEF Optional
<1>4. CASE Finish(n, 2)
  BY <1>1, <1>4, EndTypes
<1> QED BY <1>2, <1>3, <1>4 DEF Select

LEMMA WhileTypes ==
  ASSUME Running, NEW n \in Loops, WhileIterates(n) \/ WhileEnds(n)
  PROVE  MoveTypes' /\ ContextTypes'
<1>1. n \in Nodes /\ Body[n] \in Nodes
  BY ProgramShape DEF Loops
<1>2. Kind[n] = "while" /\ ContextTypes'
  BY <1>1, ExitContextTypes DEF WhileIterates, WhileEnds, Stepping
<1>3. Operands[n][1] \in Optional
  BY <1>1, <1>2, ProgramTypes, ProgramShape
<1>4. CASE Operands[n][1] # NULL /\ Descend(n, 2, Operands[n][1])
  BY <1>1, <1>2, <1>3, <1>4, DescendTypes DEF Optional
<1>5. CASE Descend(n, 1, Body[n])
  BY <1>1, <1>2, <1>5, DescendTypes
<1>6. CASE Finish(n, state[n])
  BY <1>1, <1>2, <1>6, EndTypes, StateType
<1> QED BY <1>4, <1>5, <1>6 DEF WhileIterates, WhileEnds

LEMMA RepeatTypes ==
  ASSUME Running, NEW n \in Loops, RepeatIterates(n) \/ RepeatEnds(n)
  PROVE  MoveTypes' /\ ContextTypes'
<1>1. n \in Nodes /\ Body[n] \in Nodes
  BY ProgramShape DEF Loops
<1>2. Kind[n] = "repeat" /\ ContextTypes'
  BY <1>1, ExitContextTypes DEF RepeatIterates, RepeatEnds, Stepping
<1>3. Operands[n][1] \in Optional
  BY <1>1, <1>2, ProgramTypes, ProgramShape
<1>4. CASE Descend(n, 2, Body[n])
  BY <1>1, <1>2, <1>4, DescendTypes
<1>5. CASE Operands[n][1] # NULL /\ Descend(n, 3, Operands[n][1])
  BY <1>1, <1>2, <1>3, <1>5, DescendTypes DEF Optional
<1>6. CASE StayAt(Now(n, 1))
  BY <1>1, <1>2, <1>6, NowTypes, StayTypes DEF InvokeTypes
<1>7. CASE Finish(n, state[n])
  BY <1>1, <1>2, <1>7, EndTypes, StateType
<1> QED BY <1>4, <1>5, <1>6, <1>7 DEF RepeatIterates, RepeatEnds

LEMMA ForTypes ==
  ASSUME Running, NEW n \in Loops, ForIterates(n) \/ ForFails(n) \/ ForEnds(n)
  PROVE  MoveTypes' /\ ContextTypes'
<1>1. n \in Nodes /\ Body[n] \in Nodes
  BY ProgramShape DEF Loops
<1>2. Kind[n] = "for" /\ ContextTypes'
  BY <1>1, ExitContextTypes DEF ForIterates, ForFails, ForEnds, Stepping
<1>3. From(n) \in Optional /\ To(n) \in Optional /\ By(n) \in Optional
  BY <1>1, <1>2, ProgramTypes, ProgramShape DEF From, To, By
<1>4. CASE \/ From(n) # NULL /\ Descend(n, 1, From(n))
           \/ To(n) # NULL /\ Descend(n, 3, To(n))
           \/ By(n) # NULL /\ Descend(n, 6, By(n))
  BY <1>1, <1>2, <1>3, <1>4, DescendTypes DEF Optional
<1>5. CASE Descend(n, 5, Body[n])
  BY <1>1, <1>2, <1>5, DescendTypes
<1>6. CASE StayAt(Now(n, 2))
  BY <1>1, <1>2, <1>6, NowTypes, StayTypes DEF InvokeTypes
<1>7. CASE FailNode(state, argsDone)
  BY <1>2, <1>7, FailTypes DEF Running, MoveTypes, InvokeTypes
<1>8. CASE Finish(n, state[n])
  BY <1>1, <1>2, <1>8, EndTypes, StateType
<1> QED BY <1>4, <1>5, <1>6, <1>7, <1>8 DEF ForIterates, ForFails, ForEnds

LEMMA CallTypes ==
  ASSUME Running, NEW n \in Calls, CallStep(n)
  PROVE  MoveTypes' /\ ContextTypes'
<1>1. n \in Nodes /\ Operands[n] \in Seq(Optional) /\ Callee[n] \in Callees
  BY ProgramTypes, ProgramShape DEF Calls
<1>2. InvokeTypes(state, argsDone, calleeState)
  BY DEF Running, MoveTypes
<1>3. StateAtCallee(n) \in [Nodes -> 0..6]
  BY <1>1, <1>2, NowTypes DEF StateAtCallee, InvokeTypes
<1>4. ArgsAtCallee(n) \in [Nodes -> Nat]
  BY <1>1, <1>2 DEF ArgsAtCallee, InvokeTypes
<1>5. CalleeFinished(Callee[n]) \in [Callees -> 0..1]
  BY <1>1, <1>2 DEF CalleeFinished, InvokeTypes
<1>6. CASE CallStepsParameter(n)
  <2> PICK i \in ParametersLeft(n) :
        SwitchCurrent(Operands[n][i], state, [argsDone EXCEPT ![n] = i], calleeState)
    BY <1>6 DEF CallStepsParameter
  <2>1. i \in Nat /\ Operands[n][i] \in Nodes
    BY <1>1, <1>2 DEF ParametersLeft, OperandsLeft, InvokeTypes, Optional
  <2>2. InvokeTypes(state, [argsDone EXCEPT ![n] = i], calleeState)
    BY <1>2, <2>1 DEF InvokeTypes
  <2>3. MoveTypes'
    BY <2>1, <2>2, SwitchTypes
  <2> QED BY <1>1, <1>6, <2>3, ReturnContextTypes DEF CallStepsParameter, Running, ContextTypes
<1>7. CASE CallBegins(n)
  <2>1. Entry[Callee[n]] \in Nodes
    BY <1>1, <1>7, ProgramTypes DEF CallBegins, Optional
  <2>2. [calleeState EXCEPT ![Callee[n]] = 1] \in [Callees -> 0..1]
    BY <1>1, <1>2 DEF InvokeTypes
  <2>3. InvokeTypes(StateAtCallee(n), ArgsAtCallee(n), [calleeState EXCEPT ![Callee[n]] = 1])
    BY <1>3, <1>4, <2>2 DEF InvokeTypes
  <2>4. MoveTypes'
    BY <1>7, <2>1, <2>3, SwitchTypes DEF CallBegins
  <2> QED BY <1>1, <1>7, <2>4, ReturnContextTypes DEF CallBegins, Running, ContextTypes
<1>8. CASE CallFails(n)
  <2>1. MoveTypes'
    BY <1>3, <1>4, <1>8, FailTypes DEF CallFails
  <2> QED BY <1>1, <1>8, <2>1, ReturnContextTypes DEF CallFails, Running, ContextTypes
<1>9. CASE CallEnds(n)
  <2>1. ASSUME FinishNode(n, callStack, Now(n, 2), ArgsAtCallee(n), CalleeFinished(Callee[n]))
        PROVE  MoveTypes'
    <3>1. InvokeTypes(Now(n, 2), ArgsAtCallee(n), CalleeFinished(Callee[n]))
      BY <1>1, <1>4, <1>5, NowTypes DEF InvokeTypes
    <3> QED BY <1>1, <2>1, <3>1, FinishTypes, RunningLists
  <2>2. ASSUME Finish(n, 2) PROVE MoveTypes'
    BY <1>1, <2>2, EndTypes
  <2>3. MoveTypes'
    BY <1>9, <2>1, <2>2 DEF CallEnds
  <2> QED BY <1>1, <1>9, <2>3, ReturnContextTypes DEF CallEnds, Running, ContextTypes
<1> QED BY <1>6, <1>7, <1>8, <1>9 DEF CallStep

LEMMA ExitTypes ==
  ASSUME Running, NEW n \in Nodes, ExitStep(n)
  PROVE  MoveTypes' /\ ContextTypes'
<1>1. CASE JumpExit
  <2>1. exitContext[1] \in Nodes /\ exitContext' \in Lists
    BY <1>1, RunningLists, DeleteHeadType DEF JumpExit, Lists
  <2> QED BY <1>1, <2>1, JumpTypes DEF JumpExit, Running, ContextTypes
<1>2. CASE JumpExitCrashes
  BY <1>2, CrashTypes DEF JumpExitCrashes
<1> QED BY <1>1, <1>2 DEF ExitStep

LEMMA ReturnTypes ==
  ASSUME Running, NEW n \in Nodes, ReturnStep(n)
  PROVE  MoveTypes' /\ ContextTypes'
<1>1. CASE JumpReturn
  <2>1. returnContext[1] \in Nodes /\ returnContext' \in Lists
    BY <1>1, RunningLists, DeleteHeadType DEF JumpReturn, Lists
  <2> QED BY <1>1, <2>1, JumpTypes DEF JumpReturn, Running, ContextTypes
<1>2. CASE AllFinished
  BY <1>2, ProgramTypes DEF AllFinished, Running, MoveTypes, ContextTypes, InvokeTypes
<1>3. CASE JumpReturnCrashes
  BY <1>3, CrashTypes DEF JumpReturnCrashes
<1> QED BY <1>1, <1>2, <1>3 DEF ReturnStep

LEMMA StepTypes ==
  ASSUME TypeOK, Step
  PROVE  TypeOK'
<1> SUFFICES MoveTypes' /\ ContextTypes'
  BY DEF TypeOK, MoveTypes, ContextTypes, InvokeTypes
<1> PICK n \in Nodes :
      \/ EmptyStep(n) \/ AssignStep(n) \/ ExpressionStep(n)
      \/ IfStep(n) \/ CaseStep(n)
      \/ WhileIterates(n) \/ WhileEnds(n)
      \/ RepeatIterates(n) \/ RepeatEnds(n)
      \/ ForIterates(n) \/ ForFails(n) \/ ForEnds(n)
      \/ InvokeStep(n) \/ TermStep(n)
      \/ ExitStep(n) \/ ReturnStep(n)
  BY DEF Step
<1>1. ~Tangled
  BY DEF Stepping, EmptyStep, AssignStep, ExpressionStep, IfStep, CaseStep,
       WhileIterates, WhileEnds, RepeatIterates, RepeatEnds, ForIterates, ForFails,
       ForEnds, InvokeStep, TermStep, ExitStep, ReturnStep
<1>2. Running
  BY <1>1, TypeParts DEF Running
<1>3. UNCHANGED contexts => ContextTypes'
  BY <1>2 DEF contexts, Running, ContextTypes
<1>4. CASE EmptyStep(n)
  <2>1. Finish(n, state[n]) /\ UNCHANGED contexts
    BY <1>4 DEF EmptyStep
  <2>2. state[n] \in 0..6
    BY <1>2, StateType
  <2> QED BY <1>2, <1>3, <2>1, <2>2, EndTypes
<1>5. CASE AssignStep(n) \/ ExpressionStep(n)
  <2>1. n \in Evaluations /\ Evaluate(n)
    BY <1>5 DEF AssignStep, ExpressionStep, Stepping, Evaluations
  <2> QED BY <1>2, <2>1, EvaluationTypes
<1>6. CASE IfStep(n)
  <2>1. n \in Selections /\ Select(n) /\ UNCHANGED contexts
    BY <1>6 DEF IfStep, Stepping, Selections
  <2> QED BY <1>2, <1>3, <2>1, SelectionTypes
<1>7. CASE CaseStep(n)
  <2>1. n \in Selections /\ UNCHANGED contexts
    BY <1>7 DEF CaseStep, Stepping, Selections
  <2>2. Select(n) \/ FailNode(state, argsDone)
    BY <1>7 DEF CaseStep
  <2>3. FailNode(state, argsDone) => MoveTypes'
    BY <1>2, FailTypes DEF Running, MoveTypes, InvokeTypes
  <2> QED BY <1>2, <1>3, <2>1, <2>2, <2>3, SelectionTypes
<1>8. CASE WhileIterates(n) \/ WhileEnds(n)
  <2>1. n \in Loops
    BY <1>8 DEF WhileIterates, WhileEnds, Stepping, Loops
  <2> QED BY <1>2, <1>8, <2>1, WhileTypes
<1>9. CASE RepeatIterates(n) \/ RepeatEnds(n)
  <2>1. n \in Loops
    BY <1>9 DEF RepeatIterates, RepeatEnds, Stepping, Loops
  <2> QED BY <1>2, <1>9, <2>1, RepeatTypes
<1>10. CASE ForIterates(n) \/ ForFails(n) \/ ForEnds(n)
  <2>1. n \in Loops
    BY <1>10 DEF ForIterates, ForFails, ForEnds, Stepping, Loops
  <2> QED BY <1>2, <1>10, <2>1, ForTypes
<1>11. CASE InvokeStep(n) \/ TermStep(n)
  <2>1. n \in Calls /\ CallStep(n)
    BY <1>11 DEF InvokeStep, TermStep, Stepping, Calls
  <2> QED BY <1>2, <2>1, CallTypes
<1>12. CASE ExitStep(n)
  BY <1>2, <1>12, ExitTypes
<1>13. CASE ReturnStep(n)
  BY <1>2, <1>13, ReturnTypes
<1> QED
  BY <1>4, <1>5, <1>6, <1>7, <1>8, <1>9, <1>10, <1>11, <1>12, <1>13

LEMMA InitTypes == Init => TypeOK
<1> SUFFICES ASSUME Init PROVE TypeOK
  OBVIOUS
<1>1. InvokeTypes(state, argsDone, calleeState)
  BY RunAssumption DEF Init, InvokeTypes
<1> QED BY <1>1, ProgramTypes DEF Init, TypeOK, InvokeTypes, Lists

LEMMA NextTypes ==
  ASSUME TypeOK, [Next]_vars
  PROVE  TypeOK'
<1>1. CASE Step
  BY <1>1, StepTypes
<1>2. CASE RunCycle
  BY <1>2 DEF RunCycle, TypeOK, contexts
<1>3. CASE Restart
  <2>1. InvokeTypes(state, argsDone, calleeState)'
    BY <1>3, ResetTypes DEF Restart, TypeOK, InvokeTypes
  <2> QED BY <1>3, <2>1, ProgramTypes DEF Restart, TypeOK, InvokeTypes, Lists
<1>4. CASE UNCHANGED vars
  BY <1>4 DEF vars, TypeOK
<1> QED BY <1>1, <1>2, <1>3, <1>4 DEF Next

-----------------------------------------------------------------------------
\* Whatever the program does, however its cycles end, are resumed or restarted,
\* and whatever its memory held before: every invoke_state stays in the range
\* its switch knows, the cursor points to a node of the program, never to NULL
\* (cursor_step, set_current_to_next), and its lists hold nodes or are tangled.
THEOREM TypeCorrect == Spec => []TypeOK
<1>1. TypeOK /\ [Next]_vars => TypeOK'
  BY NextTypes
<1> QED BY <1>1, InitTypes, PTL DEF Spec

-----------------------------------------------------------------------------
(* The pointers that the sequences of the cursor's lists stand for: UtList, *)
(* for any set of elements and any garbage in the fields.                   *)

\* DL_PREPEND2 of an element that is not in the list, on a list of elements:
\* the sequence grows by one at its head.
LEMMA PrependNew ==
  ASSUME NEW x \in Element, NEW s \in Seq(Element), x \notin Elements(s)
  PROVE  /\ Prepend(s, x) = <<x>> \o s
         /\ Prepend(s, x) \in Seq(Element)
         /\ Len(Prepend(s, x)) = Len(s) + 1
         /\ Prepend(s, x)[1] = x
         /\ \A i \in 2..(Len(s) + 1) : Prepend(s, x)[i] = s[i - 1]
  BY DEF Prepend

LEMMA ListTypeCorrect == ListSpec => []ListTypeOK
<1>1. ListInit => ListTypeOK
  BY DEF ListInit, ListTypeOK, Pointer
<1>2. ListTypeOK /\ [ListNext]_listVars => ListTypeOK'
  <2> SUFFICES ASSUME ListTypeOK, [ListNext]_listVars PROVE ListTypeOK'
    OBVIOUS
  <2>1. CASE PrependStep
    <3> PICK x \in Element : spelled # <<TANGLED>> /\ DLPrepend(x) /\ spelled' = Prepend(spelled, x)
      BY <2>1 DEF PrependStep
    <3>1. listHead' \in Pointer /\ nextOf' \in [Element -> Pointer] /\ prevOf' \in [Element -> Pointer]
      BY DEF ListTypeOK, DLPrepend, Pointer
    <3>2. spelled' \in Seq(Element) \cup {<<TANGLED>>}
      BY DEF ListTypeOK, Prepend
    <3> QED BY <3>1, <3>2 DEF ListTypeOK
  <2>2. CASE DeleteStep
    <3>1. listHead' \in Pointer /\ nextOf' \in [Element -> Pointer] /\ prevOf' \in [Element -> Pointer]
      BY <2>2 DEF ListTypeOK, DeleteStep, DLDeleteHead, Pointer
    <3>2. spelled' \in Seq(Element) \cup {<<TANGLED>>}
      BY <2>2 DEF ListTypeOK, DeleteStep, DeleteHead
    <3> QED BY <3>1, <3>2 DEF ListTypeOK
  <2>3. CASE UNCHANGED listVars
    BY <2>3 DEF ListTypeOK, listVars
  <2> QED BY <2>1, <2>2, <2>3 DEF ListNext
<1> QED BY <1>1, <1>2, PTL DEF ListSpec

-----------------------------------------------------------------------------
ListGood == ListTypeOK /\ Represents /\ NoDuplicates

\* Prepending an element that is not linked.
LEMMA PrependsNew ==
  ASSUME ListGood, NEW x \in Element, spelled # <<TANGLED>>, DLPrepend(x),
         spelled' = Prepend(spelled, x), x \notin Elements(spelled)
  PROVE  Represents' /\ NoDuplicates'
<1>1. spelled \in Seq(Element) /\ Spells(spelled)
  BY DEF ListGood, ListTypeOK, Represents
<1>2. /\ Len(spelled') = Len(spelled) + 1 /\ spelled'[1] = x /\ spelled' \in Seq(Element)
      /\ \A i \in 2..(Len(spelled) + 1) : spelled'[i] = spelled[i - 1]
  BY <1>1, PrependNew
<1>3. \A i \in 1..Len(spelled) : spelled[i] # x /\ spelled[i] \in Element
  BY <1>1 DEF Elements
<1>4. spelled' # <<TANGLED>>
  BY <1>2, PointerAssumption
<1>5. Spells(spelled)'
  <2>1. CASE spelled = <<>>
    BY <2>1, <1>1, <1>2 DEF Spells, DLPrepend, ListGood, ListTypeOK
  <2>2. CASE spelled # <<>>
    <3>1. listHead = spelled[1] /\ prevOf[listHead] = spelled[Len(spelled)] /\ Len(spelled) \in Nat /\ Len(spelled) > 0
      BY <2>2, <1>1 DEF Spells
    <3>2. listHead # NoElement /\ listHead # x /\ listHead \in Element
      BY <3>1, <1>3, PointerAssumption
    <3>3. listHead' = spelled'[1] /\ prevOf'[spelled'[1]] = spelled'[Len(spelled')]
      BY <3>1, <3>2, <1>2 DEF DLPrepend, ListGood, ListTypeOK
    <3>4. ASSUME NEW i \in 1..(Len(spelled') - 1) PROVE nextOf'[spelled'[i]] = spelled'[i + 1]
      <4>1. CASE i = 1
        BY <4>1, <3>1, <1>2 DEF DLPrepend, ListGood, ListTypeOK
      <4>2. CASE i # 1
        <5>1. spelled'[i] = spelled[i - 1] /\ spelled'[i + 1] = spelled[i] /\ i - 1 \in 1..(Len(spelled) - 1)
          BY <4>2, <3>1, <1>2
        <5>2. nextOf[spelled[i - 1]] = spelled[(i - 1) + 1]
          BY <5>1, <1>1, <2>2 DEF Spells
        <5>3. nextOf'[spelled[i - 1]] = nextOf[spelled[i - 1]]
          BY <5>1, <3>1, <1>3 DEF DLPrepend, ListGood, ListTypeOK
        <5> QED BY <5>1, <5>2, <5>3
      <4> QED BY <4>1, <4>2
    <3> QED BY <3>3, <3>4, <1>2, <3>1 DEF Spells
  <2> QED BY <2>1, <2>2
<1>6. NoDuplicates'
  <2> SUFFICES ASSUME NEW i \in 1..Len(spelled'), NEW j \in 1..Len(spelled'), i < j
               PROVE spelled'[i] # spelled'[j]
    BY <1>2 DEF NoDuplicates
  <2>1. spelled'[j] = spelled[j - 1] /\ j - 1 \in 1..Len(spelled)
    BY <1>2, <1>1
  <2>2. CASE i = 1
    BY <2>2, <2>1, <1>2, <1>3
  <2>3. CASE i # 1
    <3>1. spelled'[i] = spelled[i - 1] /\ i - 1 \in 1..Len(spelled)
      BY <2>3, <1>2, <1>1
    <3> QED BY <3>1, <2>1 DEF ListGood, NoDuplicates
  <2> QED BY <2>2, <2>3
<1> QED BY <1>4, <1>5, <1>6 DEF Represents

\* Prepending the head or the last element again: what is left is a list of one.
LEMMA PrependsEnd ==
  ASSUME ListGood, NEW x \in Element, spelled # <<TANGLED>>, DLPrepend(x),
         spelled' = Prepend(spelled, x), x \in Elements(spelled), x \in {spelled[1], spelled[Len(spelled)]}
  PROVE  Represents' /\ NoDuplicates'
<1>1. spelled' = <<x>> /\ spelled' # <<TANGLED>>
  BY PointerAssumption DEF Prepend
<1>2. spelled \in Seq(Element) /\ Spells(spelled) /\ spelled # <<>>
  BY DEF ListGood, ListTypeOK, Represents, Elements
<1>3. listHead = spelled[1] /\ prevOf[listHead] = spelled[Len(spelled)] /\ listHead \in Element
  BY <1>2 DEF Spells
<1>4. listHead' = x /\ prevOf'[x] = x
  BY <1>3, PointerAssumption DEF DLPrepend, ListGood, ListTypeOK
<1> QED BY <1>1, <1>4 DEF Represents, Spells, NoDuplicates

\* Prepending an element from inside: it and the elements before it close a
\* ring, and the head's prev still is the last element, outside of it.
LEMMA PrependsInner ==
  ASSUME ListGood, NEW x \in Element, spelled # <<TANGLED>>, DLPrepend(x),
         spelled' = Prepend(spelled, x), x \in Elements(spelled), x \notin {spelled[1], spelled[Len(spelled)]}
  PROVE  Represents' /\ NoDuplicates'
<1>1. spelled' = <<TANGLED>>
  BY DEF Prepend
<1>2. spelled \in Seq(Element) /\ Spells(spelled) /\ spelled # <<>>
  BY DEF ListGood, ListTypeOK, Represents, Elements
<1>3. listHead = spelled[1] /\ prevOf[listHead] = spelled[Len(spelled)] /\ listHead \in Element /\ listHead # NoElement
  BY <1>2, PointerAssumption DEF Spells
<1>4. PICK k \in 1..Len(spelled) : x = spelled[k]
  BY DEF Elements
<1>5. k > 1 /\ k < Len(spelled) /\ Len(spelled) \in Nat
  BY <1>4, <1>2
<1> DEFINE S == {spelled[i] : i \in 1..k}
<1>6. S \in SUBSET Element /\ listHead' \in S
  BY <1>2, <1>4 DEF DLPrepend
<1>7. ASSUME NEW y \in S PROVE nextOf'[y] \in S
  <2>1. PICK i \in 1..k : y = spelled[i]
    OBVIOUS
  <2>2. CASE y = x
    BY <2>2, <1>3, <1>5 DEF DLPrepend, ListGood, ListTypeOK
  <2>3. CASE y # x
    <3>1. i < k /\ i \in 1..(Len(spelled) - 1)
      BY <2>1, <2>3, <1>4, <1>5
    <3>2. nextOf'[y] = spelled[i + 1]
      BY <3>1, <2>1, <2>3, <1>2, <1>6 DEF Spells, DLPrepend, ListGood, ListTypeOK
    <3> QED BY <3>1, <3>2
  <2> QED BY <2>2, <2>3
<1>8. prevOf'[listHead'] \notin S
  <2>1. prevOf'[listHead'] = spelled[Len(spelled)]
    BY <1>3, <1>4 DEF DLPrepend, ListGood, ListTypeOK
  <2>2. \A i \in 1..k : spelled[i] # spelled[Len(spelled)]
    BY <1>5 DEF ListGood, NoDuplicates
  <2> QED BY <2>1, <2>2
<1>9. Ring'
  BY <1>6, <1>7, <1>8 DEF Ring
<1> QED BY <1>1, <1>9 DEF Represents, NoDuplicates

\* Deleting the head of a list, of a list of one, and of a ring.
LEMMA Deletes ==
  ASSUME ListGood, DeleteStep
  PROVE  Represents' /\ NoDuplicates'
<1>1. CASE spelled = <<TANGLED>>
  <2>1. spelled' = <<TANGLED>>
    BY <1>1 DEF DeleteStep, DeleteHead
  <2>2. PICK S \in SUBSET Element :
          listHead \in S /\ (\A x \in S : nextOf[x] \in S) /\ prevOf[listHead] \notin S
    BY <1>1 DEF ListGood, Represents, Ring
  <2>3. listHead' = nextOf[listHead] /\ nextOf' = nextOf /\ prevOf'[nextOf[listHead]] = prevOf[listHead]
    BY <2>2 DEF DeleteStep, DLDeleteHead, ListGood, ListTypeOK
  <2>4. Ring'
    BY <2>2, <2>3 DEF Ring
  <2> QED BY <2>1, <2>4 DEF Represents, NoDuplicates
<1>2. CASE spelled # <<TANGLED>>
  <2>1. spelled \in Seq(Element) /\ Spells(spelled) /\ spelled # <<>>
    BY <1>2 DEF ListGood, ListTypeOK, Represents, Spells, DeleteStep, DLDeleteHead
  <2>2. listHead = spelled[1] /\ prevOf[listHead] = spelled[Len(spelled)] /\ Len(spelled) \in Nat /\ Len(spelled) > 0
    BY <2>1 DEF Spells
  <2>3. /\ spelled' = Tail(spelled) /\ Len(spelled') = Len(spelled) - 1 /\ spelled' \in Seq(Element)
        /\ \A i \in 1..Len(spelled') : spelled'[i] = spelled[i + 1]
    BY <1>2, <2>1 DEF DeleteStep, DeleteHead
  <2>4. spelled' # <<TANGLED>>
    <3>1. spelled' = <<TANGLED>> => Len(spelled') = 1 /\ spelled'[1] = TANGLED
      OBVIOUS
    <3>2. Len(spelled') >= 1 => spelled'[1] \in Element
      BY <2>3
    <3> QED BY <3>1, <3>2, PointerAssumption
  <2>5. NoDuplicates'
    <3> SUFFICES ASSUME NEW i \in 1..Len(spelled'), NEW j \in 1..Len(spelled'), i # j
                 PROVE spelled'[i] # spelled'[j]
      BY DEF NoDuplicates
    <3>1. spelled'[i] = spelled[i + 1] /\ spelled'[j] = spelled[j + 1]
          /\ i + 1 \in 1..Len(spelled) /\ j + 1 \in 1..Len(spelled) /\ i + 1 # j + 1
      BY <2>2, <2>3
    <3> QED BY <3>1 DEF ListGood, NoDuplicates
  <2>6. Spells(spelled)'
    <3>1. CASE Len(spelled) <= 1
      <4>1. prevOf[listHead] = listHead
        BY <3>1, <2>2
      <4>2. spelled' = <<>>
        BY <3>1, <2>2, <2>3
      <4> QED BY <4>1, <4>2 DEF DeleteStep, DLDeleteHead, Spells
    <3>2. CASE Len(spelled) >= 2
      <4> Len(spelled) \in Nat /\ Len(spelled) >= 2
        BY <3>2, <2>2
      <4> /\ 1 \in 1..Len(spelled) /\ Len(spelled) \in 1..Len(spelled)
          /\ 1 \in 1..(Len(spelled) - 1) /\ 2 \in 1..Len(spelled)
        OBVIOUS
      <4>1. prevOf[listHead] # listHead
        BY <3>2, <2>2 DEF ListGood, NoDuplicates
      <4>2. nextOf[spelled[1]] = spelled[1 + 1] /\ spelled[2] \in Element
        BY <2>1 DEF Spells
      <4>3. listHead' = spelled[2] /\ nextOf' = nextOf /\ prevOf'[spelled[2]] = spelled[Len(spelled)]
        BY <4>1, <4>2, <2>2 DEF DeleteStep, DLDeleteHead, ListGood, ListTypeOK
      <4>4. ASSUME NEW i \in 1..(Len(spelled') - 1) PROVE nextOf'[spelled'[i]] = spelled'[i + 1]
        <5>1. spelled'[i] = spelled[i + 1] /\ spelled'[i + 1] = spelled[(i + 1) + 1] /\ i + 1 \in 1..(Len(spelled) - 1)
          BY <2>2, <2>3
        <5> QED BY <5>1, <4>3, <2>1 DEF Spells
      <4>5. spelled'[1] = spelled[2] /\ spelled'[Len(spelled')] = spelled[Len(spelled)]
        <5>1. Len(spelled') \in 1..Len(spelled') /\ 1 \in 1..Len(spelled') /\ Len(spelled') + 1 = Len(spelled)
          BY <3>2, <2>2, <2>3
        <5>2. spelled'[Len(spelled')] = spelled[Len(spelled') + 1] /\ spelled'[1] = spelled[1 + 1]
          BY <5>1, <2>3
        <5> QED BY <5>1, <5>2
      <4>6. listHead' = spelled'[1] /\ prevOf'[spelled'[1]] = spelled'[Len(spelled')] /\ spelled' # <<>>
        <5>1. spelled' # <<>>
          <6>1. Len(spelled') \in Nat
            BY <2>3
          <6>2. Len(spelled') >= 1
            BY <6>1, <3>2, <2>2, <2>3
          <6>3. spelled' = <<>> => Len(spelled') = 0
            OBVIOUS
          <6> QED BY <6>1, <6>2, <6>3
        <5> QED BY <4>3, <4>5, <5>1
      <4> QED BY <4>4, <4>6 DEF Spells
    <3> QED BY <3>1, <3>2, <2>2
  <2> QED BY <2>4, <2>5, <2>6 DEF Represents
<1> QED BY <1>1, <1>2

\* The pointers that DL_PREPEND2 and DL_DELETE2 write stand for the sequences of
\* ContextList, and no element is twice in one, for any set of elements, any
\* history and any garbage in the fields at the beginning.
THEOREM PointersRepresentSequences == ListSpec => [](Represents /\ NoDuplicates)
<1>1. ListInit => Represents /\ NoDuplicates
  BY PointerAssumption DEF ListInit, Represents, NoDuplicates, Spells
<1>2. ListTypeOK /\ Represents /\ NoDuplicates /\ [ListNext]_listVars => (Represents /\ NoDuplicates)'
  <2> SUFFICES ASSUME ListGood, [ListNext]_listVars PROVE Represents' /\ NoDuplicates'
    BY DEF ListGood
  <2>1. CASE PrependStep
    <3> PICK x \in Element : spelled # <<TANGLED>> /\ DLPrepend(x) /\ spelled' = Prepend(spelled, x)
      BY <2>1 DEF PrependStep
    <3> QED BY PrependsNew, PrependsEnd, PrependsInner
  <2>2. CASE DeleteStep
    BY <2>2, Deletes
  <2>3. CASE UNCHANGED listVars
    BY <2>3 DEF ListGood, listVars, Represents, Ring, Spells, NoDuplicates
  <2> QED BY <2>1, <2>2, <2>3 DEF ListNext
<1> QED BY <1>1, <1>2, ListTypeCorrect, PTL DEF ListSpec

-----------------------------------------------------------------------------
(***************************************************************************)
(* Lists whose elements get shallower: no element is in the list twice, so *)
(* prepending never tangles it, and the deepest element is at the head.    *)
(***************************************************************************)
LEMMA LevelType == ASSUME NEW n \in Nodes PROVE Level[n] \in Nat
BY Nesting

LEMMA ElementsType ==
  ASSUME NEW s \in Seq(Nodes)
  PROVE  Elements(s) \subseteq Nodes
BY DEF Elements

LEMMA EmptyElements ==
  ASSUME NEW s \in Seq(Nodes)
  PROVE  s = <<>> <=> Elements(s) = {}
<1>1. s # <<>> => 1 \in 1..Len(s)
  OBVIOUS
<1> QED BY <1>1 DEF Elements

LEMMA HeadIsDeepest ==
  ASSUME NEW s \in Seq(Nodes), Descending(s), s # <<>>
  PROVE  /\ s[1] \in Elements(s)
         /\ \A y \in Elements(s) : y # s[1] => Level[y] < Level[s[1]]
<1>1. 1 \in 1..Len(s)
  OBVIOUS
<1>2. \A i \in 1..Len(s) : s[i] # s[1] => 1 < i
  OBVIOUS
<1>3. \A i \in 1..Len(s) : 1 < i => Level[s[i]] < Level[s[1]]
  BY <1>1, LevelType DEF Descending
<1> QED BY <1>1, <1>2, <1>3 DEF Elements

\* x is deeper than all of s.
LEMMA PrependDeeper ==
  ASSUME NEW s \in Seq(Nodes), Descending(s), NEW x \in Nodes,
         \A y \in Elements(s) : Level[y] < Level[x]
  PROVE  /\ Prepend(s, x) = <<x>> \o s
         /\ Prepend(s, x) \in Seq(Nodes)
         /\ Descending(Prepend(s, x))
         /\ Elements(Prepend(s, x)) = Elements(s) \cup {x}
<1>1. x \notin Elements(s)
  BY LevelType
<1>2. Prepend(s, x) = <<x>> \o s
  BY <1>1 DEF Prepend
<1> DEFINE p == <<x>> \o s
<1>3. /\ p \in Seq(Nodes) /\ Len(p) = Len(s) + 1 /\ p[1] = x
      /\ \A i \in 1..Len(s) : p[i + 1] = s[i]
      /\ \A i \in 2..Len(p) : p[i] = s[i - 1]
  OBVIOUS
<1>4. Elements(p) = Elements(s) \cup {x}
  <2>1. Elements(p) \subseteq Elements(s) \cup {x}
    BY <1>3 DEF Elements
  <2>2. Elements(s) \subseteq Elements(p)
    <3> SUFFICES ASSUME NEW i \in 1..Len(s) PROVE s[i] \in Elements(p)
      BY DEF Elements
    <3>1. i + 1 \in 1..Len(p) /\ p[i + 1] = s[i]
      BY <1>3
    <3> QED BY <3>1 DEF Elements
  <2>3. x \in Elements(p)
    BY <1>3 DEF Elements
  <2> QED BY <2>1, <2>2, <2>3
<1>5. Descending(p)
  <2> SUFFICES ASSUME NEW i \in 1..Len(p), NEW j \in 1..Len(p), i < j
               PROVE  Level[p[i]] > Level[p[j]]
    BY DEF Descending
  <2>1. j - 1 \in 1..Len(s) /\ p[j] = s[j - 1]
    BY <1>3
  <2>2. CASE i = 1
    BY <1>3, <2>1, <2>2, LevelType DEF Elements
  <2>3. CASE i # 1
    <3>1. i - 1 \in 1..Len(s) /\ p[i] = s[i - 1] /\ i - 1 < j - 1
      BY <1>3, <2>3
    <3> QED BY <2>1, <3>1 DEF Descending
  <2> QED BY <2>2, <2>3
<1> QED BY <1>2, <1>3, <1>4, <1>5

\* What is left above position k.
LEMMA RestDescends ==
  ASSUME NEW s \in Seq(Nodes), Descending(s), NEW k \in 1..Len(s),
         NEW r \in Seq(Nodes), Len(r) = Len(s) - k,
         \A i \in 1..Len(r) : r[i] = s[i + k]
  PROVE  /\ Descending(r)
         /\ Elements(r) = {y \in Elements(s) : Level[y] < Level[s[k]]}
<1>1. \A i \in 1..Len(r) : i + k \in 1..Len(s) /\ k < i + k
  OBVIOUS
<1>2. Descending(r)
  <2> SUFFICES ASSUME NEW i \in 1..Len(r), NEW j \in 1..Len(r), i < j
               PROVE  Level[r[i]] > Level[r[j]]
    BY DEF Descending
  <2>1. /\ i + k \in 1..Len(s) /\ r[i] = s[i + k]
        /\ j + k \in 1..Len(s) /\ r[j] = s[j + k]
        /\ i + k < j + k
    BY <1>1
  <2> QED BY <2>1 DEF Descending
<1>3. \A i \in 1..Len(r) : Level[r[i]] < Level[s[k]]
  BY <1>1, LevelType DEF Descending
<1>4. Elements(r) \subseteq {y \in Elements(s) : Level[y] < Level[s[k]]}
  BY <1>1, <1>3 DEF Elements
<1>5. ASSUME NEW i \in 1..Len(s), Level[s[i]] < Level[s[k]]
      PROVE  s[i] \in Elements(r)
  <2>1. ~ (i < k) /\ i # k
    BY <1>5, LevelType DEF Descending
  <2>2. i - k \in 1..Len(r) /\ r[i - k] = s[i]
    BY <2>1
  <2> QED BY <2>2 DEF Elements
<1> QED BY <1>2, <1>4, <1>5 DEF Elements

LEMMA DeleteHeadDescends ==
  ASSUME NEW s \in Seq(Nodes), Descending(s), s # <<>>
  PROVE  /\ DeleteHead(s) \in Seq(Nodes)
         /\ Descending(DeleteHead(s))
         /\ Elements(DeleteHead(s)) = Elements(s) \ {s[1]}
         /\ DeleteHead(s) = Tail(s)
<1>1. s[1] \in Nodes /\ s # <<TANGLED>>
  BY Nesting
<1> DEFINE r == Tail(s)
<1>2. DeleteHead(s) = r
  BY <1>1 DEF DeleteHead
<1>3. 1 \in 1..Len(s) /\ r \in Seq(Nodes) /\ Len(r) = Len(s) - 1
      /\ \A i \in 1..Len(r) : r[i] = s[i + 1]
  OBVIOUS
<1>4. Descending(r) /\ Elements(r) = {y \in Elements(s) : Level[y] < Level[s[1]]}
  <2> HIDE DEF r
  <2> QED BY <1>3, RestDescends
<1>5. Elements(r) = Elements(s) \ {s[1]}
  <2> HIDE DEF r
  <2>1. \A y \in Elements(s) : Level[y] < Level[s[1]] <=> y # s[1]
    BY <1>1, HeadIsDeepest, LevelType, ElementsType
  <2> QED BY <1>4, <2>1
<1> QED BY <1>2, <1>3, <1>4, <1>5

LEMMA UnwindDescends ==
  ASSUME NEW s \in Seq(Nodes), Descending(s), NEW x \in Elements(s)
  PROVE  /\ UnwindTo(s, x) \in Seq(Nodes)
         /\ Descending(UnwindTo(s, x))
         /\ Elements(UnwindTo(s, x)) = {y \in Elements(s) : Level[y] < Level[x]}
<1>1. s # <<>>
  BY EmptyElements
<1> DEFINE k == Position(s, x)
           r == SubSeq(s, k + 1, Len(s))
<1>2. k \in 1..Len(s) /\ s[k] = x
  BY PositionIsFirst
<1>3. UnwindTo(s, x) = r
  BY <1>1 DEF UnwindTo
<1> HIDE DEF k
<1>4. r \in Seq(Nodes) /\ Len(r) = Len(s) - k /\ \A i \in 1..Len(r) : r[i] = s[i + k]
  BY <1>2
<1>5. Descending(r) /\ Elements(r) = {y \in Elements(s) : Level[y] < Level[s[k]]}
  <2> HIDE DEF r
  <2> QED BY <1>2, <1>4, RestDescends
<1> QED BY <1>2, <1>3, <1>4, <1>5

\* Prepending the only element, and deleting it.
LEMMA OnlyElement ==
  ASSUME NEW s \in Seq(Nodes), Descending(s), NEW x \in Nodes, Elements(s) = {x}
  PROVE  s = <<x>> /\ Prepend(s, x) = <<x>>
<1>1. s # <<>> /\ s[1] = x
  <2>1. s # <<>>
    BY EmptyElements
  <2> QED BY <2>1, HeadIsDeepest
<1>2. ASSUME Len(s) > 1 PROVE FALSE
  <2>1. 1 \in 1..Len(s) /\ 2 \in 1..Len(s)
    BY <1>2
  <2>2. s[2] = x
    BY <2>1 DEF Elements
  <2>3. Level[s[1]] > Level[s[2]]
    BY <2>1 DEF Descending
  <2> QED BY <1>1, <2>2, <2>3, LevelType
<1>3. Len(s) = 1
  <2>1. Len(s) \in Nat /\ Len(s) # 0
    BY <1>1
  <2> QED BY <1>2, <2>1
<1>4. s = <<x>> /\ x \in Elements(s) /\ x \in {s[1], s[Len(s)]}
  BY <1>1, <1>3
<1>5. Prepend(s, x) = <<x>>
  BY <1>4 DEF Prepend
<1> QED BY <1>4, <1>5

-----------------------------------------------------------------------------
(***************************************************************************)
(* The control path.  Parts and callees are deeper than what contains or   *)
(* calls them, so the order of the path is that of the levels, and the     *)
(* path can be treated as the set of its nodes.                            *)
(***************************************************************************)
Suspended == Elements(callStack)

\* A set of nodes can be the nodes of a path: the innermost loop and the calls
\* around a statement are in it where LoopOf and CalleeOf say, and what is
\* evaluated inside an expression is an expression.
Nested(S) ==
  /\ S \subseteq Nodes
  /\ \A n, m \in S : Level[n] = Level[m] => n = m
  /\ \A n, m \in S : m \in ExpressionNodes /\ Level[m] < Level[n] => n \in ExpressionNodes
  /\ \A n \in S \ ExpressionNodes : LoopOf[n] # NULL =>
       /\ LoopOf[n] \in S /\ Level[LoopOf[n]] < Level[n]
       /\ \A m \in S : Level[LoopOf[n]] < Level[m] /\ Level[m] < Level[n]
                         => m \notin Loops \cup Calls
  /\ \A n \in S \ ExpressionNodes : LoopOf[n] = NULL =>
       \A l \in S \cap Loops : Level[l] < Level[n] =>
         \E c \in S \cap Calls : Level[l] < Level[c] /\ Level[c] < Level[n]
  /\ \A n \in S \ ExpressionNodes :
       CalleeOf[n] # NULL <=> \E c \in S \cap Calls : Level[c] < Level[n]

PathDescends ==
  Descending(callStack) /\ \A m \in Suspended : Level[m] < Level[current]

\* cursor_step started with the statement of the program's own list.
StartsAtBottom ==
  /\ start \in OnPath /\ HeadOf[start] = First
  /\ \A n \in OnPath : n # start => Level[n] > Level[start]

\* A suspended call either steps a parameter or has entered its callee.
AtParameter(c) ==
  /\ state[c] = 0 /\ argsDone[c] # 0 /\ OperandsOf(c) # {} /\ Idle(Callee[c])
  /\ \A n \in OnPath : Level[c] < Level[n] => n \in ExpressionNodes

EnteredState(c) == IF Operands[c] = <<>> THEN 0 ELSE 1

AtCallee(c) ==
  /\ Entry[Callee[c]] # NULL /\ ~Idle(Callee[c]) /\ state[c] = EnteredState(c)
  /\ \A n \in OnPath : Level[c] < Level[n] => Level[Entry[Callee[c]]] <= Level[n]

Waiting ==
  /\ \A n \in Suspended \cap Loops : state[n] # 0
  /\ \A c \in Suspended \cap Calls : AtParameter(c) \/ AtCallee(c)

\* A call at work is still at its parameters, or its callee has been entered.
CallAtWork ==
  current \in Calls =>
    \/ /\ state[current] = 0 /\ Idle(Callee[current])
       /\ argsDone[current] # 0 => OperandsOf(current) # {}
    \/ /\ state[current] = EnteredState(current) /\ ~Idle(Callee[current])
       /\ Entry[Callee[current]] # NULL

PathInv ==
  /\ PathDescends /\ Nested(OnPath) /\ StartsAtBottom
  /\ Waiting /\ CallAtWork
  /\ outcome = "ready" => current = First /\ callStack = <<>>

\* No list is tangled.
ListsIntact ==
  /\ callStack \in Seq(Nodes)
  /\ exitContext \in Seq(Nodes) /\ returnContext \in Seq(Nodes)

Exact ==
  /\ ListsIntact /\ outcome # "crashed"
  /\ Sound => PathInv
  /\ ExitContextMatches /\ ReturnContextMatches

IInv == TypeOK /\ Exact

-----------------------------------------------------------------------------
\* What a node can be seen to step into: an operand, a branch, the body of a
\* loop, the statements of a callee.
StepsInto(n, t) ==
  \/ t \in OperandsOf(n)
  \/ n \in Selections /\ t \in Branches[n] \ {NULL}
  \/ n \in Loops /\ t = Body[n]
  \/ n \in Calls /\ t = Entry[Callee[n]] /\ t # NULL

LEMMA StepsDeeper ==
  ASSUME NEW n \in Nodes, NEW t, StepsInto(n, t)
  PROVE  /\ t \in Nodes /\ HeadOf[t] = t /\ Level[n] < Level[t]
         /\ n \in ExpressionNodes => t \in ExpressionNodes
         /\ t \notin ExpressionNodes => t \notin OperandsOf(n)
<1>1. CASE t \in OperandsOf(n)
  <2>1. t \in ExpressionNodes /\ t \in Parts(n)
    BY <1>1, ProgramShape DEF Parts
  <2> QED BY <1>1, <2>1, ProgramShape, Nesting, LevelType DEF ExpressionNodes
<1>2. CASE n \in Selections /\ t \in Branches[n] \ {NULL}
  <2>1. t \in Parts(n) /\ t \in Nodes /\ n \notin ExpressionNodes
    BY <1>2, ProgramTypes DEF Parts, Selections, ExpressionNodes, Optional
  <2> QED BY <2>1, ProgramShape, Nesting, LevelType DEF ExpressionNodes
<1>3. CASE n \in Loops /\ t = Body[n]
  <2>1. t \in Parts(n) /\ t \in Nodes /\ n \notin ExpressionNodes
    BY <1>3, ProgramTypes, ProgramShape DEF Parts, Loops, ExpressionNodes
  <2> QED BY <2>1, ProgramShape, Nesting, LevelType
<1>4. CASE n \in Calls /\ t = Entry[Callee[n]] /\ t # NULL
  <2>1. Callee[n] \in Callees
    BY <1>4, ProgramShape
  <2>2. t \in Nodes /\ HeadOf[t] = t
    BY <1>4, <2>1, ProgramTypes, ProgramShape DEF Optional
  <2>3. n \notin ExpressionNodes
    BY <1>4, Disciplined DEF Calls, ExpressionNodes
  <2> QED BY <1>4, <2>2, <2>3, ProgramShape, Nesting, LevelType
<1> QED BY <1>1, <1>2, <1>3, <1>4 DEF StepsInto

\* The path is extended by what its last node steps into ...
LEMMA NestedInto ==
  ASSUME NEW S, Nested(S), NEW n \in S, \A m \in S : Level[m] <= Level[n],
         NEW t, StepsInto(n, t)
  PROVE  Nested(S \cup {t})
<1>1. S \subseteq Nodes /\ n \in Nodes
  BY DEF Nested
<1>2. /\ t \in Nodes /\ Level[n] < Level[t]
      /\ n \in ExpressionNodes => t \in ExpressionNodes
      /\ t \notin ExpressionNodes => t \notin OperandsOf(n)
  BY <1>1, StepsDeeper
<1>3. \A m \in S : Level[m] \in Nat /\ Level[m] < Level[t] /\ (m = n \/ Level[m] < Level[n])
  BY <1>1, <1>2, LevelType DEF Nested
<1>4. \A m, k \in S \cup {t} : Level[m] = Level[k] => m = k
  BY <1>2, <1>3, LevelType DEF Nested
<1>5. \A m, k \in S \cup {t} :
        k \in ExpressionNodes /\ Level[k] < Level[m] => m \in ExpressionNodes
  <2>1. \A k \in S : k \in ExpressionNodes => t \in ExpressionNodes
    BY <1>2, <1>3 DEF Nested
  <2> QED BY <1>2, <1>3, <2>1, LevelType DEF Nested
<1>6. ASSUME t \notin ExpressionNodes, LoopOf[t] # NULL
      PROVE  /\ LoopOf[t] \in S
             /\ \A m \in S : Level[LoopOf[t]] < Level[m] => m \notin Loops \cup Calls
  <2>1. CASE n \in Selections /\ t \in Branches[n] \ {NULL}
    <3>1. n \notin Loops \cup Calls \cup ExpressionNodes /\ LoopOf[t] = LoopOf[n]
      BY <1>1, <2>1, Nesting DEF Parts, Selections, Loops, Calls, ExpressionNodes
    <3> QED BY <1>1, <1>3, <1>6, <3>1 DEF Nested
  <2>2. CASE n \in Loops /\ t = Body[n]
    <3>1. LoopOf[t] = n
      BY <1>1, <1>2, <2>2, ProgramTypes, Nesting DEF Parts
    <3> QED BY <1>1, <1>3, <3>1, LevelType
  <2>3. CASE n \in Calls /\ t = Entry[Callee[n]] /\ t # NULL
    BY <1>6, <2>3, Nesting
  <2> QED BY <1>2, <1>6, <2>1, <2>2, <2>3 DEF StepsInto
<1>7. ASSUME t \notin ExpressionNodes, LoopOf[t] = NULL, NEW l \in S \cap Loops
      PROVE  \E c \in S \cap Calls : Level[l] < Level[c]
  <2>1. CASE n \in Selections /\ t \in Branches[n] \ {NULL}
    <3>1. n \notin Loops \cup Calls \cup ExpressionNodes /\ LoopOf[t] = LoopOf[n]
      BY <1>1, <2>1, Nesting DEF Parts, Selections, Loops, Calls, ExpressionNodes
    <3>2. Level[l] < Level[n]
      BY <1>3, <3>1
    <3> QED BY <1>7, <3>1, <3>2 DEF Nested
  <2>2. CASE n \in Loops /\ t = Body[n]
    <3>1. LoopOf[t] = n
      BY <1>1, <1>2, <2>2, ProgramTypes, Nesting DEF Parts
    <3> QED BY <1>1, <1>7, <3>1, ProgramTypes
  <2>3. CASE n \in Calls /\ t = Entry[Callee[n]] /\ t # NULL
    <3>1. n \notin Loops
      BY <2>3 DEF Calls, Loops
    <3> QED BY <1>3, <2>3, <3>1
  <2> QED BY <1>2, <1>7, <2>1, <2>2, <2>3 DEF StepsInto
<1>8. ASSUME t \notin ExpressionNodes
      PROVE  CalleeOf[t] # NULL <=> \E c \in S \cap Calls : TRUE
  <2>1. CASE t \in Parts(n) /\ n \notin Calls \cup ExpressionNodes
    <3>1. CalleeOf[t] = CalleeOf[n]
      BY <1>1, <2>1, Nesting
    <3> QED BY <1>3, <2>1, <3>1 DEF Nested
  <2>2. CASE n \in Calls /\ t = Entry[Callee[n]] /\ t # NULL
    <3>1. CalleeOf[t] = Callee[n] /\ Callee[n] # NULL
      BY <2>2, Nesting, ProgramShape
    <3> QED BY <2>2, <3>1
  <2>3. n \in Selections \cup Loops => n \notin Calls \cup ExpressionNodes
    BY DEF Selections, Loops, Calls, ExpressionNodes
  <2>4. \/ n \in Selections /\ t \in Branches[n] \ {NULL}
        \/ n \in Loops /\ t = Body[n]
        \/ n \in Calls /\ t = Entry[Callee[n]] /\ t # NULL
    BY <1>2, <1>8 DEF StepsInto
  <2>5. t # NULL
    BY <1>2, ProgramTypes
  <2> QED BY <2>1, <2>2, <2>3, <2>4, <2>5 DEF Parts
<1> QED
  <2> DEFINE T == S \cup {t}
  <2>1. ASSUME NEW m \in T \ ExpressionNodes, LoopOf[m] # NULL
        PROVE  /\ LoopOf[m] \in T /\ Level[LoopOf[m]] < Level[m]
               /\ \A k \in T : Level[LoopOf[m]] < Level[k] /\ Level[k] < Level[m]
                                => k \notin Loops \cup Calls
    <3>1. CASE m \in S
      BY <1>1, <1>2, <1>3, <2>1, <3>1, LevelType DEF Nested
    <3>2. CASE m = t
      BY <1>2, <1>3, <1>6, <2>1, <3>2, LevelType
    <3> QED BY <3>1, <3>2
  <2>2. ASSUME NEW m \in T \ ExpressionNodes, LoopOf[m] = NULL,
               NEW l \in T \cap Loops, Level[l] < Level[m]
        PROVE  \E c \in T \cap Calls : Level[l] < Level[c] /\ Level[c] < Level[m]
    <3>1. CASE m \in S
      <4>1. l \in S
        BY <1>2, <1>3, <2>2, <3>1, LevelType
      <4> QED BY <2>2, <3>1, <4>1 DEF Nested
    <3>2. CASE m = t
      BY <1>2, <1>3, <1>7, <2>2, <3>2, LevelType
    <3> QED BY <3>1, <3>2
  <2>3. ASSUME NEW m \in T \ ExpressionNodes
        PROVE  CalleeOf[m] # NULL <=> \E c \in T \cap Calls : Level[c] < Level[m]
    <3>1. CASE m \in S
      <4>1. ~ (Level[t] < Level[m])
        BY <1>2, <1>3, <3>1, LevelType
      <4> QED BY <2>3, <3>1, <4>1 DEF Nested
    <3>2. CASE m = t
      BY <1>2, <1>3, <1>8, <2>3, <3>2, LevelType
    <3> QED BY <3>1, <3>2
  <2>4. T \subseteq Nodes
    BY <1>1, <1>2
  <2> HIDE DEF T
  <2>5. Nested(T)
    BY <1>4, <1>5, <2>1, <2>2, <2>3, <2>4 DEF Nested, T
  <2> QED BY <2>5 DEF T

\* ... cut off below any of its nodes ...
LEMMA NestedBelow ==
  ASSUME NEW S, Nested(S), NEW T, T \subseteq S,
         \A n \in T : \A m \in S : Level[m] < Level[n] => m \in T
  PROVE  Nested(T)
<1>1. \A n \in T : n \in Nodes /\ Level[n] \in Nat
  BY LevelType DEF Nested
<1>2. ASSUME NEW n \in T \ ExpressionNodes, LoopOf[n] = NULL,
             NEW l \in T \cap Loops, Level[l] < Level[n]
      PROVE  \E c \in T \cap Calls : Level[l] < Level[c] /\ Level[c] < Level[n]
  BY <1>2 DEF Nested
<1>3. ASSUME NEW n \in T \ ExpressionNodes, LoopOf[n] # NULL
      PROVE  /\ LoopOf[n] \in T /\ Level[LoopOf[n]] < Level[n]
             /\ \A k \in T : Level[LoopOf[n]] < Level[k] /\ Level[k] < Level[n]
                              => k \notin Loops \cup Calls
  BY <1>3 DEF Nested
<1>4. ASSUME NEW n \in T \ ExpressionNodes
      PROVE  CalleeOf[n] # NULL <=> \E c \in T \cap Calls : Level[c] < Level[n]
  BY <1>4 DEF Nested
<1> QED BY <1>1, <1>2, <1>3, <1>4 DEF Nested

\* ... and continued by the statement after its last node.
LEMMA NestedNext ==
  ASSUME NEW S, NEW n \in Nodes, n \notin S, Nested(S \cup {n}), NEW m \in Nodes,
         \A k \in S : Level[k] < Level[n], NextOf[n] = m
  PROVE  Nested(S \cup {m})
<1>1. Level[m] = Level[n] /\ LoopOf[m] = LoopOf[n] /\ CalleeOf[m] = CalleeOf[n]
      /\ n \notin ExpressionNodes
  <2>1. HeadOf[m] = HeadOf[n] /\ n \notin ExpressionNodes
    BY ProgramTypes, ProgramShape
  <2> QED BY <2>1, Nesting
<1>2. S \subseteq Nodes /\ \A k \in S : Level[k] \in Nat /\ k \notin ExpressionNodes
  BY <1>1, LevelType DEF Nested
<1>3. Level[n] \in Nat
  BY LevelType
<1>4. Nested(S)
  BY <1>2, <1>3, NestedBelow
<1>5. LoopOf[n] # NULL =>
        /\ LoopOf[n] \in S
        /\ \A k \in S : Level[LoopOf[n]] < Level[k] => k \notin Loops \cup Calls
  BY <1>1, <1>2, <1>3 DEF Nested
<1>6. LoopOf[n] = NULL =>
        \A l \in S \cap Loops : \E c \in S \cap Calls : Level[l] < Level[c]
  BY <1>1, <1>2, <1>3 DEF Nested
<1>7. CalleeOf[n] # NULL <=> \E c \in S \cap Calls : TRUE
  BY <1>1, <1>2, <1>3 DEF Nested
<1> DEFINE T == S \cup {m}
<1>8. ASSUME NEW x \in T \ ExpressionNodes, LoopOf[x] # NULL
      PROVE  /\ LoopOf[x] \in T /\ Level[LoopOf[x]] < Level[x]
             /\ \A k \in T : Level[LoopOf[x]] < Level[k] /\ Level[k] < Level[x]
                              => k \notin Loops \cup Calls
  <2>1. CASE x \in S
    BY <1>1, <1>2, <1>3, <1>4, <1>8, <2>1 DEF Nested
  <2>2. CASE x = m
    BY <1>1, <1>2, <1>3, <1>5, <1>8, <2>2
  <2> QED BY <2>1, <2>2
<1>9. ASSUME NEW x \in T \ ExpressionNodes, LoopOf[x] = NULL,
             NEW l \in T \cap Loops, Level[l] < Level[x]
      PROVE  \E c \in T \cap Calls : Level[l] < Level[c] /\ Level[c] < Level[x]
  <2>1. l \in S
    BY <1>1, <1>2, <1>3, <1>9
  <2>2. CASE x \in S
    BY <1>4, <1>9, <2>1, <2>2 DEF Nested
  <2>3. CASE x = m
    BY <1>1, <1>6, <1>9, <2>1, <2>3
  <2> QED BY <2>2, <2>3
<1>10. ASSUME NEW x \in T \ ExpressionNodes
       PROVE  CalleeOf[x] # NULL <=> \E c \in T \cap Calls : Level[c] < Level[x]
  <2>1. CASE x \in S
    BY <1>1, <1>2, <1>3, <1>4, <2>1 DEF Nested
  <2>2. CASE x = m
    BY <1>1, <1>2, <1>3, <1>7, <2>2
  <2> QED BY <2>1, <2>2
<1>11. T \subseteq Nodes /\ \A x, y \in T : Level[x] = Level[y] => x = y
  BY <1>1, <1>2, <1>3, <1>4 DEF Nested
<1>12. \A x, y \in T : y \in ExpressionNodes /\ Level[y] < Level[x] => x \in ExpressionNodes
  BY <1>1, <1>2, <1>3
<1> HIDE DEF T
<1>13. Nested(T)
  BY <1>8, <1>9, <1>10, <1>11, <1>12 DEF Nested
<1> QED BY <1>13 DEF T

-----------------------------------------------------------------------------
(***************************************************************************)
(* The movements of the cursor and the path.                               *)
(***************************************************************************)
LEMMA ResetKeeps ==
  ASSUME NEW t \in Nodes, NEW st, NEW ar, NEW cl, ResetNode(t, st, ar, cl),
         NEW m \in Nodes, Level[m] < Level[t]
  PROVE  state'[m] = st[m] /\ argsDone'[m] = ar[m]
<1>1. m \notin Owned[t]
  BY Nesting, LevelType
<1> QED BY <1>1, ProgramTypes DEF ResetNode

LEMMA ResetKeepsCallee ==
  ASSUME NEW t \in Nodes, NEW st, NEW ar, NEW cl, ResetNode(t, st, ar, cl),
         NEW c \in Calls, Entry[Callee[c]] # NULL, Level[Entry[Callee[c]]] <= Level[t]
  PROVE  calleeState'[Callee[c]] = cl[Callee[c]]
<1>1. Callee[c] \in Callees /\ Entry[Callee[c]] \in Nodes
  BY ProgramTypes, ProgramShape DEF Optional
<1>2. ASSUME NEW k \in Owned[t] \cap Calls, Callee[k] = Callee[c] PROVE FALSE
  <2>1. k \in Nodes /\ Level[t] <= Level[k] /\ Level[k] < Level[Entry[Callee[k]]]
    BY <1>2, ProgramTypes, Nesting
  <2> QED BY <1>1, <1>2, <2>1, LevelType
<1>3. t # NULL
  BY ProgramTypes
<1> QED BY <1>1, <1>2, <1>3 DEF ResetNode

LEMMA ResetKeepsIdle ==
  ASSUME NEW t \in Nodes, NEW st, NEW ar, NEW cl, ResetNode(t, st, ar, cl),
         NEW f \in Callees, cl[f] = 0
  PROVE  calleeState'[f] = 0
BY DEF ResetNode

LEMMA ResetClears ==
  ASSUME NEW t \in Nodes, NEW st, NEW ar, NEW cl, ResetNode(t, st, ar, cl)
  PROVE  /\ state'[t] = 0
         /\ t \in Calls => ~ InCall(t)' /\ Idle(Callee[t])' /\ argsDone'[t] = 0
<1>1. t \in Owned[t] /\ t # NULL /\ Kind[t] # "term"
  BY OwnedIsTheSubtree, ProgramTypes, Disciplined
<1>2. state'[t] = 0 /\ argsDone'[t] = 0
  BY <1>1 DEF ResetNode
<1>3. t \in Calls => calleeState'[Callee[t]] = 0
  BY <1>1, ProgramShape DEF ResetNode
<1> QED BY <1>2, <1>3 DEF InCall, Idle

LEMMA NoReset ==
  ASSUME NEW st, NEW ar, NEW cl, InvokeTypes(st, ar, cl), ResetNode(NULL, st, ar, cl)
  PROVE  state' = st /\ argsDone' = ar /\ calleeState' = cl
<1>1. state' = [n \in Nodes |-> st[n]]
  BY DEF ResetNode
<1>2. argsDone' = [n \in Nodes |-> ar[n]]
  BY DEF ResetNode
<1>3. calleeState' = [f \in Callees |-> cl[f]]
  BY DEF ResetNode
<1> QED BY <1>1, <1>2, <1>3 DEF InvokeTypes

\* The cursor is at the cycle's start and nothing is suspended.
LEMMA FirstNested ==
  First \in Nodes /\ First \notin Loops \cup Calls /\ Nested({First})
<1>1. First \in Nodes /\ First \notin Loops \cup Calls
  BY ProgramTypes, Disciplined DEF Stateless, Evaluations, Loops, Calls
<1> QED BY <1>1, Nesting, LevelType DEF Nested

LEMMA PathAtFirst ==
  ASSUME current = First, callStack = <<>>, start = First
  PROVE  PathInv /\ LoopsInside = {} /\ CallsInside = {}
<1>1. Suspended = {} /\ OnPath = {First}
  BY DEF Suspended, OnPath, Elements
<1>2. PathDescends /\ StartsAtBottom /\ Waiting /\ CallAtWork
  BY <1>1, FirstNested, ProgramShape
     DEF PathDescends, Descending, StartsAtBottom, Waiting, CallAtWork
<1> QED BY <1>1, <1>2, FirstNested DEF PathInv, LoopsInside, CallsInside, Suspended

LEMMA PathFromFirst ==
  ASSUME current' = First, callStack' = <<>>, start' = First
  PROVE  PathInv' /\ LoopsInside' = {} /\ CallsInside' = {}
<1>1. Suspended' = {} /\ OnPath' = {First}
  BY DEF Suspended, OnPath, Elements
<1>2. PathDescends' /\ StartsAtBottom' /\ Waiting' /\ CallAtWork'
  BY <1>1, FirstNested, ProgramShape
     DEF PathDescends, Descending, StartsAtBottom, Waiting, CallAtWork
<1> QED BY <1>1, <1>2, FirstNested DEF PathInv, LoopsInside, CallsInside, Suspended

\* The facts about the path that the proofs below keep using.
LEMMA PathFacts ==
  ASSUME IInv, Sound
  PROVE  /\ PathInv /\ ListsIntact /\ Nested(OnPath)
         /\ current \in Nodes /\ start \in Nodes
         /\ InvokeTypes(state, argsDone, calleeState)
         /\ Suspended \subseteq Nodes /\ OnPath = Suspended \cup {current}
         /\ current \notin Suspended
         /\ \A n \in OnPath : n \in Nodes /\ Level[n] \in Nat
         /\ \A n \in Suspended : Level[n] < Level[current]
<1>1. PathInv /\ ListsIntact /\ TypeOK
  BY DEF IInv, Exact
<1>2. Suspended \subseteq Nodes /\ OnPath = Suspended \cup {current}
  BY <1>1, ElementsType DEF ListsIntact, Suspended, OnPath
<1>3. current \in Nodes /\ start \in Nodes /\ InvokeTypes(state, argsDone, calleeState)
  BY <1>1 DEF TypeOK, InvokeTypes
<1>4. \A n \in Suspended : Level[n] < Level[current]
  BY <1>1 DEF PathInv, PathDescends
<1> QED BY <1>1, <1>2, <1>3, <1>4, LevelType DEF PathInv

\* What a step function leaves of the suspended nodes' states.
KeepsSuspended(S, st, ar, cl) ==
  /\ InvokeTypes(st, ar, cl)
  /\ \A m \in S : st[m] = state[m] /\ ar[m] = argsDone[m]
  /\ \A c \in S \cap Calls : AtCallee(c) => cl[Callee[c]] # 0
  /\ \A c \in S \cap Calls : AtParameter(c) => cl[Callee[c]] = 0

\* The node that is going to be suspended below t waits for t.
WaitsFor(t, st, ar, cl) ==
  /\ StepsInto(current, t)
  /\ current \in Loops => st[current] # 0
  /\ current \in Calls =>
       \/ /\ st[current] = 0 /\ ar[current] # 0 /\ cl[Callee[current]] = 0
          /\ t \in OperandsOf(current)
       \/ /\ t = Entry[Callee[current]] /\ cl[Callee[current]] # 0
          /\ st[current] = EnteredState(current)

LEMMA SwitchPath ==
  ASSUME IInv, outcome = "running", NEW t, NEW st, NEW ar, NEW cl,
         KeepsSuspended(Suspended, st, ar, cl), WaitsFor(t, st, ar, cl),
         SwitchCurrent(t, st, ar, cl)
  PROVE  /\ PathInv' /\ callStack' \in Seq(Nodes) /\ outcome' = "running"
         /\ LoopsInside' = OnPath \cap Loops
         /\ CallsInside' = OnPath \cap Calls
<1>1. /\ PathInv /\ ListsIntact /\ Nested(OnPath)
      /\ current \in Nodes
      /\ Suspended \subseteq Nodes /\ OnPath = Suspended \cup {current}
      /\ current \notin Suspended
      /\ \A n \in OnPath : n \in Nodes /\ Level[n] \in Nat
      /\ \A n \in Suspended : Level[n] < Level[current]
  BY PathFacts DEF Sound
<1>2. /\ t \in Nodes /\ Level[current] < Level[t] /\ Level[t] \in Nat
      /\ current \in ExpressionNodes => t \in ExpressionNodes
  BY <1>1, StepsDeeper, LevelType DEF WaitsFor
<1>3. /\ callStack' \in Seq(Nodes) /\ Descending(callStack')
      /\ Suspended' = OnPath /\ current' = t
  <2>1. callStack \in Seq(Nodes) /\ Descending(callStack)
        /\ \A y \in Elements(callStack) : Level[y] < Level[current]
    BY <1>1 DEF ListsIntact, PathInv, PathDescends, Suspended
  <2> QED BY <1>1, <2>1, PrependDeeper DEF SwitchCurrent, Suspended
<1>4. OnPath' = OnPath \cup {t}
  BY <1>3 DEF OnPath, Suspended
<1>5. \A n \in OnPath : Level[n] < Level[t] /\ n # t
  BY <1>1, <1>2
<1>6. /\ ResetNode(t, st, ar, cl) /\ start' = start /\ outcome' = outcome
  BY DEF SwitchCurrent
<1>7. \A m \in OnPath : state'[m] = st[m] /\ argsDone'[m] = ar[m]
  BY <1>1, <1>2, <1>5, <1>6, ResetKeeps
<1>8. /\ state'[t] = 0
      /\ t \in Calls => ~ InCall(t)' /\ Idle(Callee[t])' /\ argsDone'[t] = 0
  BY <1>2, <1>6, ResetClears
<1>9. PathDescends'
  BY <1>3, <1>5 DEF PathDescends
<1>10. Nested(OnPath')
  <2>1. \A m \in OnPath : Level[m] <= Level[current]
    BY <1>1
  <2>2. current \in OnPath
    BY <1>1
  <2> QED BY <1>1, <1>4, <2>1, <2>2, NestedInto DEF WaitsFor
<1>11. StartsAtBottom'
  BY <1>1, <1>4, <1>5, <1>6 DEF PathInv, StartsAtBottom
<1>12. ASSUME NEW n \in OnPath \cap Loops PROVE state'[n] # 0
  <2>1. CASE n \in Suspended
    BY <1>1, <1>7, <2>1, <1>12 DEF PathInv, Waiting, KeepsSuspended
  <2>2. CASE n = current
    BY <1>1, <1>7, <2>2, <1>12 DEF WaitsFor
  <2> QED BY <1>1, <2>1, <2>2
<1>13. ASSUME NEW c \in OnPath \cap Calls PROVE AtParameter(c)' \/ AtCallee(c)'
  <2>1. CASE c \in Suspended /\ AtParameter(c)
    <3>1. current \in ExpressionNodes /\ t \in ExpressionNodes
      BY <1>1, <1>2, <2>1 DEF AtParameter
    <3>2. state'[c] = 0 /\ argsDone'[c] # 0
      BY <1>1, <1>7, <2>1 DEF AtParameter, KeepsSuspended
    <3>3. calleeState'[Callee[c]] = 0
      BY <1>2, <1>6, <1>13, <2>1, ResetKeepsIdle, ProgramShape DEF KeepsSuspended
    <3> QED BY <1>4, <2>1, <3>1, <3>2, <3>3 DEF AtParameter, Idle
  <2>2. CASE c \in Suspended /\ AtCallee(c)
    <3>1. Entry[Callee[c]] \in Nodes /\ Level[Entry[Callee[c]]] \in Nat
      BY <1>13, <2>2, ProgramTypes, ProgramShape, LevelType DEF AtCallee, Optional
    <3>2. Level[Entry[Callee[c]]] <= Level[t]
      BY <1>1, <1>2, <2>2, <3>1 DEF AtCallee
    <3>3. calleeState'[Callee[c]] # 0
      <4>1. cl[Callee[c]] # 0
        BY <1>13, <2>2 DEF KeepsSuspended
      <4>2. Entry[Callee[c]] # NULL
        BY <2>2 DEF AtCallee
      <4> QED BY <1>2, <1>6, <1>13, <3>2, <4>1, <4>2, ResetKeepsCallee
    <3>4. state'[c] = state[c]
      BY <1>1, <1>7, <2>2 DEF KeepsSuspended
    <3> QED BY <1>4, <2>2, <3>2, <3>3, <3>4 DEF AtCallee, Idle
  <2>3. CASE /\ c = current /\ st[c] = 0 /\ ar[c] # 0 /\ cl[Callee[c]] = 0
             /\ t \in OperandsOf(c)
    <3>1. t \in ExpressionNodes
      BY <1>1, <2>3, ProgramShape
    <3>2. calleeState'[Callee[c]] = 0
      BY <1>2, <1>6, <1>13, <2>3, ResetKeepsIdle, ProgramShape
    <3> QED BY <1>1, <1>4, <1>7, <2>3, <3>1, <3>2 DEF AtParameter, Idle
  <2>4. CASE /\ c = current /\ t = Entry[Callee[c]] /\ cl[Callee[c]] # 0
             /\ st[c] = EnteredState(c)
    <3>1. t # NULL
      BY <1>2, ProgramTypes
    <3>2. calleeState'[Callee[c]] # 0
      BY <1>2, <1>6, <1>13, <2>4, <3>1, ResetKeepsCallee
    <3> QED BY <1>1, <1>2, <1>4, <1>7, <2>4, <3>1, <3>2 DEF AtCallee, Idle
  <2>5. c \in Suspended => AtParameter(c) \/ AtCallee(c)
    BY <1>1, <1>13 DEF PathInv, Waiting
  <2> QED BY <1>1, <1>13, <2>1, <2>2, <2>3, <2>4, <2>5 DEF WaitsFor
<1>14. Waiting'
  BY <1>3, <1>12, <1>13 DEF Waiting
<1>15. CallAtWork'
  BY <1>3, <1>8 DEF CallAtWork
<1>16. PathInv'
  BY <1>6, <1>9, <1>10, <1>11, <1>14, <1>15 DEF PathInv
<1>17. LoopsInside' = OnPath \cap Loops
  BY <1>3, <1>8 DEF LoopsInside, Suspended
<1>18. CallsInside' = OnPath \cap Calls
  BY <1>3, <1>8 DEF CallsInside, Suspended
<1> QED BY <1>3, <1>6, <1>16, <1>17, <1>18

\* The node m at work is done and the path is cut off at it: m is the current
\* node, or the one a jump finishes.
LEMMA FinishPath ==
  ASSUME IInv, outcome = "running", NEW m \in OnPath, NEW stack \in Seq(Nodes),
         Descending(stack), Elements(stack) = {n \in OnPath : Level[n] < Level[m]},
         NEW st, NEW ar, NEW cl, KeepsSuspended(Elements(stack), st, ar, cl),
         FinishNode(m, stack, st, ar, cl)
  PROVE  /\ PathInv' /\ callStack' \in Seq(Nodes) /\ outcome' \in {"running", "ready"}
         /\ LoopsInside' = Elements(stack) \cap Loops
         /\ CallsInside' = Elements(stack) \cap Calls
<1> DEFINE S == Elements(stack)
<1>1. /\ PathInv /\ ListsIntact /\ Nested(OnPath)
      /\ current \in Nodes /\ OnPath = Suspended \cup {current}
      /\ \A n \in OnPath : n \in Nodes /\ Level[n] \in Nat
      /\ \A n \in Suspended : Level[n] < Level[current]
  BY PathFacts DEF Sound
<1>2. /\ S \subseteq Suspended /\ S \subseteq OnPath /\ m \notin S /\ m \in Nodes
      /\ Level[m] \in Nat
      /\ \A n \in S : Level[n] < Level[m]
      /\ \A n \in OnPath : Level[n] < Level[m] => n \in S
  BY <1>1
<1>3. Nested(S) /\ Nested(S \cup {m})
  <2>1. \A n \in S \cup {m} : \A k \in OnPath : Level[k] < Level[n] => k \in S \cup {m}
    BY <1>1, <1>2
  <2>2. \A n \in S : \A k \in OnPath : Level[k] < Level[n] => k \in S
    BY <1>1, <1>2
  <2> HIDE DEF S
  <2>3. S \cup {m} \subseteq OnPath
    BY <1>2
  <2> QED BY <1>1, <1>2, <2>1, <2>2, <2>3, NestedBelow
<1>4. /\ ResetNode(NextOf[m], st, ar, cl) /\ current' = Following(m, stack)
      /\ callStack' = IF NextOf[m] # NULL THEN stack ELSE DeleteHead(stack)
      /\ StepReturns(m)
  BY DEF FinishNode
<1>5. /\ m = start <=> S = {}
      /\ m # start => start \in S
      /\ HeadOf[start] = First /\ Level[start] \in Nat
      /\ \A n \in S : n # start => Level[n] > Level[start]
  <2>1. /\ start \in OnPath /\ HeadOf[start] = First
        /\ \A n \in OnPath : n # start => Level[n] > Level[start]
    BY <1>1 DEF PathInv, StartsAtBottom
  <2>2. m = start => S = {}
    BY <1>1, <1>2, <2>1
  <2> QED BY <1>1, <1>2, <2>1, <2>2
<1>6. S = {} <=> stack = <<>>
  BY EmptyElements
<1>8. outcome' \in {"running", "ready"}
  BY <1>4 DEF StepReturns
<1>9. ASSUME NEW c \in S \cap Loops PROVE st[c] # 0
  BY <1>1, <1>2, <1>9 DEF PathInv, Waiting, KeepsSuspended
<1>10. ASSUME NEW c \in S \cap Calls
       PROVE  /\ st[c] = state[c] /\ ar[c] = argsDone[c]
              /\ AtParameter(c) \/ AtCallee(c)
              /\ AtCallee(c) => cl[Callee[c]] # 0
              /\ AtParameter(c) => cl[Callee[c]] = 0
  <2>1. AtParameter(c) \/ AtCallee(c)
    BY <1>1, <1>2, <1>10 DEF PathInv, Waiting
  <2>2. c \in S /\ c \in S \cap Calls
    BY <1>10
  <2> HIDE DEF S
  <2> QED BY <2>1, <2>2 DEF KeepsSuspended, S
<1>11. CASE NextOf[m] # NULL
  <2> DEFINE t == NextOf[m]
  <2>1. /\ t \in Nodes /\ Level[t] = Level[m] /\ HeadOf[t] = HeadOf[m]
        /\ m \notin ExpressionNodes
    <3>1. t \in Nodes /\ HeadOf[t] = HeadOf[m] /\ m \notin ExpressionNodes
      BY <1>2, <1>11, ProgramTypes, ProgramShape DEF Optional
    <3> QED BY <1>2, <3>1, Nesting
  <2>2. current' = t /\ callStack' = stack /\ ResetNode(t, st, ar, cl)
    BY <1>4, <1>11 DEF Following
  <2> HIDE DEF t
  <2>3. Suspended' = S /\ OnPath' = S \cup {t} /\ t \notin S
    BY <1>2, <2>1, <2>2 DEF Suspended, OnPath
  <2>4. \A n \in S : state'[n] = st[n] /\ argsDone'[n] = ar[n]
    BY <1>1, <1>2, <2>1, <2>2, ResetKeeps
  <2>5. /\ state'[t] = 0
        /\ t \in Calls => ~ InCall(t)' /\ Idle(Callee[t])' /\ argsDone'[t] = 0
    BY <2>1, <2>2, ResetClears
  <2>6. PathDescends'
    BY <1>2, <2>1, <2>2, <2>3 DEF PathDescends
  <2>7. Nested(OnPath')
    BY <1>2, <1>3, <2>1, <2>3, NestedNext DEF t
  <2>8. StartsAtBottom'
    <3>1. CASE m = start
      BY <1>4, <1>5, <2>1, <2>2, <2>3, <3>1 DEF StepReturns, StartsAtBottom
    <3>2. CASE m # start
      BY <1>2, <1>4, <1>5, <2>1, <2>3, <3>2 DEF StepReturns, StartsAtBottom
    <3> QED BY <3>1, <3>2
  <2>9. ASSUME NEW c \in S \cap Calls PROVE AtParameter(c)' \/ AtCallee(c)'
    <3>1. ~ AtParameter(c)
      BY <1>2, <2>1, <2>9 DEF AtParameter
    <3>2. AtCallee(c)
      BY <1>10, <2>9, <3>1
    <3>3. Level[Entry[Callee[c]]] <= Level[t]
      BY <1>2, <2>1, <2>9, <3>2 DEF AtCallee
    <3>4. calleeState'[Callee[c]] # 0
      BY <1>10, <2>1, <2>2, <2>9, <3>2, <3>3, ResetKeepsCallee DEF AtCallee
    <3>5. state'[c] = state[c]
      BY <1>10, <2>4, <2>9
    <3>6. \A n \in OnPath' : Level[c] < Level[n] => Level[Entry[Callee[c]]] <= Level[n]
      BY <1>2, <2>3, <3>2, <3>3 DEF AtCallee
    <3> QED BY <3>2, <3>4, <3>5, <3>6 DEF AtCallee, Idle
  <2>10. Waiting'
    BY <1>9, <2>3, <2>4, <2>9 DEF Waiting
  <2>11. CallAtWork'
    BY <2>2, <2>5 DEF CallAtWork
  <2>12. outcome' = "ready" => current' = First /\ callStack' = <<>>
    BY <1>4, <1>5, <1>6, <2>2 DEF StepReturns
  <2>13. PathInv'
    BY <2>6, <2>7, <2>8, <2>10, <2>11, <2>12 DEF PathInv
  <2>14. LoopsInside' = S \cap Loops /\ CallsInside' = S \cap Calls
    BY <2>2, <2>3, <2>5 DEF LoopsInside, CallsInside, Suspended
  <2> QED BY <1>8, <2>2, <2>13, <2>14
<1>12. CASE NextOf[m] = NULL /\ S = {}
  <2>1. current' = First /\ callStack' = <<>> /\ start' = First
    BY <1>4, <1>5, <1>6, <1>12 DEF Following, DeleteHead, StepReturns
  <2> QED BY <1>8, <1>12, <2>1, PathFromFirst
<1>13. CASE NextOf[m] = NULL /\ S # {}
  <2> DEFINE t == stack[1]
  <2>1. /\ stack # <<>> /\ t \in S /\ \A n \in S : n # t => Level[n] < Level[t]
        /\ DeleteHead(stack) \in Seq(Nodes) /\ Descending(DeleteHead(stack))
        /\ Elements(DeleteHead(stack)) = S \ {t}
    BY <1>6, <1>13, HeadIsDeepest, DeleteHeadDescends
  <2>2. current' = t /\ callStack' = DeleteHead(stack)
    BY <1>4, <1>13, <2>1 DEF Following
  <2>3. state' = st /\ argsDone' = ar /\ calleeState' = cl
    BY <1>4, <1>13, NoReset DEF KeepsSuspended
  <2> HIDE DEF t
  <2>4. Suspended' = S \ {t} /\ OnPath' = S
    BY <2>1, <2>2 DEF Suspended, OnPath
  <2>5. PathDescends'
    BY <2>1, <2>2, <2>4 DEF PathDescends
  <2>6. StartsAtBottom'
    BY <1>4, <1>5, <1>13, <2>4 DEF StepReturns, StartsAtBottom
  <2>7. ASSUME NEW c \in S \cap Calls PROVE AtParameter(c)' \/ AtCallee(c)'
    <3>1. CASE AtParameter(c)
      BY <1>2, <1>10, <2>3, <2>4, <2>7, <3>1 DEF AtParameter, Idle
    <3>2. CASE AtCallee(c)
      BY <1>2, <1>10, <2>3, <2>4, <2>7, <3>2 DEF AtCallee, Idle
    <3> QED BY <1>10, <2>7, <3>1, <3>2
  <2>8. Waiting'
    BY <1>9, <2>3, <2>4, <2>7 DEF Waiting
  <2>9. t \in Calls => InCall(t)'
    BY <2>1, <2>7 DEF AtParameter, AtCallee, Idle, InCall
  <2>10. CallAtWork'
    BY <2>1, <2>2, <2>7 DEF CallAtWork, AtParameter, AtCallee
  <2>11. outcome' = "running"
    BY <1>4, <1>5, <1>13 DEF StepReturns
  <2>12. PathInv'
    BY <1>3, <2>4, <2>5, <2>6, <2>8, <2>10, <2>11 DEF PathInv
  <2>13. t \in Loops => state'[t] # 0
    BY <1>9, <2>1, <2>3
  <2>14. LoopsInside' = S \cap Loops
    BY <2>1, <2>2, <2>4, <2>13 DEF LoopsInside, Suspended
  <2>15. CallsInside' = S \cap Calls
    BY <2>1, <2>2, <2>4, <2>9 DEF CallsInside, Suspended
  <2> QED BY <2>1, <2>2, <2>11, <2>12, <2>14, <2>15
<1> QED BY <1>11, <1>12, <1>13

-----------------------------------------------------------------------------
(***************************************************************************)
(* The contexts a step function pushes and pops.                           *)
(***************************************************************************)
LEMMA ContextFacts ==
  ASSUME IInv, Sound
  PROVE  /\ exitContext \in Seq(Nodes) /\ Descending(exitContext)
         /\ Elements(exitContext) = LoopsInside
         /\ returnContext \in Seq(Nodes) /\ Descending(returnContext)
         /\ Elements(returnContext) = CallsInside
BY DEF IInv, Exact, ListsIntact, ExitContextMatches, ReturnContextMatches

\* The head of the list is the current node, and it is dropped.
LEMMA PopCurrent ==
  ASSUME IInv, Sound, NEW X, current \in X, NEW s \in Seq(Nodes), Descending(s),
         Elements(s) = OnPath \cap X
  PROVE  /\ DeleteHead(s) \in Seq(Nodes) /\ Descending(DeleteHead(s))
         /\ Elements(DeleteHead(s)) = Suspended \cap X
<1>1. /\ OnPath = Suspended \cup {current} /\ current \notin Suspended
      /\ \A n \in OnPath : Level[n] \in Nat
      /\ \A n \in Suspended : Level[n] < Level[current]
  BY PathFacts
<1>2. current \in Elements(s)
  BY <1>1
<1>3. s # <<>>
  BY <1>2, EmptyElements
<1>4. s[1] \in OnPath /\ (current # s[1] => Level[current] < Level[s[1]])
  BY <1>2, <1>3, HeadIsDeepest
<1>5. s[1] = current
  BY <1>1, <1>4
<1> QED BY <1>1, <1>3, <1>5, DeleteHeadDescends

\* A loop at work is registered once, whether it is new or goes on.
LEMMA LoopRegistered ==
  ASSUME IInv, Sound, current \in Loops
  PROVE  /\ ExitContextsIn(current) \in Seq(Nodes) /\ Descending(ExitContextsIn(current))
         /\ Elements(ExitContextsIn(current)) = OnPath \cap Loops
<1>1. /\ OnPath = Suspended \cup {current} /\ current \in Nodes
      /\ \A n \in Suspended : Level[n] < Level[current]
  BY PathFacts
<1>2. /\ exitContext \in Seq(Nodes) /\ Descending(exitContext)
      /\ Elements(exitContext) = LoopsInside
  BY ContextFacts
<1>3. CASE state[current] # 0
  BY <1>1, <1>2, <1>3 DEF ExitContextsIn, LoopsInside, Suspended
<1>4. CASE state[current] = 0
  <2>1. Elements(exitContext) = Suspended \cap Loops
    BY <1>2, <1>4 DEF LoopsInside, Suspended
  <2>2. \A n \in Elements(exitContext) : Level[n] < Level[current]
    BY <1>1, <2>1
  <2> QED BY <1>1, <1>2, <1>4, <2>1, <2>2, PrependDeeper DEF ExitContextsIn
<1> QED BY <1>3, <1>4

\* A call is, too: a call that pushes again is the only one, for it belongs to
\* the program itself.
LEMMA CallRegistered ==
  ASSUME IInv, Sound, current \in Calls
  PROVE  /\ ReturnContextsIn(current) \in Seq(Nodes) /\ Descending(ReturnContextsIn(current))
         /\ Elements(ReturnContextsIn(current)) = OnPath \cap Calls
<1>1. /\ OnPath = Suspended \cup {current} /\ current \in Nodes
      /\ \A n \in Suspended : Level[n] < Level[current]
      /\ PathInv /\ Nested(OnPath) /\ current \notin Suspended
  BY PathFacts
<1>2. /\ returnContext \in Seq(Nodes) /\ Descending(returnContext)
      /\ Elements(returnContext) = CallsInside
  BY ContextFacts
<1>3. CASE state[current] # 0
  BY <1>1, <1>2, <1>3 DEF ReturnContextsIn, CallsInside, InCall, Suspended
<1>4. CASE state[current] = 0 /\ ~ InCall(current)
  <2>1. Elements(returnContext) = Suspended \cap Calls
    BY <1>2, <1>4 DEF CallsInside, Suspended
  <2>2. \A n \in Elements(returnContext) : Level[n] < Level[current]
    BY <1>1, <2>1
  <2> QED BY <1>1, <1>2, <1>4, <2>1, <2>2, PrependDeeper DEF ReturnContextsIn
<1>5. CASE state[current] = 0 /\ InCall(current)
  <2>1. PushesAgain(current)
    BY <1>1, <1>5 DEF PathInv, CallAtWork, InCall, Idle, PushesAgain, EnteredState
  <2>2. current \notin ExpressionNodes
    BY Disciplined DEF Calls, ExpressionNodes
  <2>3. Suspended \cap Calls = {}
    BY <1>1, <2>1, <2>2, Disciplined DEF Nested
  <2>4. Elements(returnContext) = {current} /\ OnPath \cap Calls = {current}
    BY <1>1, <1>2, <1>5, <2>3 DEF CallsInside, Suspended
  <2>5. Prepend(returnContext, current) = returnContext
    BY <1>1, <1>2, <2>4, OnlyElement
  <2> QED BY <1>2, <1>5, <2>4, <2>5 DEF ReturnContextsIn
<1> QED BY <1>3, <1>4, <1>5

\* What a step function that is no call and no loop finds and leaves.
LEMMA OthersUnregistered ==
  ASSUME IInv, Sound
  PROVE  /\ current \notin Loops => LoopsInside = Suspended \cap Loops
                                  /\ LoopsInside = OnPath \cap Loops
         /\ current \notin Calls => CallsInside = Suspended \cap Calls
                                  /\ CallsInside = OnPath \cap Calls
BY PathFacts DEF LoopsInside, CallsInside, Suspended

-----------------------------------------------------------------------------
(***************************************************************************)
(* The results of the step functions.                                      *)
(***************************************************************************)
LEMMA StackBelowCurrent ==
  ASSUME IInv, Sound
  PROVE  /\ callStack \in Seq(Nodes) /\ Descending(callStack) /\ current \in OnPath
         /\ Elements(callStack) = {n \in OnPath : Level[n] < Level[current]}
         /\ Elements(callStack) = Suspended
<1>1. /\ PathInv /\ ListsIntact /\ OnPath = Suspended \cup {current}
      /\ \A n \in OnPath : Level[n] \in Nat
      /\ \A n \in Suspended : Level[n] < Level[current]
  BY PathFacts
<1> QED BY <1>1 DEF ListsIntact, PathInv, PathDescends, Suspended

LEMMA NowKeeps ==
  ASSUME IInv, Sound, NEW s \in 0..6, NEW S, S \subseteq Suspended
  PROVE  KeepsSuspended(S, Now(current, s), argsDone, calleeState)
<1>1. InvokeTypes(state, argsDone, calleeState) /\ current \notin Suspended
      /\ Suspended \subseteq Nodes /\ current \in Nodes
  BY PathFacts
<1> QED BY <1>1 DEF KeepsSuspended, Now, InvokeTypes, AtCallee, AtParameter, Idle

LEMMA DescendExact ==
  ASSUME IInv, outcome = "running", current \notin Calls, NEW s \in 0..6, NEW part,
         StepsInto(current, part), Descend(current, s, part),
         \/ current \notin Loops /\ UNCHANGED contexts
         \/ current \in Loops /\ s # 0 /\ LoopGoesOn(current)
  PROVE  Exact'
<1>1. Sound
  BY DEF Sound
<1>2. current \in Loops => Now(current, s)[current] # 0
  BY <1>1, PathFacts DEF Now, InvokeTypes
<1>3. KeepsSuspended(Suspended, Now(current, s), argsDone, calleeState)
      /\ WaitsFor(part, Now(current, s), argsDone, calleeState)
  BY <1>1, <1>2, NowKeeps DEF WaitsFor
<1>4. /\ PathInv' /\ callStack' \in Seq(Nodes) /\ outcome' = "running"
      /\ LoopsInside' = OnPath \cap Loops /\ CallsInside' = OnPath \cap Calls
  BY <1>3, SwitchPath DEF Descend
<1>5. exitContext' \in Seq(Nodes) /\ Descending(exitContext')
      /\ Elements(exitContext') = OnPath \cap Loops
  BY <1>1, ContextFacts, LoopRegistered, OthersUnregistered DEF LoopGoesOn, contexts
<1>6. returnContext' \in Seq(Nodes) /\ Descending(returnContext')
      /\ Elements(returnContext') = OnPath \cap Calls
  BY <1>1, ContextFacts, OthersUnregistered DEF LoopGoesOn, contexts
<1> QED BY <1>4, <1>5, <1>6 DEF Exact, ListsIntact, ExitContextMatches, ReturnContextMatches

LEMMA FinishExact ==
  ASSUME IInv, outcome = "running", current \notin Calls, NEW s \in 0..6,
         Finish(current, s),
         \/ current \notin Loops /\ UNCHANGED contexts
         \/ current \in Loops /\ LoopEnds(current)
  PROVE  Exact'
<1>1. Sound
  BY DEF Sound
<1>3. /\ callStack \in Seq(Nodes) /\ Descending(callStack) /\ current \in OnPath
      /\ Elements(callStack) = {n \in OnPath : Level[n] < Level[current]}
      /\ Elements(callStack) = Suspended
  BY <1>1, StackBelowCurrent
<1>4. KeepsSuspended(Suspended, Now(current, s), argsDone, calleeState)
  BY <1>1, NowKeeps
<1>5. /\ PathInv' /\ callStack' \in Seq(Nodes) /\ outcome' \in {"running", "ready"}
      /\ LoopsInside' = Suspended \cap Loops /\ CallsInside' = Suspended \cap Calls
  BY <1>3, <1>4, FinishPath DEF Finish
<1>6. exitContext' \in Seq(Nodes) /\ Descending(exitContext')
      /\ Elements(exitContext') = Suspended \cap Loops
  BY <1>1, ContextFacts, LoopRegistered, PopCurrent, OthersUnregistered
     DEF LoopEnds, contexts
<1>7. returnContext' \in Seq(Nodes) /\ Descending(returnContext')
      /\ Elements(returnContext') = Suspended \cap Calls
  BY <1>1, ContextFacts, OthersUnregistered DEF LoopEnds, contexts
<1> QED BY <1>5, <1>6, <1>7 DEF Exact, ListsIntact, ExitContextMatches, ReturnContextMatches

LEMMA StayExact ==
  ASSUME IInv, outcome = "running", current \in Loops, NEW s \in 1..6,
         StayAt(Now(current, s)), LoopGoesOn(current)
  PROVE  Exact'
<1>1. Sound /\ current \notin Calls
  BY DEF Sound, Loops, Calls
<1>2. /\ PathInv /\ ListsIntact /\ current \in Nodes
      /\ OnPath = Suspended \cup {current} /\ current \notin Suspended
      /\ Suspended \subseteq Nodes /\ InvokeTypes(state, argsDone, calleeState)
  BY <1>1, PathFacts
<1>3. /\ state' = Now(current, s) /\ argsDone' = argsDone /\ calleeState' = calleeState
      /\ current' = current /\ callStack' = callStack /\ start' = start
      /\ outcome' = outcome
  BY DEF StayAt
<1>4. state'[current] # 0 /\ \A n \in Suspended : state'[n] = state[n]
  BY <1>2, <1>3 DEF Now, InvokeTypes
<1>5. Suspended' = Suspended /\ OnPath' = OnPath
  BY <1>3 DEF Suspended, OnPath
<1>6. PathDescends' /\ Nested(OnPath') /\ StartsAtBottom' /\ CallAtWork'
  BY <1>1, <1>2, <1>3, <1>5
     DEF PathInv, PathDescends, StartsAtBottom, CallAtWork
<1>7. ASSUME NEW c \in Suspended \cap Calls PROVE AtParameter(c)' \/ AtCallee(c)'
  <2>1. AtParameter(c) \/ AtCallee(c)
    BY <1>2, <1>7 DEF PathInv, Waiting
  <2> QED BY <1>3, <1>4, <1>5, <1>7, <2>1 DEF AtParameter, AtCallee, Idle
<1>8. Waiting'
  BY <1>2, <1>4, <1>5, <1>7 DEF PathInv, Waiting
<1>9. PathInv'
  BY <1>2, <1>3, <1>6, <1>8 DEF PathInv
<1>10. LoopsInside' = OnPath \cap Loops /\ CallsInside' = OnPath \cap Calls
  BY <1>1, <1>2, <1>3, <1>4 DEF LoopsInside, CallsInside, Suspended
<1>11. /\ exitContext' \in Seq(Nodes) /\ Descending(exitContext')
       /\ Elements(exitContext') = OnPath \cap Loops
  BY <1>1, LoopRegistered DEF LoopGoesOn
<1>12. /\ returnContext' \in Seq(Nodes) /\ Descending(returnContext')
       /\ Elements(returnContext') = OnPath \cap Calls
  BY <1>1, ContextFacts, OthersUnregistered DEF LoopGoesOn
<1> QED
  BY <1>2, <1>3, <1>9, <1>10, <1>11, <1>12
     DEF Exact, ListsIntact, ExitContextMatches, ReturnContextMatches

\* After an error nothing is promised of the lists but that they are intact.
LEMMA FailExact ==
  ASSUME IInv, outcome = "running", NEW st, NEW ar, FailNode(st, ar),
         exitContext' \in Seq(Nodes), returnContext' \in Seq(Nodes)
  PROVE  Exact'
<1>1. callStack' \in Seq(Nodes) /\ outcome' = "failed"
  BY DEF FailNode, IInv, Exact, ListsIntact
<1> QED BY <1>1 DEF Exact, ListsIntact, Sound, ExitContextMatches, ReturnContextMatches

-----------------------------------------------------------------------------
(***************************************************************************)
(* The step functions.                                                     *)
(***************************************************************************)
LEMMA StateOfCurrent ==
  ASSUME IInv, Sound
  PROVE  current \in Nodes /\ state[current] \in 0..6
BY DEF IInv, TypeOK

LEMMA EvaluationExact ==
  ASSUME IInv, outcome = "running", current \in Evaluations, Evaluate(current)
  PROVE  Exact'
<1> DEFINE n == current
<1>1. /\ n \in Nodes /\ Operands[n] \in Seq(Optional) /\ Len(Operands[n]) \in 1..6
      /\ n \notin Loops \cup Calls
  BY ProgramTypes, ProgramShape DEF Evaluations, Loops, Calls
<1>2. state[n] \in 0..6 /\ UNCHANGED contexts /\ Sound
  BY StateOfCurrent DEF Evaluate, Sound
<1>3. ASSUME NEW i \in OperandsLeft(n, state[n]), Descend(n, i, Operands[n][i])
      PROVE  Exact'
  <2>1. i \in 0..6 /\ Operands[n][i] \in OperandsOf(n)
    BY <1>1, <1>2 DEF OperandsLeft, OperandsOf
  <2> QED BY <1>1, <1>2, <1>3, <2>1, DescendExact DEF StepsInto
<1>4. CASE Finish(n, state[n])
  BY <1>1, <1>2, <1>4, FinishExact
<1>5. CASE FailNode(state, argsDone)
  BY <1>2, <1>5, FailExact, ContextFacts DEF contexts
<1> QED BY <1>3, <1>4, <1>5 DEF Evaluate

LEMMA SelectionExact ==
  ASSUME IInv, outcome = "running", current \in Selections, Select(current),
         UNCHANGED contexts
  PROVE  Exact'
<1> DEFINE n == current
<1>1. /\ n \in Nodes /\ Operands[n] \in Seq(Optional) /\ Len(Operands[n]) = 1
      /\ n \notin Loops \cup Calls
  BY ProgramTypes, ProgramShape DEF Selections, Loops, Calls
<1>2. CASE Ask(n)
  <2>1. Operands[n][1] \in OperandsOf(n)
    BY <1>1, <1>2 DEF Ask, OperandsOf
  <2> QED BY <1>1, <1>2, <2>1, DescendExact DEF Ask, StepsInto
<1>3. CASE \E b \in Branches[n] \ {NULL} : Descend(n, 2, b)
  BY <1>1, <1>3, DescendExact DEF StepsInto
<1>4. CASE Finish(n, 2)
  BY <1>1, <1>4, FinishExact
<1> QED BY <1>2, <1>3, <1>4 DEF Select

\* The condition, bound or body of a loop.
LEMMA LoopDescends ==
  ASSUME IInv, outcome = "running", current \in Loops, NEW s \in 1..6,
         LoopGoesOn(current), NEW part, Descend(current, s, part),
         \/ part = Body[current]
         \/ part # NULL /\ \E i \in 1..Len(Operands[current]) : part = Operands[current][i]
  PROVE  Exact'
<1>1. StepsInto(current, part) /\ current \notin Calls
  BY DEF StepsInto, OperandsOf, Loops, Calls
<1> QED BY <1>1, DescendExact

LEMMA WhileExact ==
  ASSUME IInv, NEW n, WhileIterates(n) \/ WhileEnds(n)
  PROVE  Exact'
<1>1. outcome = "running" /\ current = n /\ Kind[n] = "while"
  BY DEF WhileIterates, WhileEnds, Stepping
<1>2. n \in Loops /\ n \notin Calls /\ Len(Operands[n]) = 1 /\ state[n] \in 0..6
  BY <1>1, StateOfCurrent, ProgramShape DEF Loops, Calls, Sound
<1>3. CASE Operands[n][1] # NULL /\ Descend(n, 2, Operands[n][1]) /\ LoopGoesOn(n)
  BY <1>1, <1>2, <1>3, LoopDescends
<1>4. CASE Descend(n, 1, Body[n]) /\ LoopGoesOn(n)
  BY <1>1, <1>2, <1>4, LoopDescends
<1>5. CASE Finish(n, state[n]) /\ LoopEnds(n)
  BY <1>1, <1>2, <1>5, FinishExact
<1> QED BY <1>3, <1>4, <1>5 DEF WhileIterates, WhileEnds

LEMMA RepeatExact ==
  ASSUME IInv, NEW n, RepeatIterates(n) \/ RepeatEnds(n)
  PROVE  Exact'
<1>1. outcome = "running" /\ current = n /\ Kind[n] = "repeat"
  BY DEF RepeatIterates, RepeatEnds, Stepping
<1>2. n \in Loops /\ n \notin Calls /\ Len(Operands[n]) = 1 /\ state[n] \in 0..6
  BY <1>1, StateOfCurrent, ProgramShape DEF Loops, Calls, Sound
<1>3. CASE Operands[n][1] # NULL /\ Descend(n, 3, Operands[n][1]) /\ LoopGoesOn(n)
  BY <1>1, <1>2, <1>3, LoopDescends
<1>4. CASE Descend(n, 2, Body[n]) /\ LoopGoesOn(n)
  BY <1>1, <1>2, <1>4, LoopDescends
<1>5. CASE StayAt(Now(n, 1)) /\ LoopGoesOn(n)
  BY <1>1, <1>2, <1>5, StayExact
<1>6. CASE Finish(n, state[n]) /\ LoopEnds(n)
  BY <1>1, <1>2, <1>6, FinishExact
<1> QED BY <1>3, <1>4, <1>5, <1>6 DEF RepeatIterates, RepeatEnds

LEMMA ForExact ==
  ASSUME IInv, NEW n, ForIterates(n) \/ ForFails(n) \/ ForEnds(n)
  PROVE  Exact'
<1>1. outcome = "running" /\ current = n /\ Kind[n] = "for" /\ Sound
  BY DEF ForIterates, ForFails, ForEnds, Stepping, Sound
<1>2. n \in Loops /\ n \notin Calls /\ Len(Operands[n]) = 3 /\ state[n] \in 0..6
  BY <1>1, StateOfCurrent, ProgramShape DEF Loops, Calls
<1>3. CASE /\ LoopGoesOn(n)
           /\ \/ From(n) # NULL /\ Descend(n, 1, From(n))
              \/ To(n) # NULL /\ Descend(n, 3, To(n))
              \/ By(n) # NULL /\ Descend(n, 6, By(n))
  BY <1>1, <1>2, <1>3, LoopDescends DEF From, To, By
<1>4. CASE Descend(n, 5, Body[n]) /\ LoopGoesOn(n)
  BY <1>1, <1>2, <1>4, LoopDescends
<1>5. CASE StayAt(Now(n, 2)) /\ LoopGoesOn(n)
  BY <1>1, <1>2, <1>5, StayExact
<1>6. CASE FailNode(state, argsDone) /\ LoopGoesOn(n)
  BY <1>1, <1>2, <1>6, FailExact, LoopRegistered, ContextFacts DEF LoopGoesOn
<1>7. CASE Finish(n, state[n]) /\ LoopEnds(n)
  BY <1>1, <1>2, <1>7, FinishExact
<1> QED BY <1>3, <1>4, <1>5, <1>6, <1>7 DEF ForIterates, ForFails, ForEnds

\* A call's callee is not at work further down: there is no recursion.
LEMMA NoRecursion ==
  ASSUME IInv, Sound, current \in Calls, NEW c \in Suspended \cap Calls, AtCallee(c)
  PROVE  Callee[c] # Callee[current]
<1>1. /\ OnPath = Suspended \cup {current} /\ current \in Nodes
      /\ \A n \in Suspended : Level[n] < Level[current]
      /\ \A n \in OnPath : n \in Nodes /\ Level[n] \in Nat
  BY PathFacts
<1>2. Entry[Callee[c]] # NULL /\ Level[Entry[Callee[c]]] <= Level[current]
  BY <1>1 DEF AtCallee
<1>3. Entry[Callee[c]] \in Nodes
  BY <1>2, ProgramTypes, ProgramShape DEF Optional
<1>4. Entry[Callee[current]] # NULL => Level[current] < Level[Entry[Callee[current]]]
  BY Nesting
<1> QED BY <1>1, <1>2, <1>3, <1>4, LevelType

\* What a call passes on to the cursor.
LEMMA CallStates ==
  ASSUME IInv, Sound, current \in Calls
  PROVE  /\ KeepsSuspended(Suspended, StateAtCallee(current), ArgsAtCallee(current),
                           [calleeState EXCEPT ![Callee[current]] = 1])
         /\ KeepsSuspended(Suspended, Now(current, 2), ArgsAtCallee(current),
                           CalleeFinished(Callee[current]))
         /\ KeepsSuspended(Suspended, Now(current, 2), argsDone, calleeState)
<1>1. /\ current \in Nodes /\ current \notin Suspended /\ Suspended \subseteq Nodes
      /\ InvokeTypes(state, argsDone, calleeState)
  BY PathFacts
<1>2. Operands[current] \in Seq(Optional) /\ Callee[current] \in Callees
  BY <1>1, ProgramTypes, ProgramShape
<1>3. \A s \in 0..6 : /\ Now(current, s) \in [Nodes -> 0..6]
                      /\ \A m \in Suspended : Now(current, s)[m] = state[m]
  BY <1>1 DEF Now, InvokeTypes
<1>4. /\ StateAtCallee(current) \in [Nodes -> 0..6]
      /\ \A m \in Suspended : StateAtCallee(current)[m] = state[m]
  BY <1>1, <1>3 DEF StateAtCallee, InvokeTypes
<1>5. /\ ArgsAtCallee(current) \in [Nodes -> Nat]
      /\ \A m \in Suspended : ArgsAtCallee(current)[m] = argsDone[m]
  BY <1>1, <1>2 DEF ArgsAtCallee, InvokeTypes
<1>6. ASSUME NEW c \in Suspended \cap Calls, AtCallee(c)
      PROVE  /\ calleeState[Callee[c]] # 0
             /\ [calleeState EXCEPT ![Callee[current]] = 1][Callee[c]] # 0
             /\ CalleeFinished(Callee[current])[Callee[c]] # 0
  <2>1. calleeState[Callee[c]] # 0 /\ Callee[c] \in Callees
    BY <1>6, ProgramShape DEF AtCallee, Idle
  <2>2. Callee[c] # Callee[current]
    BY <1>6, NoRecursion
  <2> QED BY <1>1, <2>1, <2>2 DEF InvokeTypes, CalleeFinished
<1>7. /\ [calleeState EXCEPT ![Callee[current]] = 1] \in [Callees -> 0..1]
      /\ CalleeFinished(Callee[current]) \in [Callees -> 0..1]
  BY <1>1, <1>2 DEF InvokeTypes, CalleeFinished
<1>8. ASSUME NEW c \in Suspended \cap Calls PROVE ~ AtParameter(c)
  <2>1. current \notin ExpressionNodes
    BY Disciplined DEF Calls, ExpressionNodes
  <2> QED BY <1>1, <1>8, <2>1, PathFacts DEF AtParameter
<1> QED BY <1>1, <1>3, <1>4, <1>5, <1>6, <1>7, <1>8 DEF KeepsSuspended, InvokeTypes

LEMMA CallDescends ==
  ASSUME IInv, outcome = "running", current \in Calls,
         NEW t, NEW st, NEW ar, NEW cl, KeepsSuspended(Suspended, st, ar, cl),
         WaitsFor(t, st, ar, cl), SwitchCurrent(t, st, ar, cl),
         returnContext' = ReturnContextsIn(current), UNCHANGED exitContext
  PROVE  Exact'
<1>1. Sound /\ current \notin Loops
  BY DEF Sound, Loops, Calls
<1>2. /\ PathInv' /\ callStack' \in Seq(Nodes) /\ outcome' = "running"
      /\ LoopsInside' = OnPath \cap Loops /\ CallsInside' = OnPath \cap Calls
  BY SwitchPath
<1>3. exitContext' \in Seq(Nodes) /\ Descending(exitContext')
      /\ Elements(exitContext') = OnPath \cap Loops
  BY <1>1, ContextFacts, OthersUnregistered
<1>4. returnContext' \in Seq(Nodes) /\ Descending(returnContext')
      /\ Elements(returnContext') = OnPath \cap Calls
  BY <1>1, CallRegistered
<1> QED BY <1>2, <1>3, <1>4 DEF Exact, ListsIntact, ExitContextMatches, ReturnContextMatches

LEMMA CallExact ==
  ASSUME IInv, outcome = "running", current \in Calls, CallStep(current)
  PROVE  Exact'
<1> DEFINE n == current
<1>1. Sound /\ n \notin Loops
  BY DEF Sound, Loops, Calls
<1>2. /\ n \in Nodes /\ n \notin Suspended
      /\ InvokeTypes(state, argsDone, calleeState)
      /\ Operands[n] \in Seq(Optional) /\ Callee[n] \in Callees
  BY <1>1, PathFacts, ProgramTypes, ProgramShape
<1>3. ReturnContextsIn(n) \in Seq(Nodes) /\ exitContext \in Seq(Nodes)
  BY <1>1, CallRegistered, ContextFacts
<1>4. CASE CallStepsParameter(n)
  <2> PICK i \in ParametersLeft(n) :
        SwitchCurrent(Operands[n][i], state, [argsDone EXCEPT ![n] = i], calleeState)
    BY <1>4 DEF CallStepsParameter
  <2>1. state[n] = 0 /\ i \in Nat /\ i # 0 /\ Operands[n][i] \in OperandsOf(n)
    BY <1>2 DEF ParametersLeft, OperandsLeft, OperandsOf, InvokeTypes
  <2>2. KeepsSuspended(Suspended, state, [argsDone EXCEPT ![n] = i], calleeState)
    BY <1>2, <2>1 DEF KeepsSuspended, InvokeTypes, AtCallee, AtParameter, Idle
  <2>3. WaitsFor(Operands[n][i], state, [argsDone EXCEPT ![n] = i], calleeState)
    <3>1. calleeState[Callee[n]] = 0
      BY <1>1, <1>2, <2>1, PathFacts
         DEF PathInv, CallAtWork, EnteredState, Idle, OperandsOf
    <3> QED BY <1>1, <1>2, <2>1, <3>1 DEF WaitsFor, StepsInto, InvokeTypes
  <2> QED BY <1>4, <2>2, <2>3, CallDescends DEF CallStepsParameter
<1>5. CASE CallBegins(n)
  <2>1. state[n] = 0
    BY <1>1, <1>5, PathFacts DEF CallBegins, PathInv, CallAtWork
  <2>2. WaitsFor(Entry[Callee[n]], StateAtCallee(n), ArgsAtCallee(n),
                 [calleeState EXCEPT ![Callee[n]] = 1])
    <3>1. StepsInto(n, Entry[Callee[n]])
      BY <1>5 DEF CallBegins, StepsInto
    <3>2. [calleeState EXCEPT ![Callee[n]] = 1][Callee[n]] # 0
      BY <1>2 DEF InvokeTypes
    <3>3. StateAtCallee(n)[n] = EnteredState(n)
      BY <1>2, <1>5, <2>1 DEF CallBegins, StateAtCallee, Now, InvokeTypes, EnteredState
    <3> QED BY <1>1, <3>1, <3>2, <3>3 DEF WaitsFor
  <2>3. KeepsSuspended(Suspended, StateAtCallee(n), ArgsAtCallee(n),
                       [calleeState EXCEPT ![Callee[n]] = 1])
    BY <1>1, CallStates
  <2> QED BY <1>5, <2>2, <2>3, CallDescends DEF CallBegins
<1>6. CASE CallFails(n)
  BY <1>3, <1>6, FailExact DEF CallFails
<1>7. CASE CallEnds(n)
  <2>1. /\ callStack \in Seq(Nodes) /\ Descending(callStack) /\ n \in OnPath
        /\ Elements(callStack) = {m \in OnPath : Level[m] < Level[n]}
        /\ Elements(callStack) = Suspended
    BY <1>1, StackBelowCurrent
  <2>2. /\ PathInv' /\ callStack' \in Seq(Nodes) /\ outcome' \in {"running", "ready"}
        /\ LoopsInside' = Suspended \cap Loops /\ CallsInside' = Suspended \cap Calls
    <3>1. CASE FinishNode(n, callStack, Now(n, 2), ArgsAtCallee(n), CalleeFinished(Callee[n]))
      BY <1>1, <2>1, <3>1, CallStates, FinishPath
    <3>2. CASE Finish(n, 2)
      BY <1>1, <2>1, <3>2, CallStates, FinishPath DEF Finish
    <3> QED BY <1>7, <3>1, <3>2 DEF CallEnds
  <2>3. exitContext' \in Seq(Nodes) /\ Descending(exitContext')
        /\ Elements(exitContext') = Suspended \cap Loops
    BY <1>1, <1>7, ContextFacts, OthersUnregistered DEF CallEnds
  <2>4. returnContext' \in Seq(Nodes) /\ Descending(returnContext')
        /\ Elements(returnContext') = Suspended \cap Calls
    BY <1>1, <1>7, CallRegistered, PopCurrent DEF CallEnds
  <2> QED BY <2>2, <2>3, <2>4 DEF Exact, ListsIntact, ExitContextMatches, ReturnContextMatches
<1> QED BY <1>4, <1>5, <1>6, <1>7 DEF CallStep

\* A jump to a suspended node that takes the contexts above it along.
LEMMA JumpExact ==
  ASSUME IInv, outcome = "running", NEW h \in Suspended, JumpTo(h),
         exitContext' \in Seq(Nodes), Descending(exitContext'),
         returnContext' \in Seq(Nodes), Descending(returnContext'),
         Elements(exitContext') = {l \in Suspended \cap Loops : Level[l] < Level[h]},
         Elements(returnContext') = {c \in Suspended \cap Calls : Level[c] < Level[h]}
  PROVE  Exact'
<1>1. Sound
  BY DEF Sound
<1>2. /\ OnPath = Suspended \cup {current} /\ InvokeTypes(state, argsDone, calleeState)
      /\ \A n \in OnPath : Level[n] \in Nat
      /\ \A n \in Suspended : Level[n] < Level[current]
      /\ callStack \in Seq(Nodes) /\ Descending(callStack) /\ Elements(callStack) = Suspended
  BY <1>1, PathFacts, StackBelowCurrent
<1> DEFINE stack == UnwindTo(callStack, h)
<1>3. /\ stack \in Seq(Nodes) /\ Descending(stack)
      /\ Elements(stack) = {n \in Suspended : Level[n] < Level[h]}
  BY <1>2, UnwindDescends
<1>4. FinishNode(h, stack, state, argsDone, calleeState)
  BY DEF JumpTo
<1> HIDE DEF stack
<1>5. Elements(stack) = {n \in OnPath : Level[n] < Level[h]} /\ h \in OnPath
  BY <1>2, <1>3
<1>6. KeepsSuspended(Elements(stack), state, argsDone, calleeState)
  BY <1>2 DEF KeepsSuspended, AtCallee, AtParameter, Idle
<1>7. /\ PathInv' /\ callStack' \in Seq(Nodes) /\ outcome' \in {"running", "ready"}
      /\ LoopsInside' = Elements(stack) \cap Loops
      /\ CallsInside' = Elements(stack) \cap Calls
  BY <1>3, <1>4, <1>5, <1>6, FinishPath
<1>8. /\ Elements(exitContext') = LoopsInside'
      /\ Elements(returnContext') = CallsInside'
  BY <1>3, <1>7
<1> QED BY <1>7, <1>8 DEF Exact, ListsIntact, ExitContextMatches, ReturnContextMatches

\* EXIT: the innermost loop is LoopOf, and no call is in between.
LEMMA ExitExact ==
  ASSUME IInv, NEW n, ExitStep(n)
  PROVE  Exact'
<1>1. outcome = "running" /\ current = n /\ Kind[n] = "exit" /\ Sound
  BY DEF ExitStep, Stepping, Sound
<1>2. /\ OnPath = Suspended \cup {n} /\ n \notin Suspended /\ n \in Nodes
      /\ \A m \in OnPath : Level[m] \in Nat
      /\ \A m \in Suspended : Level[m] < Level[n]
      /\ Elements(callStack) = Suspended /\ Nested(OnPath)
  BY <1>1, PathFacts, StackBelowCurrent
<1>3. n \notin Loops \cup Calls \cup ExpressionNodes
  BY <1>1 DEF Loops, Calls, ExpressionNodes
<1>4. /\ exitContext \in Seq(Nodes) /\ Descending(exitContext)
      /\ Elements(exitContext) = Suspended \cap Loops
      /\ returnContext \in Seq(Nodes) /\ Descending(returnContext)
      /\ Elements(returnContext) = Suspended \cap Calls
  BY <1>1, <1>3, ContextFacts, OthersUnregistered
<1> DEFINE l == LoopOf[n]
<1>5. /\ l \in Suspended \cap Loops
      /\ \A m \in Suspended : Level[l] < Level[m] => m \notin Loops \cup Calls
  <2>1. l # NULL /\ l \in Loops
    BY <1>1, <1>2, Disciplined, Nesting
  <2>2. /\ l \in OnPath /\ Level[l] < Level[n]
        /\ \A m \in OnPath : Level[l] < Level[m] /\ Level[m] < Level[n]
                               => m \notin Loops \cup Calls
    BY <1>2, <1>3, <2>1 DEF Nested
  <2> QED BY <1>2, <2>1, <2>2
<1> HIDE DEF l
<1>6. exitContext # <<>> /\ exitContext[1] = l
  <2>1. exitContext # <<>>
    BY <1>4, <1>5, EmptyElements
  <2> QED BY <1>2, <1>4, <1>5, <2>1, HeadIsDeepest
<1>7. JumpExit
  BY <1>1, <1>2, <1>5, <1>6 DEF ExitStep, JumpExitCrashes, CanUnwind
<1>8. /\ exitContext' \in Seq(Nodes) /\ Descending(exitContext')
      /\ Elements(exitContext') = {m \in Suspended \cap Loops : Level[m] < Level[l]}
  <2>1. \A m \in Suspended \cap Loops : m # l => Level[m] < Level[l]
    BY <1>4, <1>6, HeadIsDeepest
  <2> QED BY <1>2, <1>4, <1>5, <1>6, <1>7, <2>1, DeleteHeadDescends DEF JumpExit
<1>9. Elements(returnContext) = {c \in Suspended \cap Calls : Level[c] < Level[l]}
  <2>1. \A c \in Suspended \cap Calls : c # l
    BY <1>5 DEF Loops, Calls
  <2>2. \A c \in Suspended \cap Calls : Level[c] # Level[l]
    BY <1>2, <1>5, <2>1 DEF Nested
  <2> QED BY <1>2, <1>4, <1>5, <2>2
<1> QED BY <1>1, <1>4, <1>5, <1>6, <1>7, <1>8, <1>9, JumpExact DEF JumpExit

\* The lists of a cursor at the cycle's start are empty.
LEMMA NothingRegistered ==
  ASSUME IInv, Sound, current = First, callStack = <<>>
  PROVE  exitContext = <<>> /\ returnContext = <<>>
<1>1. Suspended = {} /\ current \notin Loops \cup Calls
  BY FirstNested DEF Suspended, Elements
<1>2. Elements(exitContext) = {} /\ Elements(returnContext) = {}
  BY <1>1, ContextFacts, OthersUnregistered
<1> QED BY <1>2, ContextFacts, EmptyElements

LEMMA EmptyExact ==
  ASSUME PathInv', LoopsInside' = {}, CallsInside' = {}, outcome' # "crashed",
         callStack' = <<>>, exitContext' = <<>>, returnContext' = <<>>
  PROVE  Exact'
BY DEF Exact, ListsIntact, ExitContextMatches, ReturnContextMatches, Descending, Elements

\* RETURN: in a callee the innermost call, and no loop is in between; in the
\* program itself nothing is suspended and nothing registered.
LEMMA ReturnExact ==
  ASSUME IInv, NEW n, ReturnStep(n)
  PROVE  Exact'
<1>1. outcome = "running" /\ current = n /\ Kind[n] = "return" /\ Sound
  BY DEF ReturnStep, Stepping, Sound
<1>2. /\ OnPath = Suspended \cup {n} /\ n \notin Suspended /\ n \in Nodes
      /\ \A m \in OnPath : m \in Nodes /\ Level[m] \in Nat
      /\ \A m \in Suspended : Level[m] < Level[n]
      /\ Elements(callStack) = Suspended /\ Nested(OnPath) /\ PathInv
      /\ callStack \in Seq(Nodes)
  BY <1>1, PathFacts, StackBelowCurrent
<1>3. n \notin Loops \cup Calls \cup ExpressionNodes /\ LoopOf[n] = NULL
  BY <1>1, <1>2, Disciplined DEF Loops, Calls, ExpressionNodes
<1>4. /\ exitContext \in Seq(Nodes) /\ Descending(exitContext)
      /\ Elements(exitContext) = Suspended \cap Loops
      /\ returnContext \in Seq(Nodes) /\ Descending(returnContext)
      /\ Elements(returnContext) = Suspended \cap Calls
  BY <1>1, <1>3, ContextFacts, OthersUnregistered
<1>5. CASE CalleeOf[n] # NULL
  <2>1. Suspended \cap Calls # {}
    BY <1>2, <1>3, <1>5 DEF Nested
  <2>2. returnContext # <<>>
    BY <1>4, <2>1, EmptyElements
  <2> DEFINE h == returnContext[1]
  <2>3. /\ h \in Suspended \cap Calls
        /\ \A c \in Suspended \cap Calls : c # h => Level[c] < Level[h]
    BY <1>4, <2>2, HeadIsDeepest
  <2>4. JumpReturn
    BY <1>1, <1>2, <2>2, <2>3 DEF ReturnStep, AllFinished, JumpReturnCrashes, CanUnwind
  <2>5. /\ returnContext' \in Seq(Nodes) /\ Descending(returnContext')
        /\ Elements(returnContext') = (Suspended \cap Calls) \ {h}
    BY <1>4, <2>2, <2>4, DeleteHeadDescends DEF JumpReturn
  <2>6. JumpTo(h) /\ exitContext' = exitContext
    BY <2>4 DEF JumpReturn
  <2> HIDE DEF h
  <2>7. Elements(returnContext') = {c \in Suspended \cap Calls : Level[c] < Level[h]}
    BY <1>2, <2>3, <2>5
  <2>8. ASSUME NEW l \in Suspended \cap Loops PROVE Level[l] < Level[h]
    <3>1. PICK c \in OnPath \cap Calls : Level[l] < Level[c] /\ Level[c] < Level[n]
      BY <1>2, <1>3, <2>8 DEF Nested
    <3>2. c \in Suspended
      BY <1>2, <1>3, <3>1
    <3> QED BY <1>2, <2>3, <2>8, <3>1, <3>2
  <2>9. Elements(exitContext) = {l \in Suspended \cap Loops : Level[l] < Level[h]}
    BY <1>4, <2>8
  <2> QED BY <1>1, <1>4, <2>3, <2>5, <2>6, <2>7, <2>9, JumpExact
<1>6. CASE CalleeOf[n] = NULL
  <2>1. HeadOf[n] = First
    BY <1>1, <1>2, <1>6, Disciplined
  <2>2. Suspended = {}
    <3>1. /\ start \in OnPath /\ HeadOf[start] = First
          /\ \A m \in OnPath : m # start => Level[m] > Level[start]
      BY <1>2 DEF PathInv, StartsAtBottom
    <3>2. Level[n] = Level[start]
      BY <1>2, <2>1, <3>1, Nesting
    <3> QED BY <1>2, <3>1, <3>2
  <2>3. callStack = <<>> /\ exitContext = <<>> /\ returnContext = <<>>
    BY <1>2, <1>4, <2>2, EmptyElements
  <2>4. AllFinished
    BY <1>1, <2>3 DEF ReturnStep, JumpReturn, JumpReturnCrashes
  <2>5. PathInv' /\ LoopsInside' = {} /\ CallsInside' = {}
    BY <2>3, <2>4, PathFromFirst DEF AllFinished
  <2>6. exitContext' = <<>> /\ returnContext' = <<>> /\ callStack' = <<>>
        /\ outcome' = "ready"
    BY <2>3, <2>4 DEF AllFinished
  <2> QED BY <2>5, <2>6, EmptyExact
<1> QED BY <1>5, <1>6

LEMMA StepExact ==
  ASSUME IInv, Step
  PROVE  Exact'
<1> PICK n \in Nodes :
      \/ EmptyStep(n) \/ AssignStep(n) \/ ExpressionStep(n)
      \/ IfStep(n) \/ CaseStep(n)
      \/ WhileIterates(n) \/ WhileEnds(n)
      \/ RepeatIterates(n) \/ RepeatEnds(n)
      \/ ForIterates(n) \/ ForFails(n) \/ ForEnds(n)
      \/ InvokeStep(n) \/ TermStep(n)
      \/ ExitStep(n) \/ ReturnStep(n)
  BY DEF Step
<1>1. CASE EmptyStep(n)
  <2>1. /\ outcome = "running" /\ current = n /\ n \notin Loops \cup Calls
        /\ Finish(n, state[n]) /\ UNCHANGED contexts
    BY <1>1 DEF EmptyStep, Stepping, Loops, Calls
  <2>2. state[n] \in 0..6
    BY <2>1, StateOfCurrent DEF Sound
  <2> QED BY <2>1, <2>2, FinishExact
<1>2. CASE AssignStep(n) \/ ExpressionStep(n)
  <2>1. outcome = "running" /\ current = n /\ n \in Evaluations /\ Evaluate(n)
    BY <1>2 DEF AssignStep, ExpressionStep, Stepping, Evaluations
  <2> QED BY <2>1, EvaluationExact
<1>3. CASE IfStep(n) \/ CaseStep(n)
  <2>1. /\ outcome = "running" /\ current = n /\ n \in Selections
        /\ UNCHANGED contexts /\ Sound
    BY <1>3 DEF IfStep, CaseStep, Stepping, Selections, Sound
  <2>2. CASE Select(n)
    BY <2>1, <2>2, SelectionExact
  <2>3. CASE FailNode(state, argsDone)
    BY <2>1, <2>3, FailExact, ContextFacts DEF contexts
  <2> QED BY <1>3, <2>2, <2>3 DEF IfStep, CaseStep
<1>4. CASE InvokeStep(n) \/ TermStep(n)
  <2>1. outcome = "running" /\ current = n /\ n \in Calls /\ CallStep(n)
    BY <1>4 DEF InvokeStep, TermStep, Stepping, Calls
  <2> QED BY <2>1, CallExact
<1> QED BY <1>1, <1>2, <1>3, <1>4, WhileExact, RepeatExact, ForExact, ExitExact, ReturnExact

\* TypeOK is inductive by itself; Exact is inductive with it.
LEMMA InvariantInit == Init => IInv
<1> SUFFICES ASSUME Init PROVE IInv
  OBVIOUS
<1>1. /\ current = First /\ start = First /\ outcome = "ready"
      /\ callStack = <<>> /\ exitContext = <<>> /\ returnContext = <<>>
  BY DEF Init
<1>2. PathInv /\ LoopsInside = {} /\ CallsInside = {}
  BY <1>1, PathAtFirst
<1>3. Exact
  BY <1>1, <1>2 DEF Exact, ListsIntact, ExitContextMatches, ReturnContextMatches,
                    Descending, Elements
<1> QED BY <1>3, InitTypes DEF IInv

LEMMA InvariantStep == IInv /\ [Next]_vars => IInv'
<1> SUFFICES ASSUME IInv, [Next]_vars PROVE IInv'
  OBVIOUS
<1>1. TypeOK'
  BY NextTypes DEF IInv
<1>2. CASE Step
  BY <1>1, <1>2, StepExact DEF IInv
<1>3. CASE RunCycle
  <2>1. outcome = "ready" /\ Sound
    BY <1>3, Disciplined DEF RunCycle, Sound
  <2>2. current = First /\ callStack = <<>>
    BY <2>1, PathFacts DEF PathInv
  <2>3. exitContext = <<>> /\ returnContext = <<>>
    BY <2>1, <2>2, NothingRegistered
  <2>4. Exact'
    BY <1>3, <2>2, <2>3, PathFromFirst, EmptyExact DEF RunCycle, contexts
  <2> QED BY <1>1, <2>4 DEF IInv
<1>4. CASE Restart
  BY <1>1, <1>4, PathFromFirst, EmptyExact DEF Restart, IInv
<1>5. CASE UNCHANGED vars
  BY <1>1, <1>5
     DEF vars, IInv, Exact, ListsIntact, Sound, PathInv, PathDescends, StartsAtBottom,
         Waiting, AtParameter, AtCallee, CallAtWork, InCall, Idle, OnPath, Suspended,
         ExitContextMatches, ReturnContextMatches, LoopsInside, CallsInside
<1> QED BY <1>2, <1>3, <1>4, <1>5 DEF Next

LEMMA Inductive == Spec => []IInv
BY InvariantInit, InvariantStep, PTL DEF Spec

-----------------------------------------------------------------------------
\* On every disciplined program, whatever its loops, calls and jumps do and
\* however its cycles end, EXIT finds the loops that control is inside of, each
\* once, innermost first (push_exit_context, pop_exit_context, jump_exit).
THEOREM ExitContextsExact == Spec => []ExitContextMatches
<1>1. IInv => ExitContextMatches
  BY DEF IInv, Exact
<1> QED BY <1>1, Inductive, PTL

\* The same of RETURN and the calls, although a call pushes its context again on
\* every visit in state 0 (invoke_statement_step, jump_return).
THEOREM ReturnContextsExact == Spec => []ReturnContextMatches
<1>1. IInv => ReturnContextMatches
  BY DEF IInv, Exact
<1> QED BY <1>1, Inductive, PTL

\* No jump looks for a node that is not on the call stack, and no list becomes a
\* ring: the null pointer and the endless loop in jump_exit, jump_return and
\* DL_PREPEND2 are out of reach of a disciplined program.
THEOREM JumpsAreSafe == Spec => []NeverCrashes
<1>1. IInv => NeverCrashes
  <2> SUFFICES ASSUME IInv PROVE NeverCrashes
    OBVIOUS
  <2>1. <<TANGLED>> \notin Seq(Nodes)
    <3> SUFFICES ASSUME <<TANGLED>> \in Seq(Nodes) PROVE FALSE
      OBVIOUS
    <3>1. <<TANGLED>>[1] \in Nodes
      OBVIOUS
    <3> QED BY <3>1, Nesting
  <2> QED BY <2>1 DEF IInv, Exact, ListsIntact, NeverCrashes, Tangled
<1> QED BY <1>1, Inductive, PTL

\* A cycle that ends, by its last statement, by a RETURN of the program or by a
\* restart after an error, leaves nothing behind (set_current_to_next,
\* INVOKE_RESULT_ALL_FINISHED, switch_cycle_start).
THEOREM CyclesEndClean == Spec => []CleanAtCycleEnd
<1>1. IInv => CleanAtCycleEnd
  <2> SUFFICES ASSUME IInv, outcome = "ready"
               PROVE  /\ current = First /\ callStack = <<>>
                      /\ exitContext = <<>> /\ returnContext = <<>>
    BY DEF CleanAtCycleEnd
  <2>1. current = First /\ callStack = <<>>
    BY PathFacts DEF PathInv, Sound
  <2>2. exitContext = <<>> /\ returnContext = <<>>
    BY <2>1, NothingRegistered DEF Sound
  <2> QED BY <2>1, <2>2
<1> QED BY <1>1, Inductive, PTL

-----------------------------------------------------------------------------
(***************************************************************************)
(* Control paths as sequences.                                             *)
(***************************************************************************)

\* Every node of s but the head waits for the list that the node above is in.
Chained(st, ar, s) ==
  /\ \A i \in 1..(Len(s) - 1) : Awaits(st, ar, s[i + 1], HeadOf[s[i]])
  /\ HeadOf[s[Len(s)]] = First

PathNests == Chained(state, argsDone, ControlPath)

LEMMA Extended ==
  ASSUME NEW s \in Seq(Nodes), NEW x \in Nodes
  PROVE  /\ <<x>> \o s \in Seq(Nodes) /\ <<x>> \o s # <<>>
         /\ Len(<<x>> \o s) = Len(s) + 1 /\ (<<x>> \o s)[1] = x
         /\ \A i \in 1..Len(s) : (<<x>> \o s)[i + 1] = s[i]
         /\ \A i \in 2..(Len(s) + 1) : (<<x>> \o s)[i] = s[i - 1]
         /\ Tail(<<x>> \o s) = s
OBVIOUS

LEMMA AwaitsSame ==
  ASSUME NEW n, NEW h, NEW st, NEW ar, NEW su, NEW as, Awaits(st, ar, n, h),
         su[n] = st[n], as[n] = ar[n]
  PROVE  Awaits(su, as, n, h)
BY DEF Awaits

\* What is awaited depends on the states of the nodes below the head only.
LEMMA ChainSame ==
  ASSUME NEW s \in Seq(Nodes), s # <<>>, NEW st, NEW ar, Chained(st, ar, s), NEW su, NEW as,
         \A i \in 2..Len(s) : su[s[i]] = st[s[i]] /\ as[s[i]] = ar[s[i]]
  PROVE  Chained(su, as, s)
<1> SUFFICES ASSUME NEW i \in 1..(Len(s) - 1)
             PROVE  Awaits(su, as, s[i + 1], HeadOf[s[i]])
  BY DEF Chained
<1>1. Awaits(st, ar, s[i + 1], HeadOf[s[i]])
  BY DEF Chained
<1>2. su[s[i + 1]] = st[s[i + 1]] /\ as[s[i + 1]] = ar[s[i + 1]]
  <2>1. i + 1 \in 2..Len(s)
    OBVIOUS
  <2> QED BY <2>1
<1> QED BY <1>1, <1>2, AwaitsSame

LEMMA ChainPush ==
  ASSUME NEW s \in Seq(Nodes), s # <<>>, NEW st, NEW ar, Chained(st, ar, s),
         NEW t \in Nodes, Awaits(st, ar, s[1], HeadOf[t])
  PROVE  Chained(st, ar, <<t>> \o s)
<1> DEFINE p == <<t>> \o s
<1>1. /\ Len(p) = Len(s) + 1 /\ p[1] = t /\ Len(s) \in Nat /\ Len(s) # 0
      /\ \A i \in 1..Len(s) : p[i + 1] = s[i]
  BY Extended
<1> HIDE DEF p
<1>2. ASSUME NEW i \in 1..(Len(p) - 1) PROVE Awaits(st, ar, p[i + 1], HeadOf[p[i]])
  <2>1. CASE i = 1
    BY <1>1, <2>1
  <2>2. CASE i # 1
    <3>1. i - 1 \in 1..(Len(s) - 1) /\ p[i + 1] = s[(i - 1) + 1]
      BY <1>1, <2>2
    <3>2. p[i] = s[i - 1]
      <4>1. p[(i - 1) + 1] = s[i - 1]
        BY <1>1, <3>1
      <4> QED BY <4>1
    <3> QED BY <3>1, <3>2 DEF Chained
  <2> QED BY <2>1, <2>2
<1>3. p[Len(p)] = s[Len(s)]
  BY <1>1
<1> QED BY <1>2, <1>3 DEF Chained, p

\* r is what is left of s without the k nodes at its head.
LEMMA ChainRest ==
  ASSUME NEW s \in Seq(Nodes), NEW st, NEW ar, Chained(st, ar, s),
         NEW k \in Nat, NEW r \in Seq(Nodes), r # <<>>, Len(r) = Len(s) - k,
         \A i \in 1..Len(r) : r[i] = s[i + k]
  PROVE  Chained(st, ar, r)
<1>1. Len(r) \in Nat /\ Len(r) # 0 /\ Len(r) \in 1..Len(r) /\ Len(s) \in Nat
  OBVIOUS
<1>2. r[Len(r)] = s[Len(s)]
  BY <1>1
<1>3. ASSUME NEW i \in 1..(Len(r) - 1) PROVE Awaits(st, ar, r[i + 1], HeadOf[r[i]])
  <2>1. i \in 1..Len(r) /\ i + 1 \in 1..Len(r) /\ i + k \in 1..(Len(s) - 1)
    BY <1>1
  <2>2. r[i] = s[i + k] /\ r[i + 1] = s[(i + k) + 1]
    BY <2>1
  <2> QED BY <2>1, <2>2 DEF Chained
<1> QED BY <1>2, <1>3 DEF Chained

\* Another node of the same list at the head.
LEMMA ChainNext ==
  ASSUME NEW s \in Seq(Nodes), NEW m \in Nodes, NEW t \in Nodes, HeadOf[t] = HeadOf[m],
         NEW st, NEW ar, Chained(st, ar, <<m>> \o s)
  PROVE  Chained(st, ar, <<t>> \o s)
<1> DEFINE p == <<m>> \o s
           q == <<t>> \o s
<1>1. /\ Len(p) = Len(s) + 1 /\ p[1] = m /\ Len(q) = Len(s) + 1 /\ q[1] = t
      /\ Len(s) \in Nat
      /\ \A i \in 2..(Len(s) + 1) : p[i] = s[i - 1]
      /\ \A i \in 2..(Len(s) + 1) : q[i] = s[i - 1]
  BY Extended
<1> HIDE DEF p, q
<1>2. \A i \in 2..(Len(s) + 1) : p[i] = q[i]
  BY <1>1
<1>3. \A i \in 1..(Len(s) + 1) : HeadOf[p[i]] = HeadOf[q[i]]
  BY <1>1, <1>2
<1>4. Chained(st, ar, p)
  BY DEF p
<1>5. ASSUME NEW i \in 1..(Len(q) - 1) PROVE Awaits(st, ar, q[i + 1], HeadOf[q[i]])
  <2>1. i \in 1..(Len(p) - 1) /\ i + 1 \in 2..(Len(s) + 1) /\ i \in 1..(Len(s) + 1)
    BY <1>1
  <2>2. Awaits(st, ar, p[i + 1], HeadOf[p[i]])
    BY <1>4, <2>1 DEF Chained
  <2> QED BY <1>2, <1>3, <2>1, <2>2
<1>6. HeadOf[q[Len(q)]] = First
  <2>1. Len(q) \in 1..(Len(s) + 1) /\ Len(q) = Len(p)
    BY <1>1
  <2> QED BY <1>3, <1>4, <2>1 DEF Chained
<1> QED BY <1>5, <1>6 DEF Chained, q

\* The path as a set.
LEMMA PathElements ==
  ASSUME NEW s \in Seq(Nodes), NEW x \in Nodes
  PROVE  Elements(<<x>> \o s) = Elements(s) \cup {x}
<1> DEFINE p == <<x>> \o s
<1>1. /\ Len(p) = Len(s) + 1 /\ p[1] = x /\ Len(s) \in Nat
      /\ \A i \in 1..Len(s) : p[i + 1] = s[i]
      /\ \A i \in 2..(Len(s) + 1) : p[i] = s[i - 1]
  BY Extended
<1> HIDE DEF p
<1>2. Elements(p) \subseteq Elements(s) \cup {x}
  BY <1>1 DEF Elements
<1>3. ASSUME NEW i \in 1..Len(s) PROVE s[i] \in Elements(p)
  <2>1. i + 1 \in 1..Len(p) /\ p[i + 1] = s[i]
    BY <1>1
  <2> QED BY <2>1 DEF Elements
<1>4. x \in Elements(p)
  BY <1>1 DEF Elements
<1>5. Elements(p) = Elements(s) \cup {x}
  BY <1>2, <1>3, <1>4 DEF Elements
<1> QED BY <1>5 DEF p
-----------------------------------------------------------------------------
(***************************************************************************)
(* The calls whose callee has been entered: the flag of the callee tells,  *)
(* for a call that is suspended has either been entered or is stepping a   *)
(* parameter.                                                              *)
(***************************************************************************)
Begun == {c \in OnPath \cap Calls : Entry[Callee[c]] # NULL /\ ~Idle(Callee[c])}

LEMMA AwaitsEntry ==
  ASSUME NEW c \in Calls, AtCallee(c), NEW h, Awaits(state, argsDone, c, h)
  PROVE  h = Entry[Callee[c]]
<1>1. /\ c \notin Evaluations \cup Selections
      /\ Kind[c] # "while" /\ Kind[c] # "repeat" /\ Kind[c] # "for"
  BY DEF Calls, Evaluations, Selections
<1>2. state[c] = IF Operands[c] = <<>> THEN 0 ELSE 1
  BY DEF AtCallee, EnteredState
<1>3. c \in Nodes /\ Operands[c] \in Seq(Optional)
  BY ProgramTypes DEF Calls
<1>4. state[c] = 0 => Operands[c] = <<>> /\ 1..Len(Operands[c]) = {}
  BY <1>2, <1>3
<1>5. \/ state[c] = 0 /\ \E i \in 1..Len(Operands[c]) : argsDone[c] = i /\ h = Operands[c][i]
      \/ h = Entry[Callee[c]]
  BY <1>1 DEF Awaits
<1> QED BY <1>4, <1>5

LEMMA PathFactsOfNests ==
  ASSUME IInv, Sound
  PROVE  /\ ControlPath \in Seq(Nodes) /\ ControlPath # <<>> /\ callStack \in Seq(Nodes)
         /\ Len(ControlPath) = Len(callStack) + 1 /\ ControlPath[1] = current
         /\ \A i \in 2..Len(ControlPath) : ControlPath[i] = callStack[i - 1]
         /\ \A i \in 2..Len(ControlPath) : ControlPath[i] \in Suspended
         /\ Elements(ControlPath) = OnPath
<1>1. callStack \in Seq(Nodes) /\ current \in Nodes
  BY PathFacts DEF ListsIntact
<1>2. /\ ControlPath \in Seq(Nodes) /\ ControlPath # <<>>
      /\ Len(ControlPath) = Len(callStack) + 1 /\ ControlPath[1] = current
      /\ \A i \in 2..Len(ControlPath) : ControlPath[i] = callStack[i - 1]
  BY <1>1, Extended DEF ControlPath
<1>3. \A i \in 2..Len(ControlPath) : i - 1 \in 1..Len(callStack)
  BY <1>1, <1>2
<1>4. \A i \in 2..Len(ControlPath) : ControlPath[i] \in Suspended
  BY <1>2, <1>3 DEF Suspended, Elements
<1>5. Elements(ControlPath) = OnPath
  BY <1>1, PathElements DEF ControlPath, OnPath
<1> QED BY <1>1, <1>2, <1>4, <1>5

FlagsTell == EnteredCalls = Begun

LEMMA EnteredByFlags == IInv /\ Sound /\ PathNests => FlagsTell
<1> SUFFICES ASSUME IInv, Sound, PathNests PROVE EnteredCalls = Begun
  BY DEF FlagsTell
<1>1. /\ Len(ControlPath) \in Nat /\ Elements(ControlPath) = OnPath
      /\ \A i \in 2..Len(ControlPath) : ControlPath[i] \in Suspended
  BY PathFactsOfNests
<1>2. EnteredCalls \subseteq Begun
  BY <1>1 DEF EnteredCalls, Begun, Elements
<1>3. ASSUME NEW k \in 1..Len(ControlPath), ControlPath[k] \in Begun
      PROVE  ControlPath[k] \in EnteredCalls
  <2> DEFINE c == ControlPath[k]
  <2>1. c \in Calls /\ Entry[Callee[c]] # NULL /\ ~Idle(Callee[c])
    BY <1>3 DEF Begun
  <2>2. ASSUME k # 1 PROVE HeadOf[ControlPath[k - 1]] = Entry[Callee[c]]
    <3>1. k - 1 \in 1..(Len(ControlPath) - 1) /\ k = (k - 1) + 1 /\ c \in Suspended
      BY <1>1, <2>2
    <3>2. Awaits(state, argsDone, c, HeadOf[ControlPath[k - 1]])
      <4>1. Awaits(state, argsDone, ControlPath[(k - 1) + 1], HeadOf[ControlPath[k - 1]])
        BY <3>1 DEF PathNests, Chained
      <4> QED BY <3>1, <4>1
    <3>3. AtCallee(c)
      BY <2>1, <3>1, PathFacts DEF PathInv, Waiting, AtParameter
    <3> QED BY <2>1, <3>2, <3>3, AwaitsEntry
  <2> QED BY <2>1, <2>2 DEF EnteredCalls
<1> QED BY <1>1, <1>2, <1>3 DEF Elements, Begun

LEMMA EnteredByFlagsNext == IInv' /\ Sound' /\ PathNests' => FlagsTell'
BY EnteredByFlags, PTL

-----------------------------------------------------------------------------
(***************************************************************************)
(* What the movements of the cursor change.                                *)
(***************************************************************************)
LEMMA CalleesKept ==
  ASSUME IInv, Sound, NEW S, S \subseteq Suspended, NEW t, NEW st, NEW ar, NEW cl,
         KeepsSuspended(S, st, ar, cl), ResetNode(t, st, ar, cl),
         \/ t = NULL
         \/ t \in Nodes /\ \A c \in S \cap Calls :
              AtCallee(c) => Level[Entry[Callee[c]]] <= Level[t]
  PROVE  \A c \in S \cap Calls : calleeState'[Callee[c]] = 0 <=> calleeState[Callee[c]] = 0
<1> SUFFICES ASSUME NEW c \in S \cap Calls
             PROVE  calleeState'[Callee[c]] = 0 <=> calleeState[Callee[c]] = 0
  OBVIOUS
<1>1. Callee[c] \in Callees
  BY ProgramShape
<1>2. AtParameter(c) \/ AtCallee(c)
  BY PathFacts DEF PathInv, Waiting
<1>3. CASE t = NULL
  <2>1. calleeState' = cl
    BY <1>3, NoReset DEF KeepsSuspended
  <2> QED BY <1>2, <2>1 DEF KeepsSuspended, AtParameter, AtCallee, Idle
<1>4. CASE t \in Nodes /\ AtParameter(c)
  <2>1. cl[Callee[c]] = 0 /\ calleeState[Callee[c]] = 0
    BY <1>4 DEF KeepsSuspended, AtParameter, Idle
  <2> QED BY <1>1, <1>4, <2>1, ResetKeepsIdle
<1>5. CASE t \in Nodes /\ t # NULL /\ AtCallee(c)
  <2>1. /\ cl[Callee[c]] # 0 /\ calleeState[Callee[c]] # 0 /\ Entry[Callee[c]] # NULL
        /\ Level[Entry[Callee[c]]] <= Level[t]
    BY <1>5 DEF KeepsSuspended, AtCallee, Idle
  <2>2. calleeState'[Callee[c]] = cl[Callee[c]]
    BY <1>5, <2>1, ResetKeepsCallee
  <2> QED BY <2>1, <2>2
<1> QED BY <1>2, <1>3, <1>4, <1>5

\* The current node is suspended below t, for which it waits.
MovesInto(t, st, ar, cl) ==
  /\ SwitchCurrent(t, st, ar, cl)
  /\ KeepsSuspended(Suspended, st, ar, cl) /\ WaitsFor(t, st, ar, cl)
  /\ Awaits(st, ar, current, t)

LEMMA IntoKeeps ==
  ASSUME IInv, outcome = "running", NEW t, NEW st, NEW ar, NEW cl, MovesInto(t, st, ar, cl)
  PROVE  /\ t \in Nodes /\ HeadOf[t] = t /\ t \notin OnPath /\ outcome' = "running"
         /\ ControlPath' = <<t>> \o ControlPath /\ OnPath' = OnPath \cup {t}
         /\ \A n \in OnPath : state'[n] = st[n] /\ argsDone'[n] = ar[n]
         /\ \A c \in Suspended \cap Calls :
              calleeState'[Callee[c]] = 0 <=> calleeState[Callee[c]] = 0
         /\ t \in Calls => calleeState'[Callee[t]] = 0
         /\ current \in Calls =>
              \/ cl[Callee[current]] = 0 /\ calleeState'[Callee[current]] = 0
              \/ /\ t = Entry[Callee[current]]
                 /\ cl[Callee[current]] # 0 /\ calleeState'[Callee[current]] # 0
<1>1. /\ current \in Nodes /\ callStack \in Seq(Nodes) /\ Descending(callStack)
      /\ Elements(callStack) = Suspended /\ Sound
      /\ Suspended \subseteq Nodes /\ OnPath = Suspended \cup {current}
      /\ \A n \in OnPath : n \in Nodes /\ Level[n] \in Nat
      /\ \A n \in Suspended : Level[n] < Level[current]
  BY PathFacts, StackBelowCurrent DEF Sound
<1>2. /\ ResetNode(t, st, ar, cl) /\ current' = t /\ outcome' = outcome
      /\ callStack' = Prepend(callStack, current) /\ WaitsFor(t, st, ar, cl)
      /\ KeepsSuspended(Suspended, st, ar, cl)
  BY DEF MovesInto, SwitchCurrent
<1>3. /\ t \in Nodes /\ t # NULL /\ HeadOf[t] = t
      /\ Level[current] < Level[t] /\ Level[t] \in Nat
  BY <1>1, <1>2, StepsDeeper, LevelType, ProgramTypes DEF WaitsFor
<1>4. callStack' = <<current>> \o callStack /\ Elements(callStack') = OnPath
  BY <1>1, <1>2, PrependDeeper
<1>5. ControlPath' = <<t>> \o ControlPath /\ OnPath' = OnPath \cup {t}
  BY <1>2, <1>4 DEF ControlPath, OnPath
<1>6. \A n \in OnPath : Level[n] < Level[t] /\ n # t
  BY <1>1, <1>3
<1>7. \A n \in OnPath : state'[n] = st[n] /\ argsDone'[n] = ar[n]
  BY <1>1, <1>2, <1>3, <1>6, ResetKeeps
<1>8. \A c \in Suspended \cap Calls :
        calleeState'[Callee[c]] = 0 <=> calleeState[Callee[c]] = 0
  <2>1. ASSUME NEW c \in Suspended \cap Calls, AtCallee(c)
        PROVE  Level[Entry[Callee[c]]] <= Level[t]
    <3>1. Entry[Callee[c]] \in Nodes /\ Level[Entry[Callee[c]]] \in Nat
      BY <2>1, ProgramTypes, ProgramShape, LevelType DEF AtCallee, Optional
    <3> QED BY <1>1, <1>3, <2>1, <3>1 DEF AtCallee
  <2> QED BY <1>1, <1>2, <1>3, <2>1, CalleesKept
<1>9. t \in Calls => calleeState'[Callee[t]] = 0
  BY <1>2, <1>3, ResetClears DEF Idle
<1>10. ASSUME current \in Calls
       PROVE  \/ cl[Callee[current]] = 0 /\ calleeState'[Callee[current]] = 0
              \/ /\ t = Entry[Callee[current]]
                 /\ cl[Callee[current]] # 0 /\ calleeState'[Callee[current]] # 0
  <2>1. CASE cl[Callee[current]] = 0
    BY <1>2, <1>3, <1>10, <2>1, ResetKeepsIdle, ProgramShape
  <2>2. CASE t = Entry[Callee[current]] /\ cl[Callee[current]] # 0
    BY <1>2, <1>3, <1>10, <2>2, ResetKeepsCallee
  <2> QED BY <1>2, <1>10, <2>1, <2>2 DEF WaitsFor
<1> QED BY <1>2, <1>3, <1>5, <1>6, <1>7, <1>8, <1>9, <1>10

LEMMA IntoNests ==
  ASSUME IInv, outcome = "running", PathNests,
         NEW t, NEW st, NEW ar, NEW cl, MovesInto(t, st, ar, cl)
  PROVE  PathNests'
<1>1. /\ ControlPath \in Seq(Nodes) /\ ControlPath # <<>> /\ ControlPath[1] = current
      /\ Elements(ControlPath) = OnPath /\ Len(ControlPath) \in Nat
      /\ \A i \in 2..Len(ControlPath) : ControlPath[i] \in Suspended
  BY PathFactsOfNests DEF Sound
<1>2. /\ t \in Nodes /\ HeadOf[t] = t /\ ControlPath' = <<t>> \o ControlPath
      /\ \A n \in OnPath : state'[n] = st[n] /\ argsDone'[n] = ar[n]
  BY IntoKeeps
<1>3. Chained(st, ar, ControlPath)
  <2>1. \A n \in Suspended : st[n] = state[n] /\ ar[n] = argsDone[n]
    BY DEF MovesInto, KeepsSuspended
  <2>2. Chained(state, argsDone, ControlPath)
    BY DEF PathNests
  <2> QED BY <1>1, <2>1, <2>2, ChainSame
<1> DEFINE p == <<t>> \o ControlPath
<1>4. Chained(st, ar, p)
  BY <1>1, <1>2, <1>3, ChainPush DEF MovesInto
<1>5. p \in Seq(Nodes) /\ p # <<>> /\ \A i \in 2..Len(p) : p[i] \in OnPath
  <2>1. /\ p \in Seq(Nodes) /\ p # <<>> /\ Len(p) = Len(ControlPath) + 1
        /\ \A i \in 2..(Len(ControlPath) + 1) : p[i] = ControlPath[i - 1]
    BY <1>1, <1>2, Extended
  <2>2. \A i \in 1..Len(ControlPath) : ControlPath[i] \in OnPath
    BY <1>1 DEF Elements
  <2> HIDE DEF p
  <2>3. \A i \in 2..Len(p) : i - 1 \in 1..Len(ControlPath) /\ p[i] = ControlPath[i - 1]
    BY <1>1, <2>1
  <2> QED BY <2>1, <2>2, <2>3
<1>6. Chained(state', argsDone', p)
  <2> HIDE DEF p
  <2> QED BY <1>2, <1>4, <1>5, ChainSame
<1> QED BY <1>2, <1>6 DEF PathNests
\* Node m of the path is done, and stack is what is suspended below it.
EndsAt(m, stack, st, ar, cl) ==
  /\ FinishNode(m, stack, st, ar, cl)
  /\ m \in OnPath /\ stack \in Seq(Nodes) /\ Descending(stack)
  /\ Elements(stack) = {n \in OnPath : Level[n] < Level[m]}
  /\ KeepsSuspended(Elements(stack), st, ar, cl)

LEMMA EndKeeps ==
  ASSUME IInv, outcome = "running", NEW m, NEW stack, NEW st, NEW ar, NEW cl,
         EndsAt(m, stack, st, ar, cl)
  PROVE  /\ m \in Nodes
         /\ ControlPath' = IF NextOf[m] # NULL THEN <<NextOf[m]>> \o stack
                           ELSE IF stack # <<>> THEN stack ELSE <<First>>
         /\ outcome' = IF stack = <<>> /\ NextOf[m] = NULL THEN "ready" ELSE "running"
         /\ \A n \in Elements(stack) : state'[n] = state[n] /\ argsDone'[n] = argsDone[n]
         /\ \A c \in Elements(stack) \cap Calls :
              calleeState'[Callee[c]] = 0 <=> calleeState[Callee[c]] = 0
         /\ NextOf[m] # NULL =>
              /\ NextOf[m] \in Nodes /\ HeadOf[NextOf[m]] = HeadOf[m]
              /\ NextOf[m] \in Calls => calleeState'[Callee[NextOf[m]]] = 0
<1> DEFINE S == Elements(stack)
           t == NextOf[m]
<1>1. /\ PathInv /\ Sound /\ OnPath = Suspended \cup {current}
      /\ \A n \in OnPath : n \in Nodes /\ Level[n] \in Nat
      /\ \A n \in Suspended : Level[n] < Level[current]
  BY PathFacts DEF Sound
<1>2. /\ S \subseteq Suspended /\ S \subseteq OnPath /\ m \in OnPath /\ m \in Nodes /\ m \notin S
      /\ stack \in Seq(Nodes) /\ Level[m] \in Nat
      /\ \A n \in S : Level[n] < Level[m]
      /\ S = {n \in OnPath : Level[n] < Level[m]}
      /\ KeepsSuspended(S, st, ar, cl)
  BY <1>1 DEF EndsAt
<1>3. /\ ResetNode(t, st, ar, cl) /\ current' = Following(m, stack)
      /\ callStack' = IF t # NULL THEN stack ELSE DeleteHead(stack)
      /\ StepReturns(m)
  BY DEF EndsAt, FinishNode
<1>4. S = {} <=> stack = <<>>
  BY <1>2, EmptyElements
<1>5. /\ m = start <=> stack = <<>>
      /\ m = start => HeadOf[m] = First
  <2>1. /\ start \in OnPath /\ HeadOf[start] = First
        /\ \A n \in OnPath : n # start => Level[n] > Level[start]
    BY <1>1 DEF PathInv, StartsAtBottom
  <2>3. \A n \in S : Level[start] < Level[m]
    BY <1>1, <1>2, <2>1
  <2>4. start \in S => m # start
    BY <1>2
  <2>5. m # start => start \in S
    BY <1>1, <1>2, <2>1
  <2>6. m = start => S = {}
    BY <1>2, <2>3
  <2> QED BY <1>4, <2>1, <2>5, <2>6
<1>6. t # NULL => t \in Nodes /\ HeadOf[t] = HeadOf[m] /\ t # HeadOf[m]
  BY <1>2, ProgramTypes, ProgramShape DEF Optional
<1>7. t # NULL => Level[t] = Level[m]
  BY <1>2, <1>6, Nesting
<1>8. ControlPath' = IF t # NULL THEN <<t>> \o stack
                     ELSE IF stack # <<>> THEN stack ELSE <<First>>
  <2>1. CASE t # NULL
    BY <1>3, <2>1 DEF ControlPath, Following
  <2>2. CASE t = NULL /\ stack = <<>>
    BY <1>3, <2>2 DEF ControlPath, Following, DeleteHead
  <2>3. CASE t = NULL /\ stack # <<>>
    <3>1. DeleteHead(stack) = Tail(stack)
      BY <1>2, <2>3, DeleteHeadDescends DEF EndsAt
    <3>2. <<stack[1]>> \o Tail(stack) = stack
      <4>1. 1 \in 1..Len(stack) /\ Len(stack) \in 1..Len(stack)
        BY <1>2, <2>3
      <4>2. stack = <<stack[1]>> \o SubSeq(stack, 2, Len(stack))
        BY <1>2, <4>1, SubSeqFull, SubSeqRecursiveFirst
      <4> QED BY <1>2, <2>3, <4>2, TailIsSubSeq
    <3> QED BY <1>3, <2>3, <3>1, <3>2 DEF ControlPath, Following
  <2> QED BY <2>1, <2>2, <2>3
<1>9. outcome' = IF stack = <<>> /\ t = NULL THEN "ready" ELSE "running"
  <2>1. CASE stack = <<>> /\ t = NULL
    BY <1>3, <1>5, <2>1 DEF StepReturns, Following
  <2>2. CASE stack = <<>> /\ t # NULL
    <3>1. current' = t /\ t # First
      BY <1>3, <1>5, <1>6, <2>2 DEF Following
    <3> QED BY <1>3, <1>5, <2>2, <3>1 DEF StepReturns
  <2>3. CASE stack # <<>>
    BY <1>3, <1>5, <2>3 DEF StepReturns
  <2> QED BY <2>1, <2>2, <2>3
<1>10. \A n \in S : state'[n] = state[n] /\ argsDone'[n] = argsDone[n]
  <2>1. \A n \in S : st[n] = state[n] /\ ar[n] = argsDone[n] /\ n \in Nodes
    BY <1>1, <1>2 DEF KeepsSuspended
  <2>2. CASE t = NULL
    BY <1>2, <1>3, <2>1, <2>2, NoReset DEF KeepsSuspended
  <2>3. CASE t # NULL
    BY <1>2, <1>3, <1>6, <1>7, <2>1, <2>3, ResetKeeps
  <2> QED BY <2>2, <2>3
<1>11. \A c \in S \cap Calls : calleeState'[Callee[c]] = 0 <=> calleeState[Callee[c]] = 0
  <2>1. ASSUME t # NULL, NEW c \in S \cap Calls, AtCallee(c)
        PROVE  Level[Entry[Callee[c]]] <= Level[t]
    BY <1>2, <1>7, <2>1 DEF AtCallee
  <2> HIDE DEF S, t
  <2> QED BY <1>1, <1>2, <1>3, <1>6, <2>1, CalleesKept
<1>12. t # NULL /\ t \in Calls => calleeState'[Callee[t]] = 0
  BY <1>3, <1>6, ResetClears DEF Idle
<1> QED BY <1>2, <1>6, <1>8, <1>9, <1>10, <1>11, <1>12

LEMMA EndNests ==
  ASSUME IInv, outcome = "running", PathNests, NEW m, NEW stack, NEW st, NEW ar, NEW cl,
         EndsAt(m, stack, st, ar, cl), Chained(state, argsDone, <<m>> \o stack)
  PROVE  PathNests'
<1>1. /\ m \in Nodes
      /\ ControlPath' = IF NextOf[m] # NULL THEN <<NextOf[m]>> \o stack
                        ELSE IF stack # <<>> THEN stack ELSE <<First>>
      /\ \A n \in Elements(stack) : state'[n] = state[n] /\ argsDone'[n] = argsDone[n]
      /\ NextOf[m] # NULL => NextOf[m] \in Nodes /\ HeadOf[NextOf[m]] = HeadOf[m]
  BY EndKeeps
<1>2. stack \in Seq(Nodes) /\ Len(stack) \in Nat
  BY DEF EndsAt
<1>3. /\ <<m>> \o stack \in Seq(Nodes) /\ Len(<<m>> \o stack) = Len(stack) + 1
      /\ \A i \in 1..Len(stack) : (<<m>> \o stack)[i + 1] = stack[i]
  BY <1>1, <1>2, Extended
<1>4. CASE NextOf[m] # NULL
  <2> DEFINE p == <<NextOf[m]>> \o stack
  <2>1. Chained(state, argsDone, p)
    BY <1>1, <1>2, <1>4, ChainNext
  <2>2. /\ p \in Seq(Nodes) /\ p # <<>> /\ Len(p) = Len(stack) + 1
        /\ \A i \in 2..(Len(stack) + 1) : p[i] = stack[i - 1]
    BY <1>1, <1>2, <1>4, Extended
  <2>3. ControlPath' = p
    BY <1>1, <1>4
  <2> HIDE DEF p
  <2>4. \A i \in 2..Len(p) : p[i] \in Elements(stack)
    <3>1. \A i \in 2..Len(p) : i - 1 \in 1..Len(stack) /\ p[i] = stack[i - 1]
      BY <1>2, <2>2
    <3> QED BY <3>1 DEF Elements
  <2>5. Chained(state', argsDone', p)
    <3>1. \A i \in 2..Len(p) :
            state'[p[i]] = state[p[i]] /\ argsDone'[p[i]] = argsDone[p[i]]
      BY <1>1, <2>4
    <3>2. Chained(state, argsDone, p)
      BY <2>1
    <3> QED BY <2>2, <3>1, <3>2, ChainSame
  <2>6. Chained(state', argsDone', ControlPath')
    BY <2>3, <2>5
  <2> QED BY <2>6 DEF PathNests
<1>5. CASE NextOf[m] = NULL /\ stack # <<>>
  <2> DEFINE q == <<m>> \o stack
  <2>1. Chained(state, argsDone, stack)
    <3> HIDE DEF q
    <3>1. Len(stack) = Len(q) - 1 /\ \A i \in 1..Len(stack) : stack[i] = q[i + 1]
      BY <1>2, <1>3 DEF q
    <3>2. q \in Seq(Nodes) /\ Chained(state, argsDone, q)
      BY <1>3 DEF q
    <3> QED BY <1>2, <1>5, <3>1, <3>2, ChainRest
  <2>2. \A i \in 2..Len(stack) : stack[i] \in Elements(stack)
    BY <1>2 DEF Elements
  <2>3. Chained(state', argsDone', stack)
    BY <1>1, <1>2, <1>5, <2>1, <2>2, ChainSame
  <2> QED BY <1>1, <1>5, <2>3 DEF PathNests
<1>6. CASE NextOf[m] = NULL /\ stack = <<>>
  BY <1>1, <1>6, ProgramShape DEF PathNests, Chained
<1> QED BY <1>4, <1>5, <1>6
-----------------------------------------------------------------------------
(***************************************************************************)
(* Every step of the interpreter is one of six movements.                  *)
(***************************************************************************)

\* The current node waits for one of its parts, which is entered ...
EntersPart ==
  \E t, st, ar, cl :
    /\ MovesInto(t, st, ar, cl) /\ t \in Parts(current)
    /\ current \in Calls => calleeState[Callee[current]] = 0 /\ cl[Callee[current]] = 0

\* ... or is a call that enters its callee's statements ...
EntersCallee ==
  \E t, st, ar, cl :
    /\ MovesInto(t, st, ar, cl) /\ current \in Calls /\ t = Entry[Callee[current]]
    /\ calleeState[Callee[current]] = 0 /\ cl[Callee[current]] # 0

\* ... or is done ...
Completes ==
  /\ \E st, ar, cl : EndsAt(current, callStack, st, ar, cl)
  /\ Kind[current] \notin {"exit", "return"}
  /\ current \in Calls /\ Entry[Callee[current]] # NULL => calleeState[Callee[current]] # 0

\* ... or jumps out of the innermost node of S that is suspended ...
JumpsOutOf(S) ==
  \E h \in Suspended \cap S :
    /\ JumpTo(h)
    /\ \A n \in Suspended \cap S : n # h => Level[n] < Level[h]

\* ... or the cycle is over ...
EndsCycle ==
  /\ Suspended \cap Calls = {} /\ Kind[current] = "return"
  /\ ControlPath' = <<First>> /\ current' = First /\ callStack' = <<>>
  /\ outcome' = "ready"

\* ... or nothing moves.
StaysPut ==
  /\ UNCHANGED <<current, callStack, calleeState>> /\ outcome' \in {"running", "failed"}
  /\ \A n \in Suspended : state'[n] = state[n] /\ argsDone'[n] = argsDone[n]

Movement ==
  \/ EntersPart \/ EntersCallee \/ Completes
  \/ Kind[current] = "exit" /\ JumpsOutOf(Loops)
  \/ Kind[current] = "return" /\ JumpsOutOf(Calls)
  \/ EndsCycle \/ StaysPut

LEMMA DescendMoves ==
  ASSUME IInv, outcome = "running", current \notin Calls, NEW s \in 1..6, NEW part,
         Descend(current, s, part), StepsInto(current, part), part \in Parts(current),
         ASSUME Now(current, s)[current] = s
         PROVE  Awaits(Now(current, s), argsDone, current, part)
  PROVE  EntersPart
<1>1. Sound
  BY DEF Sound
<1>2. Now(current, s)[current] = s
  BY <1>1, PathFacts DEF Now, InvokeTypes
<1>3. KeepsSuspended(Suspended, Now(current, s), argsDone, calleeState)
  BY <1>1, NowKeeps
<1>4. MovesInto(part, Now(current, s), argsDone, calleeState)
  BY <1>2, <1>3 DEF MovesInto, Descend, WaitsFor
<1> QED BY <1>4 DEF EntersPart

LEMMA FinishMoves ==
  ASSUME IInv, outcome = "running", current \notin Calls, NEW s \in 0..6,
         Finish(current, s), Kind[current] \notin {"exit", "return"}
  PROVE  Completes
<1>1. /\ callStack \in Seq(Nodes) /\ Descending(callStack) /\ current \in OnPath
      /\ Elements(callStack) = {n \in OnPath : Level[n] < Level[current]}
      /\ Elements(callStack) = Suspended
  BY StackBelowCurrent DEF Sound
<1>2. KeepsSuspended(Elements(callStack), Now(current, s), argsDone, calleeState)
  BY <1>1, NowKeeps DEF Sound
<1>3. EndsAt(current, callStack, Now(current, s), argsDone, calleeState)
  BY <1>1, <1>2 DEF EndsAt, Finish
<1> QED BY <1>3 DEF Completes

LEMMA FailMoves ==
  ASSUME IInv, outcome = "running", NEW st, NEW ar, FailNode(st, ar),
         \A n \in Suspended : st[n] = state[n] /\ ar[n] = argsDone[n]
  PROVE  StaysPut
BY DEF FailNode, StaysPut

LEMMA StayMoves ==
  ASSUME IInv, outcome = "running", NEW s \in 0..6, StayAt(Now(current, s))
  PROVE  StaysPut
<1>1. \A n \in Suspended : Now(current, s)[n] = state[n]
  BY PathFacts DEF Sound, Now, InvokeTypes
<1> QED BY <1>1 DEF StayAt, StaysPut

LEMMA EvaluationMoves ==
  ASSUME IInv, outcome = "running", current \in Evaluations, Evaluate(current)
  PROVE  Movement
<1> DEFINE n == current
<1>1. /\ n \in Nodes /\ Operands[n] \in Seq(Optional) /\ Len(Operands[n]) \in 1..6
      /\ n \notin Calls /\ Kind[n] \notin {"exit", "return"}
  BY ProgramTypes, ProgramShape DEF Evaluations, Calls
<1>2. state[n] \in 0..6
  BY StateOfCurrent DEF Sound
<1>3. ASSUME NEW i \in OperandsLeft(n, state[n]), Descend(n, i, Operands[n][i])
      PROVE  EntersPart
  <2>1. i \in 1..6 /\ i \in 1..Len(Operands[n]) /\ Operands[n][i] \in OperandsOf(n)
    BY <1>1, <1>2 DEF OperandsLeft, OperandsOf
  <2>2. StepsInto(n, Operands[n][i]) /\ Operands[n][i] \in Parts(n)
    BY <2>1 DEF StepsInto, Parts
  <2>3. ASSUME Now(n, i)[n] = i PROVE Awaits(Now(n, i), argsDone, n, Operands[n][i])
    BY <2>1, <2>3 DEF Awaits
  <2> QED BY <1>1, <1>3, <2>1, <2>2, <2>3, DescendMoves
<1>4. CASE Finish(n, state[n])
  BY <1>1, <1>2, <1>4, FinishMoves DEF Movement
<1>5. CASE FailNode(state, argsDone)
  BY <1>5, FailMoves DEF Movement
<1> QED BY <1>3, <1>4, <1>5 DEF Evaluate, Movement

LEMMA SelectionMoves ==
  ASSUME IInv, outcome = "running", current \in Selections, Select(current)
  PROVE  Movement
<1> DEFINE n == current
<1>1. /\ n \in Nodes /\ Operands[n] \in Seq(Optional) /\ Len(Operands[n]) = 1
      /\ n \notin Calls /\ Kind[n] \notin {"exit", "return"}
      /\ 1 \in 1..6 /\ 2 \in 1..6
  BY ProgramTypes, ProgramShape DEF Selections, Calls
<1>2. CASE Ask(n)
  <2>1. Operands[n][1] \in OperandsOf(n) /\ Descend(n, 1, Operands[n][1])
    BY <1>1, <1>2 DEF Ask, OperandsOf
  <2>2. StepsInto(n, Operands[n][1]) /\ Operands[n][1] \in Parts(n)
    BY <2>1 DEF StepsInto, Parts
  <2>3. ASSUME Now(n, 1)[n] = 1 PROVE Awaits(Now(n, 1), argsDone, n, Operands[n][1])
    BY <2>3 DEF Awaits
  <2>4. EntersPart
    BY <1>1, <2>1, <2>2, <2>3, DescendMoves
  <2> QED BY <2>4 DEF Movement
<1>3. ASSUME NEW b \in Branches[n] \ {NULL}, Descend(n, 2, b)
      PROVE  EntersPart
  <2>1. StepsInto(n, b) /\ b \in Parts(n)
    BY DEF StepsInto, Parts
  <2>2. ASSUME Now(n, 2)[n] = 2 PROVE Awaits(Now(n, 2), argsDone, n, b)
    BY <2>2 DEF Awaits
  <2> QED BY <1>1, <1>3, <2>1, <2>2, DescendMoves
<1>4. CASE Finish(n, 2)
  BY <1>1, <1>4, FinishMoves DEF Movement
<1> QED BY <1>2, <1>3, <1>4 DEF Select, Movement

LEMMA LoopMoves ==
  ASSUME IInv, outcome = "running", current \in Loops, NEW s \in 1..6, NEW part,
         Descend(current, s, part),
         \/ part = Body[current]
         \/ part # NULL /\ \E i \in 1..Len(Operands[current]) : part = Operands[current][i],
         \/ Kind[current] = "while" /\ <<s, part>> \in
              {<<1, Body[current]>>, <<2, Operands[current][1]>>}
         \/ Kind[current] = "repeat" /\ <<s, part>> \in
              {<<2, Body[current]>>, <<3, Operands[current][1]>>}
         \/ Kind[current] = "for" /\ <<s, part>> \in
              {<<1, From(current)>>, <<3, To(current)>>, <<5, Body[current]>>,
               <<6, By(current)>>}
  PROVE  Movement
<1>1. StepsInto(current, part) /\ current \notin Calls /\ current \in Nodes
  BY DEF StepsInto, OperandsOf, Loops, Calls
<1>2. Body[current] \in Nodes /\ Body[current] # NULL
  BY ProgramTypes, ProgramShape
<1>3. part \in Parts(current)
  BY <1>2 DEF Parts, OperandsOf
<1>4. ASSUME Now(current, s)[current] = s
      PROVE  Awaits(Now(current, s), argsDone, current, part)
  BY <1>4 DEF Awaits
<1>5. EntersPart
  BY <1>1, <1>3, <1>4, DescendMoves
<1> QED BY <1>5 DEF Movement
LEMMA WhileMoves ==
  ASSUME IInv, NEW n, WhileIterates(n) \/ WhileEnds(n)
  PROVE  Movement
<1>1. outcome = "running" /\ current = n /\ Kind[n] = "while"
  BY DEF WhileIterates, WhileEnds, Stepping
<1>2. /\ n \in Loops /\ n \notin Calls /\ Len(Operands[n]) = 1 /\ state[n] \in 0..6
      /\ Kind[n] \notin {"exit", "return"}
  BY <1>1, StateOfCurrent, ProgramShape DEF Loops, Calls, Sound
<1>3. CASE Operands[n][1] # NULL /\ Descend(n, 2, Operands[n][1])
  BY <1>1, <1>2, <1>3, LoopMoves
<1>4. CASE Descend(n, 1, Body[n])
  BY <1>1, <1>2, <1>4, LoopMoves
<1>5. CASE Finish(n, state[n])
  BY <1>1, <1>2, <1>5, FinishMoves DEF Movement
<1> QED BY <1>3, <1>4, <1>5 DEF WhileIterates, WhileEnds

LEMMA RepeatMoves ==
  ASSUME IInv, NEW n, RepeatIterates(n) \/ RepeatEnds(n)
  PROVE  Movement
<1>1. outcome = "running" /\ current = n /\ Kind[n] = "repeat"
  BY DEF RepeatIterates, RepeatEnds, Stepping
<1>2. /\ n \in Loops /\ n \notin Calls /\ Len(Operands[n]) = 1 /\ state[n] \in 0..6
      /\ Kind[n] \notin {"exit", "return"}
  BY <1>1, StateOfCurrent, ProgramShape DEF Loops, Calls, Sound
<1>3. CASE Operands[n][1] # NULL /\ Descend(n, 3, Operands[n][1])
  BY <1>1, <1>2, <1>3, LoopMoves
<1>4. CASE Descend(n, 2, Body[n])
  BY <1>1, <1>2, <1>4, LoopMoves
<1>5. CASE StayAt(Now(n, 1))
  BY <1>1, <1>5, StayMoves DEF Movement
<1>6. CASE Finish(n, state[n])
  BY <1>1, <1>2, <1>6, FinishMoves DEF Movement
<1> QED BY <1>3, <1>4, <1>5, <1>6 DEF RepeatIterates, RepeatEnds

LEMMA ForMoves ==
  ASSUME IInv, NEW n, ForIterates(n) \/ ForFails(n) \/ ForEnds(n)
  PROVE  Movement
<1>1. outcome = "running" /\ current = n /\ Kind[n] = "for" /\ Sound
  BY DEF ForIterates, ForFails, ForEnds, Stepping, Sound
<1>2. /\ n \in Loops /\ n \notin Calls /\ Len(Operands[n]) = 3 /\ state[n] \in 0..6
      /\ Kind[n] \notin {"exit", "return"}
  BY <1>1, StateOfCurrent, ProgramShape DEF Loops, Calls
<1>3. CASE From(n) # NULL /\ Descend(n, 1, From(n))
  BY <1>1, <1>2, <1>3, LoopMoves DEF From
<1>4. CASE To(n) # NULL /\ Descend(n, 3, To(n))
  BY <1>1, <1>2, <1>4, LoopMoves DEF To
<1>5. CASE By(n) # NULL /\ Descend(n, 6, By(n))
  BY <1>1, <1>2, <1>5, LoopMoves DEF By
<1>6. CASE Descend(n, 5, Body[n])
  BY <1>1, <1>2, <1>6, LoopMoves
<1>7. CASE StayAt(Now(n, 2))
  BY <1>1, <1>7, StayMoves DEF Movement
<1>8. CASE FailNode(state, argsDone)
  BY <1>1, <1>8, FailMoves DEF Movement
<1>9. CASE Finish(n, state[n])
  BY <1>1, <1>2, <1>9, FinishMoves DEF Movement
<1> QED BY <1>3, <1>4, <1>5, <1>6, <1>7, <1>8, <1>9 DEF ForIterates, ForFails, ForEnds

LEMMA CallMoves ==
  ASSUME IInv, outcome = "running", current \in Calls, CallStep(current)
  PROVE  Movement
<1> DEFINE n == current
<1>1. /\ Sound /\ n \notin Loops /\ n \in Nodes /\ n \notin Suspended
      /\ InvokeTypes(state, argsDone, calleeState) /\ CallAtWork
      /\ Operands[n] \in Seq(Optional) /\ Callee[n] \in Callees
      /\ Kind[n] \notin {"exit", "return"}
  BY PathFacts, ProgramTypes, ProgramShape DEF Sound, Loops, Calls, PathInv
<1>2. CASE CallStepsParameter(n)
  <2> DEFINE ar(i) == [argsDone EXCEPT ![n] = i]
  <2> PICK i \in ParametersLeft(n) : SwitchCurrent(Operands[n][i], state, ar(i), calleeState)
    BY <1>2 DEF CallStepsParameter
  <2>1. /\ state[n] = 0 /\ i \in 1..Len(Operands[n]) /\ i \in Nat /\ i # 0
        /\ Operands[n][i] \in OperandsOf(n)
    BY <1>1 DEF ParametersLeft, OperandsLeft, OperandsOf, InvokeTypes
  <2>2. KeepsSuspended(Suspended, state, ar(i), calleeState) /\ ar(i)[n] = i
    BY <1>1, <2>1 DEF KeepsSuspended, InvokeTypes, AtCallee, AtParameter, Idle
  <2>3. calleeState[Callee[n]] = 0
    BY <1>1, <2>1 DEF CallAtWork, EnteredState, Idle, OperandsOf
  <2>4. WaitsFor(Operands[n][i], state, ar(i), calleeState)
    BY <1>1, <2>1, <2>2, <2>3 DEF WaitsFor, StepsInto
  <2>5. Awaits(state, ar(i), n, Operands[n][i])
    BY <2>1, <2>2 DEF Awaits
  <2>6. MovesInto(Operands[n][i], state, ar(i), calleeState) /\ Operands[n][i] \in Parts(n)
    BY <2>1, <2>2, <2>4, <2>5 DEF MovesInto, Parts
  <2> HIDE DEF ar
  <2>7. EntersPart
    BY <2>3, <2>6 DEF EntersPart
  <2> QED BY <2>7 DEF Movement
<1>3. CASE CallBegins(n)
  <2> DEFINE cl == [calleeState EXCEPT ![Callee[n]] = 1]
  <2>1. /\ SwitchCurrent(Entry[Callee[n]], StateAtCallee(n), ArgsAtCallee(n), cl)
        /\ Entry[Callee[n]] # NULL /\ calleeState[Callee[n]] = 0 /\ state[n] = 0
    BY <1>1, <1>3 DEF CallBegins, CallAtWork, Idle
  <2>2. cl[Callee[n]] # 0
    BY <1>1 DEF InvokeTypes
  <2>3. StateAtCallee(n)[n] = EnteredState(n)
    BY <1>1, <2>1 DEF StateAtCallee, Now, InvokeTypes, EnteredState
  <2>4. KeepsSuspended(Suspended, StateAtCallee(n), ArgsAtCallee(n), cl)
    BY <1>1, CallStates
  <2>5. WaitsFor(Entry[Callee[n]], StateAtCallee(n), ArgsAtCallee(n), cl)
    BY <1>1, <2>1, <2>2, <2>3 DEF WaitsFor, StepsInto
  <2>6. Awaits(StateAtCallee(n), ArgsAtCallee(n), n, Entry[Callee[n]])
    BY <2>3 DEF Awaits, EnteredState
  <2> HIDE DEF cl
  <2>7. MovesInto(Entry[Callee[n]], StateAtCallee(n), ArgsAtCallee(n), cl)
    BY <2>1, <2>4, <2>5, <2>6 DEF MovesInto
  <2>8. EntersCallee
    BY <2>1, <2>2, <2>7 DEF EntersCallee
  <2> QED BY <2>8 DEF Movement
<1>4. CASE CallFails(n)
  <2>1. \A m \in Suspended : /\ StateAtCallee(n)[m] = state[m]
                             /\ ArgsAtCallee(n)[m] = argsDone[m]
    BY <1>1, CallStates DEF KeepsSuspended
  <2> QED BY <1>4, <2>1, FailMoves DEF CallFails, Movement
<1>5. CASE CallEnds(n)
  <2>1. /\ callStack \in Seq(Nodes) /\ Descending(callStack) /\ n \in OnPath
        /\ Elements(callStack) = {m \in OnPath : Level[m] < Level[n]}
        /\ Elements(callStack) = Suspended
    BY <1>1, StackBelowCurrent
  <2>2. state[n] # 2
    BY <1>1 DEF CallAtWork, EnteredState
  <2>3. /\ FinishNode(n, callStack, Now(n, 2), ArgsAtCallee(n), CalleeFinished(Callee[n]))
        /\ Entry[Callee[n]] # NULL => calleeState[Callee[n]] # 0
    BY <1>5, <2>2 DEF CallEnds, Idle
  <2>4. KeepsSuspended(Elements(callStack), Now(n, 2), ArgsAtCallee(n),
                       CalleeFinished(Callee[n]))
    BY <1>1, <2>1, CallStates
  <2>5. EndsAt(n, callStack, Now(n, 2), ArgsAtCallee(n), CalleeFinished(Callee[n]))
    BY <2>1, <2>3, <2>4 DEF EndsAt
  <2>6. Completes
    BY <1>1, <2>3, <2>5 DEF Completes
  <2> QED BY <2>6 DEF Movement
<1> QED BY <1>2, <1>3, <1>4, <1>5 DEF CallStep

\* A jump finds the innermost loop or call at the head of its list.
LEMMA JumpMoves ==
  ASSUME IInv, NEW n, ExitStep(n) \/ ReturnStep(n)
  PROVE  Movement
<1>1. outcome = "running" /\ current = n /\ Sound /\ n \notin Loops \cup Calls
  BY DEF ExitStep, ReturnStep, Stepping, Sound, Loops, Calls
<1>2. /\ exitContext \in Seq(Nodes) /\ Descending(exitContext)
      /\ Elements(exitContext) = Suspended \cap Loops
      /\ returnContext \in Seq(Nodes) /\ Descending(returnContext)
      /\ Elements(returnContext) = Suspended \cap Calls
  BY <1>1, ContextFacts, OthersUnregistered
<1>3. Exact'
  BY ExitExact, ReturnExact
<1>4. outcome' # "crashed"
  BY <1>3 DEF Exact
<1>5. CASE ExitStep(n)
  <2>1. exitContext # <<>> /\ JumpTo(exitContext[1]) /\ Kind[current] = "exit"
    BY <1>4, <1>5 DEF ExitStep, Stepping, JumpExit, JumpExitCrashes, Crash
  <2>2. /\ exitContext[1] \in Suspended \cap Loops
        /\ \A l \in Suspended \cap Loops : l # exitContext[1] => Level[l] < Level[exitContext[1]]
    BY <1>2, <2>1, HeadIsDeepest
  <2>3. JumpsOutOf(Loops)
    BY <2>1, <2>2 DEF JumpsOutOf
  <2> QED BY <2>1, <2>3 DEF Movement
<1>6. CASE ReturnStep(n) /\ JumpReturn
  <2>1. returnContext # <<>> /\ JumpTo(returnContext[1]) /\ Kind[current] = "return"
    BY <1>6 DEF ReturnStep, Stepping, JumpReturn
  <2>2. /\ returnContext[1] \in Suspended \cap Calls
        /\ \A c \in Suspended \cap Calls :
             c # returnContext[1] => Level[c] < Level[returnContext[1]]
    BY <1>2, <2>1, HeadIsDeepest
  <2>3. JumpsOutOf(Calls)
    BY <2>1, <2>2 DEF JumpsOutOf
  <2> QED BY <2>1, <2>3 DEF Movement
<1>7. CASE ReturnStep(n) /\ AllFinished
  <2>1. Suspended \cap Calls = {} /\ Kind[current] = "return"
    BY <1>2, <1>7, EmptyElements DEF ReturnStep, Stepping, AllFinished
  <2>2. current' = First /\ outcome' = "ready"
    BY <1>7 DEF AllFinished
  <2>3. callStack' = <<>>
    BY <1>3, <2>2 DEF Exact, Sound, PathInv
  <2>4. ControlPath' = <<First>>
    BY <2>2, <2>3 DEF ControlPath
  <2> QED BY <2>1, <2>2, <2>3, <2>4 DEF EndsCycle, Movement
<1> QED BY <1>4, <1>5, <1>6, <1>7 DEF ReturnStep, JumpReturnCrashes, Crash

LEMMA StepMoves ==
  ASSUME IInv, Step
  PROVE  outcome = "running" /\ Movement
<1> PICK n \in Nodes :
      \/ EmptyStep(n) \/ AssignStep(n) \/ ExpressionStep(n)
      \/ IfStep(n) \/ CaseStep(n)
      \/ WhileIterates(n) \/ WhileEnds(n)
      \/ RepeatIterates(n) \/ RepeatEnds(n)
      \/ ForIterates(n) \/ ForFails(n) \/ ForEnds(n)
      \/ InvokeStep(n) \/ TermStep(n)
      \/ ExitStep(n) \/ ReturnStep(n)
  BY DEF Step
<1>0. outcome = "running" /\ current = n
  BY DEF EmptyStep, AssignStep, ExpressionStep, IfStep, CaseStep, WhileIterates, WhileEnds,
         RepeatIterates, RepeatEnds, ForIterates, ForFails, ForEnds, InvokeStep, TermStep,
         ExitStep, ReturnStep, Stepping
<1>1. CASE EmptyStep(n)
  <2>1. n \notin Calls /\ Kind[n] \notin {"exit", "return"} /\ Finish(n, state[n])
    BY <1>1 DEF EmptyStep, Stepping, Calls
  <2>2. state[n] \in 0..6
    BY <1>0, StateOfCurrent DEF Sound
  <2> QED BY <1>0, <2>1, <2>2, FinishMoves DEF Movement
<1>2. CASE AssignStep(n) \/ ExpressionStep(n)
  <2>1. n \in Evaluations /\ Evaluate(n)
    BY <1>2 DEF AssignStep, ExpressionStep, Stepping, Evaluations
  <2> QED BY <1>0, <2>1, EvaluationMoves
<1>3. CASE IfStep(n) \/ CaseStep(n)
  <2>1. n \in Selections
    BY <1>3 DEF IfStep, CaseStep, Stepping, Selections
  <2>2. CASE Select(n)
    BY <1>0, <2>1, <2>2, SelectionMoves
  <2>3. CASE FailNode(state, argsDone)
    BY <1>0, <2>3, FailMoves DEF Movement
  <2> QED BY <1>0, <1>3, <2>2, <2>3 DEF IfStep, CaseStep
<1>4. CASE InvokeStep(n) \/ TermStep(n)
  <2>1. n \in Calls /\ CallStep(n)
    BY <1>4 DEF InvokeStep, TermStep, Stepping, Calls
  <2> QED BY <1>0, <2>1, CallMoves
<1> QED BY <1>0, <1>1, <1>2, <1>3, <1>4, WhileMoves, RepeatMoves, ForMoves, JumpMoves
-----------------------------------------------------------------------------
(***************************************************************************)
(* The path nests after every movement.                                    *)
(***************************************************************************)

\* A jump cuts the path off at its target.
LEMMA JumpEnds ==
  ASSUME IInv, outcome = "running", NEW h \in Suspended, JumpTo(h)
  PROVE  \E i \in 2..Len(ControlPath) : \E stack \in Seq(Nodes) :
           /\ EndsAt(h, stack, state, argsDone, calleeState)
           /\ ControlPath[i] = h
           /\ SubSeq(ControlPath, i, Len(ControlPath)) = <<h>> \o stack
           /\ \A j \in 2..(i - 1) : ControlPath[j] \in Suspended
                                   /\ Level[h] < Level[ControlPath[j]]
<1>1. /\ Sound /\ OnPath = Suspended \cup {current}
      /\ InvokeTypes(state, argsDone, calleeState)
      /\ \A n \in OnPath : n \in Nodes /\ Level[n] \in Nat
      /\ \A n \in Suspended : Level[n] < Level[current]
      /\ callStack \in Seq(Nodes) /\ Descending(callStack) /\ Elements(callStack) = Suspended
  BY PathFacts, StackBelowCurrent DEF Sound
<1>2. /\ ControlPath \in Seq(Nodes) /\ Len(ControlPath) = Len(callStack) + 1
      /\ \A i \in 2..Len(ControlPath) : ControlPath[i] = callStack[i - 1]
      /\ \A i \in 2..Len(ControlPath) : ControlPath[i] \in Suspended
      /\ Len(callStack) \in Nat
  BY <1>1, PathFactsOfNests
<1> DEFINE k == Position(callStack, h)
           stack == UnwindTo(callStack, h)
           below == SubSeq(ControlPath, k + 2, Len(ControlPath))
<1>3. k \in 1..Len(callStack) /\ callStack[k] = h
  BY <1>1, PositionIsFirst
<1>4. /\ stack \in Seq(Nodes) /\ Descending(stack)
      /\ Elements(stack) = {n \in Suspended : Level[n] < Level[h]}
  BY <1>1, UnwindDescends
<1>5. FinishNode(h, stack, state, argsDone, calleeState)
  BY DEF JumpTo
<1>6. stack = SubSeq(callStack, k + 1, Len(callStack))
  BY <1>3 DEF UnwindTo
<1> HIDE DEF k, stack
<1>7. EndsAt(h, stack, state, argsDone, calleeState)
  <2>1. Elements(stack) = {n \in OnPath : Level[n] < Level[h]} /\ h \in OnPath
    BY <1>1, <1>4
  <2>2. KeepsSuspended(Elements(stack), state, argsDone, calleeState)
    BY <1>1 DEF KeepsSuspended, AtCallee, AtParameter, Idle
  <2> QED BY <1>4, <1>5, <2>1, <2>2 DEF EndsAt
<1>8. k + 1 \in 2..Len(ControlPath) /\ ControlPath[k + 1] = h
  <2>1. k + 1 \in 2..Len(ControlPath) /\ (k + 1) - 1 = k
    BY <1>2, <1>3
  <2> QED BY <1>2, <1>3, <2>1
<1>9. below = stack
  <2>1. \A j \in (k + 2)..Len(ControlPath) : ControlPath[j] \in Nodes
    BY <1>2, <1>3
  <2>2. /\ below \in Seq(Nodes) /\ Len(below) = Len(callStack) - k
        /\ \A j \in 1..(Len(callStack) - k) : below[j] = ControlPath[k + j + 1]
    <3>1. k + 2 \in Int /\ Len(ControlPath) \in Int
      BY <1>2, <1>3
    <3>2. /\ below \in Seq(Nodes)
          /\ Len(below) = IF k + 2 <= Len(ControlPath) THEN Len(ControlPath) - (k + 2) + 1 ELSE 0
          /\ \A j \in 1..(Len(ControlPath) - (k + 2) + 1) : below[j] = ControlPath[(k + 2) + j - 1]
      BY <2>1, <3>1, SubSeqProperties
    <3> HIDE DEF below
    <3>3. Len(ControlPath) - (k + 2) + 1 = Len(callStack) - k
      BY <1>2, <1>3
    <3>4. Len(below) = Len(callStack) - k
      BY <1>2, <1>3, <3>2
    <3>5. ASSUME NEW j \in 1..(Len(callStack) - k)
          PROVE  below[j] = ControlPath[k + j + 1]
      <4>1. (k + 2) + j - 1 = k + j + 1 /\ j \in 1..(Len(ControlPath) - (k + 2) + 1)
        BY <1>3, <3>3
      <4>2. below[j] = ControlPath[(k + 2) + j - 1]
        BY <3>2, <4>1
      <4> QED BY <4>1, <4>2
    <3> QED BY <3>2, <3>4, <3>5
  <2>3. /\ Len(stack) = Len(callStack) - k
        /\ \A j \in 1..(Len(callStack) - k) : stack[j] = callStack[k + j]
    BY <1>1, <1>3, <1>6
  <2>4. \A j \in 1..(Len(callStack) - k) : below[j] = stack[j]
    <3> SUFFICES ASSUME NEW j \in 1..(Len(callStack) - k) PROVE below[j] = stack[j]
      OBVIOUS
    <3>1. k + j + 1 \in 2..Len(ControlPath) /\ (k + j + 1) - 1 = k + j
      BY <1>2, <1>3
    <3> QED BY <1>2, <2>2, <2>3, <3>1
  <2> HIDE DEF below
  <2> QED BY <1>4, <2>2, <2>3, <2>4, SeqEqual
<1>10. SubSeq(ControlPath, k + 1, Len(ControlPath)) = <<h>> \o stack
  <2>1. k + 1 \in 1..Len(ControlPath) /\ Len(ControlPath) \in (k + 1)..Len(ControlPath)
        /\ (k + 1) + 1 = k + 2
    BY <1>2, <1>3
  <2>2. SubSeq(ControlPath, k + 1, Len(ControlPath))
          = <<ControlPath[k + 1]>> \o SubSeq(ControlPath, (k + 1) + 1, Len(ControlPath))
    BY <1>2, <2>1, SubSeqRecursiveFirst
  <2> QED BY <1>8, <1>9, <2>1, <2>2
<1>11. ASSUME NEW j \in 2..((k + 1) - 1)
       PROVE  ControlPath[j] \in Suspended /\ Level[h] < Level[ControlPath[j]]
  <2>1. j \in 2..Len(ControlPath) /\ j - 1 \in 1..Len(callStack) /\ j - 1 < k
    BY <1>2, <1>3
  <2>2. Level[callStack[j - 1]] > Level[callStack[k]]
    BY <1>1, <1>3, <2>1 DEF Descending
  <2> QED BY <1>1, <1>2, <1>3, <2>1, <2>2
<1> QED BY <1>4, <1>7, <1>8, <1>10, <1>11

LEMMA JumpNests ==
  ASSUME IInv, outcome = "running", PathNests, NEW h \in Suspended, JumpTo(h)
  PROVE  PathNests'
<1>1. PICK i \in 2..Len(ControlPath), stack \in Seq(Nodes) :
        /\ EndsAt(h, stack, state, argsDone, calleeState)
        /\ SubSeq(ControlPath, i, Len(ControlPath)) = <<h>> \o stack
  BY JumpEnds
<1>2. ControlPath \in Seq(Nodes) /\ Len(ControlPath) \in Nat /\ h \in Nodes
  BY PathFactsOfNests, PathFacts DEF Sound
<1> DEFINE r == <<h>> \o stack
<1>3. /\ r \in Seq(Nodes) /\ r # <<>> /\ Len(r) = Len(ControlPath) - (i - 1)
      /\ \A j \in 1..Len(r) : r[j] = ControlPath[j + (i - 1)]
  <2>1. \A j \in i..Len(ControlPath) : ControlPath[j] \in Nodes
    BY <1>2
  <2>2. /\ Len(r) = Len(ControlPath) - i + 1
        /\ \A j \in 1..(Len(ControlPath) - i + 1) : r[j] = ControlPath[i + j - 1]
    BY <1>1, <1>2, <2>1, SubSeqProperties
  <2>3. r \in Seq(Nodes) /\ r # <<>>
    BY <1>2, Extended
  <2> HIDE DEF r
  <2>4. \A j \in 1..Len(r) : i + j - 1 = j + (i - 1)
    OBVIOUS
  <2> QED BY <1>2, <2>2, <2>3, <2>4
<1>4. Chained(state, argsDone, r)
  <2> HIDE DEF r
  <2>1. i - 1 \in Nat
    OBVIOUS
  <2> QED BY <1>2, <1>3, <2>1, ChainRest DEF PathNests
<1> QED BY <1>1, <1>4, EndNests

LEMMA NestsStep ==
  ASSUME IInv, PathNests, Step
  PROVE  PathNests'
<1>1. outcome = "running" /\ Movement
  BY StepMoves
<1>2. CASE EntersPart \/ EntersCallee
  BY <1>1, <1>2, IntoNests DEF EntersPart, EntersCallee
<1>3. CASE Completes
  <2>1. Chained(state, argsDone, <<current>> \o callStack)
    BY DEF PathNests, ControlPath
  <2> QED BY <1>1, <1>3, <2>1, EndNests DEF Completes
<1>4. CASE JumpsOutOf(Loops) \/ JumpsOutOf(Calls)
  BY <1>1, <1>4, JumpNests DEF JumpsOutOf
<1>5. CASE EndsCycle
  BY <1>5, ProgramShape DEF EndsCycle, PathNests, Chained
<1>6. CASE StaysPut
  <2>1. ControlPath' = ControlPath
    BY <1>6 DEF StaysPut, ControlPath
  <2>2. /\ ControlPath \in Seq(Nodes) /\ ControlPath # <<>>
        /\ \A i \in 2..Len(ControlPath) : ControlPath[i] \in Suspended
    BY <1>1, PathFactsOfNests DEF Sound
  <2>3. Chained(state', argsDone', ControlPath)
    BY <1>6, <2>2, ChainSame DEF PathNests, StaysPut
  <2> QED BY <2>1, <2>3 DEF PathNests
<1> QED BY <1>1, <1>2, <1>3, <1>4, <1>5, <1>6 DEF Movement

NestingInv == IInv /\ PathNests

LEMMA NestingInit == Init => NestingInv
<1> SUFFICES ASSUME Init PROVE PathNests
  BY InvariantInit DEF NestingInv
<1>1. ControlPath = <<First>>
  BY DEF Init, ControlPath
<1> QED BY <1>1, ProgramShape DEF PathNests, Chained

LEMMA NestingStep == NestingInv /\ [Next]_vars => NestingInv'
<1> SUFFICES ASSUME NestingInv, [Next]_vars PROVE PathNests'
  BY InvariantStep DEF NestingInv
<1>1. CASE Step
  BY <1>1, NestsStep DEF NestingInv
<1>2. CASE RunCycle \/ Restart
  <2>1. ControlPath' = <<First>>
    <3>1. RunCycle => current = First /\ callStack = <<>>
      BY PathFacts, Disciplined DEF RunCycle, Sound, PathInv, NestingInv
    <3>2. current' = First /\ callStack' = <<>>
      BY <1>2, <3>1 DEF RunCycle, Restart
    <3> QED BY <3>2 DEF ControlPath
  <2> QED BY <2>1, ProgramShape DEF PathNests, Chained
<1>3. CASE UNCHANGED vars
  BY <1>3 DEF vars, NestingInv, PathNests, ControlPath
<1> QED BY <1>1, <1>2, <1>3 DEF Next

LEMMA NestingInductive == Spec => []NestingInv
BY NestingInit, NestingStep, PTL DEF Spec

\* What is suspended below a node is always the node that waits for the list it
\* is in, down to the program's own list, on every disciplined program: control
\* comes back to where it left (switch_current, set_current_to_next).
THEOREM PathsNest == Spec => []CallStackNests
<1>1. NestingInv => CallStackNests
  <2> SUFFICES ASSUME NestingInv PROVE CallStackNests
    OBVIOUS
  <2>1. callStack \in Seq(Nodes) /\ current \in Nodes
    BY DEF NestingInv, IInv, Exact, ListsIntact, TypeOK
  <2>2. Len(ControlPath) = Len(callStack) + 1 /\ Len(callStack) \in Nat
    BY <2>1, Extended DEF ControlPath
  <2>3. 1..(Len(ControlPath) - 1) = 1..Len(callStack)
    BY <2>2
  <2> QED BY <2>3 DEF NestingInv, PathNests, Chained, CallStackNests
<1> QED BY <1>1, NestingInductive, PTL
-----------------------------------------------------------------------------
(***************************************************************************)
(* Every movement is a step of StructuredControl, or none.                 *)
(***************************************************************************)
LEMMA SameProgram ==
  /\ Control!Loops = Loops /\ Control!Calls = Calls
  /\ \A n \in Nodes : Control!Parts(n) = Parts(n)
  /\ \A s \in Seq(Nodes) : Control!OnPath(s) = Elements(s)
BY DEF Control!Loops, Loops, Control!Calls, Calls, Control!Parts, Parts,
       Control!OperandsOf, OperandsOf, Control!OnPath, Elements

\* The next path is p.
LEMMA BegunNext ==
  ASSUME NestingInv', outcome' \in {"ready", "running"}, NEW p, ControlPath' = p
  PROVE  EnteredCalls' = {c \in Elements(p) \cap Calls :
                            Entry[Callee[c]] # NULL /\ calleeState'[Callee[c]] # 0}
<1>1. FlagsTell'
  BY EnteredByFlagsNext DEF NestingInv, Sound
<1>2. callStack' \in Seq(Nodes) /\ current' \in Nodes
  BY DEF NestingInv, IInv, Exact, ListsIntact, TypeOK
<1>3. Elements(ControlPath') = OnPath'
  BY <1>2, PathElements DEF ControlPath, OnPath
<1> QED BY <1>1, <1>3 DEF FlagsTell, Begun, Idle

LEMMA BegunNow ==
  ASSUME NestingInv, Sound
  PROVE  EnteredCalls = {c \in OnPath \cap Calls :
                           Entry[Callee[c]] # NULL /\ calleeState[Callee[c]] # 0}
BY EnteredByFlags DEF NestingInv, FlagsTell, Begun, Idle

LEMMA EndsProceed ==
  ASSUME NestingInv, NestingInv', outcome = "running",
         NEW m, NEW stack, NEW st, NEW ar, NEW cl, EndsAt(m, stack, st, ar, cl)
  PROVE  Control!Proceed(<<m>> \o stack)
<1> DEFINE p == <<m>> \o stack
           t == NextOf[m]
           next == IF t # NULL THEN <<t>> \o stack ELSE IF stack # <<>> THEN stack ELSE <<First>>
<1>1. /\ m \in Nodes /\ ControlPath' = next
      /\ outcome' = IF stack = <<>> /\ t = NULL THEN "ready" ELSE "running"
      /\ \A c \in Elements(stack) \cap Calls :
           calleeState'[Callee[c]] = 0 <=> calleeState[Callee[c]] = 0
      /\ t # NULL => t \in Nodes /\ (t \in Calls => calleeState'[Callee[t]] = 0)
  BY EndKeeps DEF NestingInv
<1>2. stack \in Seq(Nodes) /\ Len(stack) \in Nat /\ Elements(stack) \subseteq OnPath
  BY DEF EndsAt
<1>3. p[1] = m /\ Tail(p) = stack /\ Len(p) = Len(stack) + 1
  BY <1>1, <1>2, Extended
<1>4. Len(p) > 1 <=> stack # <<>>
  BY <1>2, <1>3
<1>5. Len(p) = 1 <=> stack = <<>>
  BY <1>2, <1>3
<1>6. EnteredCalls' = EnteredCalls \cap Elements(stack)
  <2>1. EnteredCalls' = {c \in Elements(next) \cap Calls :
                           Entry[Callee[c]] # NULL /\ calleeState'[Callee[c]] # 0}
    BY <1>1, BegunNext
  <2>2. EnteredCalls = {c \in OnPath \cap Calls :
                          Entry[Callee[c]] # NULL /\ calleeState[Callee[c]] # 0}
    BY BegunNow DEF Sound
  <2>3. CASE t # NULL
    <3>1. Elements(next) = Elements(stack) \cup {t}
      BY <1>1, <1>2, <2>3, PathElements
    <3> QED BY <1>1, <1>2, <2>1, <2>2, <2>3, <3>1
  <2>4. CASE t = NULL /\ stack # <<>>
    <3>1. Elements(next) = Elements(stack)
      BY <2>4
    <3> QED BY <1>1, <1>2, <2>1, <2>2, <3>1
  <2>5. CASE t = NULL /\ stack = <<>>
    <3>1. Elements(next) = {First} /\ Elements(stack) = {}
      BY <2>5 DEF Elements
    <3> QED BY <2>1, <3>1, FirstNested
  <2> QED BY <2>3, <2>4, <2>5
<1>7. Control!OnPath(Tail(p)) = Elements(stack)
  BY <1>2, <1>3, SameProgram
<1> HIDE DEF p
<1>8. Control!Proceed(p)
  BY <1>1, <1>3, <1>4, <1>5, <1>6, <1>7 DEF Control!Proceed
<1> QED BY <1>8 DEF p

LEMMA IntoRefines ==
  ASSUME NestingInv, NestingInv', outcome = "running", EntersPart \/ EntersCallee
  PROVE  Control!Enter \/ Control!CallBody
<1>1. /\ current \in Nodes /\ OnPath = Suspended \cup {current} /\ current \notin Suspended
      /\ ControlPath \in Seq(Nodes) /\ ControlPath[1] = current /\ Elements(ControlPath) = OnPath
  BY PathFacts, PathFactsOfNests DEF NestingInv, Sound
<1>2. EnteredCalls = {c \in OnPath \cap Calls :
                        Entry[Callee[c]] # NULL /\ calleeState[Callee[c]] # 0}
  BY BegunNow DEF Sound
<1>3. ASSUME NEW t, NEW st, NEW ar, NEW cl, MovesInto(t, st, ar, cl)
      PROVE  /\ t \in Nodes /\ outcome' = outcome /\ ControlPath' = <<t>> \o ControlPath
             /\ EnteredCalls' = {c \in (OnPath \cup {t}) \cap Calls :
                                   Entry[Callee[c]] # NULL /\ calleeState'[Callee[c]] # 0}
  <2>1. t \in Nodes /\ outcome' = "running" /\ ControlPath' = <<t>> \o ControlPath
    BY <1>3, IntoKeeps DEF NestingInv
  <2>2. Elements(<<t>> \o ControlPath) = OnPath \cup {t}
    BY <1>1, <2>1, PathElements
  <2> QED BY <2>1, <2>2, BegunNext
<1>4. CASE EntersPart
  <2> PICK t, st, ar, cl :
        /\ MovesInto(t, st, ar, cl) /\ t \in Parts(current)
        /\ current \in Calls => calleeState[Callee[current]] = 0 /\ cl[Callee[current]] = 0
    BY <1>4 DEF EntersPart
  <2>1. /\ \A c \in Suspended \cap Calls :
             calleeState'[Callee[c]] = 0 <=> calleeState[Callee[c]] = 0
        /\ t \in Calls => calleeState'[Callee[t]] = 0
        /\ current \in Calls => calleeState'[Callee[current]] = 0
    BY IntoKeeps DEF NestingInv
  <2>2. EnteredCalls' = {c \in (OnPath \cup {t}) \cap Calls :
                           Entry[Callee[c]] # NULL /\ calleeState'[Callee[c]] # 0}
    BY <1>3
  <2>3. EnteredCalls' = EnteredCalls
    BY <1>1, <1>2, <2>1, <2>2
  <2>4. t \in Control!Parts(ControlPath[1])
    BY <1>1, SameProgram
  <2>5. Control!Enter
    BY <1>3, <2>3, <2>4 DEF Control!Enter
  <2> QED BY <2>5
<1>5. CASE EntersCallee
  <2> PICK t, st, ar, cl :
        /\ MovesInto(t, st, ar, cl) /\ current \in Calls /\ t = Entry[Callee[current]]
        /\ calleeState[Callee[current]] = 0 /\ cl[Callee[current]] # 0
    BY <1>5 DEF EntersCallee
  <2>1. /\ \A c \in Suspended \cap Calls :
             calleeState'[Callee[c]] = 0 <=> calleeState[Callee[c]] = 0
        /\ t \in Calls => calleeState'[Callee[t]] = 0
        /\ calleeState'[Callee[current]] # 0 /\ t \in Nodes
    BY IntoKeeps DEF NestingInv
  <2>2. Entry[Callee[current]] # NULL
    BY <2>1, ProgramTypes
  <2>3. EnteredCalls' = {c \in (OnPath \cup {t}) \cap Calls :
                           Entry[Callee[c]] # NULL /\ calleeState'[Callee[c]] # 0}
    BY <1>3
  <2>4. EnteredCalls' = EnteredCalls \cup {current} /\ current \notin EnteredCalls
    BY <1>1, <1>2, <2>1, <2>2, <2>3
  <2>5. Control!CallBody
    BY <1>1, <1>3, <2>2, <2>4, SameProgram DEF Control!CallBody
  <2> QED BY <2>5
<1> QED BY <1>4, <1>5

LEMMA CompleteRefines ==
  ASSUME NestingInv, NestingInv', outcome = "running", Completes
  PROVE  Control!Complete
<1>1. /\ ControlPath[1] = current /\ ControlPath = <<current>> \o callStack
      /\ current \in OnPath
  BY PathFactsOfNests DEF NestingInv, Sound, ControlPath, OnPath
<1>2. current \in Calls /\ Entry[Callee[current]] # NULL => current \in EnteredCalls
  BY <1>1, BegunNow DEF Completes, Sound
<1>3. Control!Proceed(ControlPath)
  BY <1>1, EndsProceed DEF Completes
<1> QED BY <1>1, <1>2, <1>3, SameProgram DEF Control!Complete, Completes

LEMMA JumpRefines ==
  ASSUME NestingInv, NestingInv', outcome = "running", NEW S, JumpsOutOf(S)
  PROVE  \E i \in 2..Len(ControlPath) :
           /\ Control!IsInnermost(i, S)
           /\ Control!Proceed(SubSeq(ControlPath, i, Len(ControlPath)))
<1>1. PICK h \in Suspended \cap S :
        JumpTo(h) /\ \A n \in Suspended \cap S : n # h => Level[n] < Level[h]
  BY DEF JumpsOutOf
<1>2. PICK i \in 2..Len(ControlPath), stack \in Seq(Nodes) :
        /\ EndsAt(h, stack, state, argsDone, calleeState)
        /\ ControlPath[i] = h
        /\ SubSeq(ControlPath, i, Len(ControlPath)) = <<h>> \o stack
        /\ \A j \in 2..(i - 1) : ControlPath[j] \in Suspended
                                /\ Level[h] < Level[ControlPath[j]]
  BY <1>1, JumpEnds DEF NestingInv
<1>3. \A n \in Suspended : Level[n] \in Nat
  BY PathFacts DEF NestingInv, Sound
<1>4. ASSUME NEW j \in 2..(i - 1), ControlPath[j] \in S PROVE FALSE
  <2>1. ControlPath[j] \in Suspended \cap S /\ Level[h] < Level[ControlPath[j]]
    BY <1>2, <1>4
  <2>2. Level[h] \in Nat /\ Level[ControlPath[j]] \in Nat
    BY <1>3, <2>1
  <2> QED BY <1>1, <2>1, <2>2
<1>5. Control!IsInnermost(i, S)
  BY <1>1, <1>2, <1>4 DEF Control!IsInnermost
<1>6. Control!Proceed(SubSeq(ControlPath, i, Len(ControlPath)))
  BY <1>2, EndsProceed
<1> QED BY <1>5, <1>6

LEMMA StepRefines ==
  ASSUME NestingInv, NestingInv', Step
  PROVE  [Control!Next]_(Control!controlVars)
<1>1. outcome = "running" /\ Movement
  BY StepMoves DEF NestingInv
<1>2. /\ ControlPath[1] = current /\ Len(ControlPath) \in Nat
      /\ \A i \in 2..Len(ControlPath) : ControlPath[i] \in Suspended
  BY <1>1, PathFactsOfNests DEF NestingInv, Sound
<1>3. CASE EntersPart \/ EntersCallee
  BY <1>1, <1>3, IntoRefines DEF Control!Next, Control!Move
<1>4. CASE Completes
  BY <1>1, <1>4, CompleteRefines DEF Control!Next, Control!Move
<1>5. CASE Kind[current] = "exit" /\ JumpsOutOf(Loops)
  <2>1. Control!ExitLoop
    BY <1>1, <1>2, <1>5, JumpRefines, SameProgram DEF Control!ExitLoop
  <2> QED BY <1>1, <2>1 DEF Control!Next, Control!Move
<1>6. CASE Kind[current] = "return" /\ JumpsOutOf(Calls)
  <2>1. Control!ReturnFromCall
    BY <1>1, <1>2, <1>6, JumpRefines, SameProgram DEF Control!ReturnFromCall
  <2> QED BY <1>1, <2>1 DEF Control!Next, Control!Move
<1>7. CASE EndsCycle
  <2>1. EnteredCalls' = {}
    <3>1. Elements(<<First>>) = {First}
      BY DEF Elements
    <3> QED BY <1>7, <3>1, BegunNext, FirstNested DEF EndsCycle
  <2>2. \A i \in 2..Len(ControlPath) : ControlPath[i] \notin Calls
    BY <1>2, <1>7 DEF EndsCycle
  <2>3. Control!ReturnFromProgram
    BY <1>2, <1>7, <2>1, <2>2, SameProgram DEF EndsCycle, Control!ReturnFromProgram
  <2> QED BY <1>1, <2>3 DEF Control!Next, Control!Move
<1>8. CASE StaysPut
  <2>1. ControlPath' = ControlPath /\ EnteredCalls' = EnteredCalls
    BY <1>8 DEF StaysPut, ControlPath, EnteredCalls, Idle
  <2>2. CASE outcome' = "running"
    BY <1>1, <2>1, <2>2 DEF Control!controlVars
  <2>3. CASE outcome' = "failed"
    BY <1>1, <2>1, <2>3 DEF Control!Next, Control!Move, Control!Fail
  <2> QED BY <1>8, <2>2, <2>3 DEF StaysPut
<1> QED BY <1>1, <1>3, <1>4, <1>5, <1>6, <1>7, <1>8 DEF Movement

\* At the cycle's start nothing has been entered.
LEMMA NothingEntered ==
  ASSUME current = First, callStack = <<>>
  PROVE  ControlPath = <<First>> /\ EnteredCalls = {}
<1>1. ControlPath = <<First>>
  BY DEF ControlPath
<1> QED BY <1>1, FirstNested DEF EnteredCalls

LEMMA NothingEnteredNext ==
  ASSUME current' = First, callStack' = <<>>
  PROVE  ControlPath' = <<First>> /\ EnteredCalls' = {}
<1>1. ControlPath' = <<First>>
  BY DEF ControlPath
<1> QED BY <1>1, FirstNested DEF EnteredCalls

\* The interpreter keeps the promises of Structured Text's control constructs on
\* every disciplined program and not only on those the runs check: every
\* statement list is run in order, EXIT leaves the innermost loop, RETURN the
\* innermost call, no call is over before its callee's statements have run, and a
\* cycle ends after the last statement, a RETURN of the program or an error.
THEOREM InterpreterRefinesControl == Spec => ImplementsStructuredControl
<1>1. Init => Control!Init
  BY NothingEntered DEF Init, Control!Init
<1>2. NestingInv /\ NestingInv' /\ [Next]_vars => [Control!Next]_(Control!controlVars)
  <2> SUFFICES ASSUME NestingInv, NestingInv', [Next]_vars
               PROVE  [Control!Next]_(Control!controlVars)
    OBVIOUS
  <2>1. CASE Step
    BY <2>1, StepRefines
  <2>2. CASE RunCycle
    <3>1. outcome = "ready" /\ outcome' = "running"
      BY <2>2, Disciplined DEF RunCycle
    <3>2. ControlPath' = ControlPath /\ EnteredCalls' = EnteredCalls
      BY <2>2 DEF RunCycle, ControlPath, EnteredCalls, Idle
    <3> QED BY <3>1, <3>2 DEF Control!Next, Control!Begin
  <2>3. CASE Restart
    <3>1. outcome # "running" /\ outcome' = "ready"
      BY <2>3 DEF Restart
    <3>2. ControlPath' = <<First>> /\ EnteredCalls' = {}
      BY <2>3, NothingEnteredNext DEF Restart
    <3> QED BY <3>1, <3>2 DEF Control!Next, Control!StartAgain
  <2>4. CASE UNCHANGED vars
    BY <2>4 DEF vars, Control!controlVars, ControlPath, EnteredCalls, Idle
  <2> QED BY <2>1, <2>2, <2>3, <2>4 DEF Next
<1> QED BY <1>1, <1>2, NestingInductive, PTL DEF Spec, ImplementsStructuredControl, Control!Spec
=============================================================================
