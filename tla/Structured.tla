----------------------------- MODULE Structured ----------------------------
(***************************************************************************)
(* The programs on which the interpreter keeps the promises of             *)
(* StructuredControl, and what is true of the cursor while it runs them.   *)
(* The conditions on the program are what a reader of cursor.c and of the  *)
(* step functions has to know: each of them is needed, and the runs of     *)
(* MCTests show what happens to a program that breaks it.                *)
(***************************************************************************)
EXTENDS Interpreter

CONSTANTS
  Level,    \* how deep a node can be nested, calls included
  LoopOf,   \* the innermost loop around a node within its callee, or NULL
  CalleeOf  \* the callee whose statements the node belongs to, or NULL

\* Static nesting: parts and callees are deeper than what contains or calls
\* them (no recursion), and the annotations follow the tree: the nodes of a list
\* share them.
ASSUME Nesting ==
  /\ Level \in [Nodes -> Nat]
  /\ LoopOf \in [Nodes -> Loops \cup {NULL}]
  /\ CalleeOf \in [Nodes -> Callees \cup {NULL}]
  /\ NULL \notin Callees
  /\ TANGLED \notin Nodes
  /\ \A n \in Nodes :
       /\ Level[n] = Level[HeadOf[n]]
       /\ LoopOf[n] = LoopOf[HeadOf[n]]
       /\ CalleeOf[n] = CalleeOf[HeadOf[n]]
  /\ \A n \in Nodes : \A part \in Parts(n) :
       /\ Level[part] > Level[n]
       /\ LoopOf[part] = IF n \in Loops THEN n ELSE LoopOf[n]
       /\ CalleeOf[part] = CalleeOf[n]
  /\ \A n \in Calls : Entry[Callee[n]] # NULL =>
       /\ Level[Entry[Callee[n]]] > Level[n]
       /\ LoopOf[Entry[Callee[n]]] = NULL
       /\ CalleeOf[Entry[Callee[n]]] = Callee[n]
  /\ LoopOf[First] = NULL /\ CalleeOf[First] = NULL
  /\ \A n \in Nodes : \A m \in Owned[n] : Level[m] >= Level[n]

\* A node whose step function never leaves state 0.
Stateless(n) ==
  Kind[n] = "empty" \/ (n \in Evaluations /\ OperandsOf(n) = {})

\* A call that is stepped more than once in state 0, and pushes its return
\* context each time.
PushesAgain(n) ==
  OperandsOf(n) # {} \/ (Operands[n] = <<>> /\ Entry[Callee[n]] # NULL)

ASSUME Disciplined ==
  \* the cycle's start is not reset when a cycle ends
  /\ Stateless(First)
  \* an invocation in an expression is never reset
  /\ \A n \in Nodes : Kind[n] # "term"
  \* pushing a context again loses the contexts below it
  /\ \A n \in Calls : PushesAgain(n) => CalleeOf[n] = NULL
  \* a RETURN leaves the exit contexts of the loops it jumps out of, and at the
  \* program's own level it leaves the call stack as well
  /\ \A n \in Nodes : Kind[n] = "return" =>
       LoopOf[n] = NULL /\ (CalleeOf[n] # NULL \/ HeadOf[n] = First)
  \* the parser accepts EXIT in a loop only
  /\ \A n \in Nodes : Kind[n] = "exit" => LoopOf[n] # NULL
  \* a failed cycle is not resumed in its middle
  /\ ~Resume

-----------------------------------------------------------------------------
Descending(s) == \A i, j \in 1..Len(s) : i < j => Level[s[i]] > Level[s[j]]

OnPath == Elements(callStack) \cup {current}

\* A call at work that has pushed its return context.
InCall(n) == state[n] # 0 \/ argsDone[n] # 0 \/ calleeState[Callee[n]] # 0

Sound == outcome \in {"ready", "running"}

\* The loops and the calls that control is inside of.
LoopsInside ==
  {n \in Loops : n \in Elements(callStack) \/ (n = current /\ state[n] # 0)}
CallsInside ==
  {n \in Calls : n \in Elements(callStack) \/ (n = current /\ InCall(n))}

\* EXIT finds the loops the control path is inside of, each once and the
\* innermost first: no iteration, jump or cycle leaves one behind, loses one
\* or registers it twice (push_exit_context and pop_exit_context in loops.c).
ExitContextMatches ==
  Sound => Descending(exitContext) /\ Elements(exitContext) = LoopsInside

\* RETURN finds the calls the control path is inside of, each once and the
\* innermost first, although a call pushes its context on every visit in
\* state 0 (invoke_statement_step).
ReturnContextMatches ==
  Sound => Descending(returnContext) /\ Elements(returnContext) = CallsInside
=============================================================================
