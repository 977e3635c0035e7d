------------------------------- MODULE Cursor ------------------------------
(***************************************************************************)
(* The execution cursor (rt/cursor.c): which node runs, the nodes that are *)
(* suspended below it, and the nodes an EXIT or a RETURN jumps to.  The    *)
(* invoke_state fields of the nodes are here too, because every movement   *)
(* of the cursor to a new node calls the node's reset function.            *)
(***************************************************************************)
EXTENDS Program, ContextList

VARIABLES
  state,          \* invoke_state of every node
  argsDone,       \* how many parameters of a call have invoke_state 1
  calleeState,    \* invoke_state of every function and function block instance
  current,        \* cursor->current
  callStack,      \* cursor->call_stack
  exitContext,    \* cursor->exit_context
  returnContext,  \* cursor->return_context
  start,          \* the local `start' of the cursor_step call under way
  outcome         \* what the embedding program sees: st_run_cycle has returned
                  \* ("ready", "failed"), is running, or the process is gone

invokeStates == <<state, argsDone, calleeState>>
contexts == <<exitContext, returnContext>>
vars == <<state, argsDone, calleeState, current, callStack, exitContext,
          returnContext, start, outcome>>

Tangled == \E s \in {callStack, exitContext, returnContext} : s = <<TANGLED>>

-----------------------------------------------------------------------------
\* Mutant: the flags of the callees are forgotten.
ResetTreeOnly(t, st, ar, cl) ==
  LET reset == IF t = NULL THEN {} ELSE Owned[t]
  IN /\ state' = [n \in Nodes |->
                    IF n \in reset /\ Kind[n] # "term" THEN 0 ELSE st[n]]
     /\ argsDone' = [n \in Nodes |-> IF n \in reset THEN 0 ELSE ar[n]]
     /\ calleeState' = cl

(***************************************************************************)
(* t->reset(t), on the states st, ar and cl the step function has set so   *)
(* far; nothing for t = NULL.  Every node below t goes back to state 0,    *)
(* save the invocations inside expressions: function_invocation_term_reset *)
(* resets the function and the parameters but not its own invoke_state.    *)
(***************************************************************************)
ResetNode(t, st, ar, cl) ==
  LET reset == IF t = NULL THEN {} ELSE Owned[t]
      callees == {Callee[n] : n \in reset \cap Calls}
  IN /\ state' = [n \in Nodes |->
                    IF n \in reset /\ Kind[n] # "term" THEN 0 ELSE st[n]]
     /\ argsDone' = [n \in Nodes |-> IF n \in reset THEN 0 ELSE ar[n]]
     /\ calleeState' = [f \in Callees |-> IF f \in callees THEN 0 ELSE cl[f]]

\* switch_current: reset the target, suspend the current node below it.
SwitchCurrent(t, st, ar, cl) ==
  /\ ResetNode(t, st, ar, cl)
  /\ callStack' = Prepend(callStack, current)
  /\ current' = t
  /\ UNCHANGED <<start, outcome>>

(***************************************************************************)
(* cursor_step returns when the node it started with finishes, and         *)
(* run_cycle calls it again until the cursor is back at the first          *)
(* statement.                                                              *)
(***************************************************************************)
StepReturns(m) ==
  IF m = start
    THEN /\ start' = current'
         /\ outcome' = IF current' = First THEN "ready" ELSE "running"
    ELSE UNCHANGED <<start, outcome>>

(***************************************************************************)
(* Node m has returned FINISHED with the call stack at stack:              *)
(* set_current_to_next moves to the following statement, or back to the    *)
(* node suspended below, or, with nothing below, to the cycle's start,     *)
(* which is not reset.                                                     *)
(***************************************************************************)
Following(m, stack) ==
  IF NextOf[m] # NULL THEN NextOf[m] ELSE IF stack = <<>> THEN First ELSE stack[1]

\* Mutants: the suspended node is reset when control comes back to it; nothing
\* follows the last statement of the program.
FinishWithReset(m, stack, st, ar, cl) ==
  /\ ResetNode(Following(m, stack), st, ar, cl)
  /\ current' = Following(m, stack)
  /\ callStack' = IF NextOf[m] # NULL THEN stack ELSE DeleteHead(stack)
  /\ StepReturns(m)

FinishOffTheEnd(m, stack, st, ar, cl) ==
  /\ ResetNode(NextOf[m], st, ar, cl)
  /\ current' = IF stack = <<>> THEN NextOf[m] ELSE Following(m, stack)
  /\ callStack' = IF NextOf[m] # NULL THEN stack ELSE DeleteHead(stack)
  /\ StepReturns(m)

FinishNode(m, stack, st, ar, cl) ==
  /\ ResetNode(NextOf[m], st, ar, cl)
  /\ current' = Following(m, stack)
  /\ callStack' = IF NextOf[m] # NULL THEN stack ELSE DeleteHead(stack)
  /\ StepReturns(m)

\* INVOKE_RESULT_IN_PROGRESS without a switch: the node is stepped again.
StayAt(st) ==
  /\ state' = st
  /\ UNCHANGED <<argsDone, calleeState, current, callStack, start, outcome>>

\* Mutant: a failed cycle goes back to its start.
FailAtStart(st, ar) ==
  /\ state' = st
  /\ argsDone' = ar
  /\ outcome' = "failed"
  /\ current' = First
  /\ UNCHANGED <<calleeState, callStack, start>>

\* INVOKE_RESULT_ERROR: cursor_step returns NULL and run_cycle gives up, with
\* the cursor left where it is.
FailNode(st, ar) ==
  /\ state' = st
  /\ argsDone' = ar
  /\ outcome' = "failed"
  /\ UNCHANGED <<calleeState, current, callStack, start>>

\* A null pointer is read or written.
Crash ==
  /\ outcome' = "crashed"
  /\ UNCHANGED <<state, argsDone, calleeState, current, callStack, exitContext,
                 returnContext, start>>
-----------------------------------------------------------------------------
(***************************************************************************)
(* jump_exit and jump_return take the head of their context list, drop it, *)
(* and unwind the call stack to it; the jump statement then returns        *)
(* FINISHED on behalf of that node, so the cursor goes to what follows the *)
(* loop or the call.                                                       *)
(***************************************************************************)
JumpTo(target) ==
  /\ CanUnwind(callStack, target)
  /\ FinishNode(target, UnwindTo(callStack, target), state, argsDone, calleeState)

\* Mutants: the context is left in its list.
JumpExitKeeping ==
  exitContext # <<>> /\ UNCHANGED contexts /\ JumpTo(exitContext[1])

JumpReturnKeeping ==
  returnContext # <<>> /\ UNCHANGED contexts /\ JumpTo(returnContext[1])

JumpExit ==
  /\ exitContext # <<>>
  /\ exitContext' = DeleteHead(exitContext)
  /\ UNCHANGED returnContext
  /\ JumpTo(exitContext[1])

\* There is no loop to exit, or it is not on the call stack.
JumpExitCrashes ==
  /\ exitContext # <<>> => ~CanUnwind(callStack, exitContext[1])
  /\ Crash

JumpReturn ==
  /\ returnContext # <<>>
  /\ returnContext' = DeleteHead(returnContext)
  /\ UNCHANGED exitContext
  /\ JumpTo(returnContext[1])

\* INVOKE_RESULT_ALL_FINISHED: no call to return from.  The cycle ends; nothing
\* is unwound.
AllFinished ==
  /\ returnContext = <<>>
  /\ current' = First
  /\ start' = First
  /\ outcome' = "ready"
  /\ UNCHANGED <<state, argsDone, calleeState, callStack, exitContext, returnContext>>

JumpReturnCrashes ==
  /\ returnContext # <<>>
  /\ ~CanUnwind(callStack, returnContext[1])
  /\ Crash
=============================================================================
