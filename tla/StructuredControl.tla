-------------------------- MODULE StructuredControl ------------------------
(***************************************************************************)
(* What the control constructs of Structured Text promise, without a       *)
(* cursor: control is a path through the program, the statement or         *)
(* expression at work first, then what contains it, out to a top level     *)
(* statement.  EXIT leaves the innermost loop of the path, RETURN the      *)
(* innermost call, and a call of a user's function or function block is    *)
(* over only when its statements have run.                                 *)
(***************************************************************************)
EXTENDS Program

VARIABLES
  path,     \* the nodes at work, innermost first
  entered,  \* the calls of the path whose callee's statements have been entered
  phase     \* "ready" between the cycles, "running", or "failed"

controlVars == <<path, entered, phase>>

OnPath(p) == {p[i] : i \in 1..Len(p)}

\* The node at p's head is done: on to the next statement of its list, or back
\* to what contains it, or, at the end of the program, the cycle is over.
Proceed(p) ==
  /\ path' = IF NextOf[p[1]] # NULL THEN <<NextOf[p[1]]>> \o Tail(p)
             ELSE IF Len(p) > 1 THEN Tail(p) ELSE <<First>>
  /\ phase' = IF Len(p) = 1 /\ NextOf[p[1]] = NULL THEN "ready" ELSE "running"
  /\ entered' = entered \cap OnPath(Tail(p))

\* The head of p is the innermost of the nodes in S that control is inside of.
IsInnermost(i, S) == path[i] \in S /\ \A j \in 2..(i - 1) : path[j] \notin S

Enter ==
  /\ \E part \in Parts(path[1]) : path' = <<part>> \o path
  /\ UNCHANGED <<entered, phase>>

CallBody ==
  /\ path[1] \in Calls /\ path[1] \notin entered
  /\ Entry[Callee[path[1]]] # NULL
  /\ path' = <<Entry[Callee[path[1]]]>> \o path
  /\ entered' = entered \cup {path[1]}
  /\ UNCHANGED phase

Complete ==
  /\ path[1] \in Calls /\ Entry[Callee[path[1]]] # NULL => path[1] \in entered
  /\ Kind[path[1]] \notin {"exit", "return"}
  /\ Proceed(path)

ExitLoop ==
  /\ Kind[path[1]] = "exit"
  /\ \E i \in 2..Len(path) :
       IsInnermost(i, Loops) /\ Proceed(SubSeq(path, i, Len(path)))

ReturnFromCall ==
  /\ Kind[path[1]] = "return"
  /\ \E i \in 2..Len(path) :
       IsInnermost(i, Calls) /\ Proceed(SubSeq(path, i, Len(path)))

\* A RETURN of the program itself ends the cycle.
ReturnFromProgram ==
  /\ Kind[path[1]] = "return" /\ \A i \in 2..Len(path) : path[i] \notin Calls
  /\ path' = <<First>> /\ phase' = "ready" /\ entered' = {}

\* The program fails: nothing moves until it is started again.
Fail == phase' = "failed" /\ UNCHANGED <<path, entered>>

Begin == phase = "ready" /\ phase' = "running" /\ UNCHANGED <<path, entered>>

StartAgain ==
  /\ phase # "running"
  /\ path' = <<First>> /\ phase' = "ready" /\ entered' = {}

Init == path = <<First>> /\ phase = "ready" /\ entered = {}

Move ==
  \/ Enter \/ CallBody \/ Complete
  \/ ExitLoop \/ ReturnFromCall \/ ReturnFromProgram \/ Fail

Next == (phase = "running" /\ Move) \/ Begin \/ StartAgain

Spec == Init /\ [][Next]_controlVars
=============================================================================
