------------------------------ MODULE Program ------------------------------
(***************************************************************************)
(* A linked Structured Text program as the interpreter sees it: a set of   *)
(* invoke_iface structures (statements and the expressions that have to be *)
(* stepped) and the pointers among them that the parser and the linker     *)
(* leave.  What a value is, which branch a condition selects and how often *)
(* a loop iterates is not part of the program: the interpreter's actions   *)
(* choose.  An operand whose step pointer is NULL (a literal, a variable)  *)
(* is evaluated in place and appears as NULL.                              *)
(***************************************************************************)
EXTENDS Sequences, Integers

CONSTANTS
  Nodes,           \* the statements and the expressions with a step function
  Callees,         \* functions and function block instances
  NULL,
  First,           \* the program's first statement, cursor->cycle_start
  Kind,            \* what a node is
  NextOf,          \* the following statement of its list (invoke.next) or NULL
  HeadOf,          \* the first statement of the list a node is in
  Operands,        \* its operands, in evaluation order: the condition of an IF
                   \* or loop, FROM/TO/BY, left/right, the call parameters
  Body,            \* the first statement of a loop's body
  Branches,        \* where an IF or CASE may continue (NULL: nowhere)
  Callee,          \* whom a call invokes
  Entry,           \* the first statement of a callee, NULL for a builtin
  FunctionBlocks,  \* the callees that are function block instances
  Owned,           \* the nodes whose reset function a reset of the node calls
  Faulty           \* the nodes whose evaluation may fail at run time

Kinds == {"empty", "assign", "expression", "if", "case", "while", "repeat",
          "for", "invoke", "term", "exit", "return"}

Loops == {n \in Nodes : Kind[n] \in {"while", "repeat", "for"}}
Calls == {n \in Nodes : Kind[n] \in {"invoke", "term"}}
Selections == {n \in Nodes : Kind[n] \in {"if", "case"}}
Evaluations == {n \in Nodes : Kind[n] \in {"assign", "expression"}}
ExpressionNodes == {n \in Nodes : Kind[n] \in {"expression", "term"}}

Optional == Nodes \cup {NULL}

\* Who can fail: an assignment or parameter out of its type's range, an
\* operator (division by zero), a CASE comparison, a FOR variable.
MayFail == {n \in Nodes : Kind[n] \in {"assign", "expression", "case", "for"}
                           \/ (n \in Calls /\ Operands[n] # <<>>)}

ASSUME ProgramTypes ==
  /\ NULL \notin Nodes
  /\ First \in Nodes
  /\ Kind \in [Nodes -> Kinds]
  /\ NextOf \in [Nodes -> Optional]
  /\ HeadOf \in [Nodes -> Nodes]
  /\ Operands \in [Nodes -> Seq(Optional)]
  /\ Body \in [Nodes -> Optional]
  /\ Branches \in [Nodes -> SUBSET Optional]
  /\ Callee \in [Nodes -> Callees \cup {NULL}]
  /\ Entry \in [Callees -> Optional]
  /\ FunctionBlocks \subseteq Callees
  /\ Owned \in [Nodes -> SUBSET Nodes]
  /\ Faulty \subseteq MayFail

(***************************************************************************)
(* The parts of a node: the operands it steps and the statement lists it   *)
(* holds, each named by its first statement.  A callee's statements are    *)
(* not a part of the calls to it.                                          *)
(***************************************************************************)
OperandsOf(n) == {Operands[n][i] : i \in 1..Len(Operands[n])} \ {NULL}
Parts(n) == OperandsOf(n) \cup ((Branches[n] \cup {Body[n]}) \ {NULL})

\* What st_create_..._statement and the linker put together.
ASSUME ProgramShape ==
  /\ \A n \in Loops : Body[n] \in Nodes
  /\ \A n \in Nodes : Kind[n] \in {"if", "case", "while", "repeat", "assign"}
                        => Len(Operands[n]) = 1
  /\ \A n \in Nodes : Kind[n] = "expression" => Len(Operands[n]) \in 1..6
  /\ \A n \in Nodes : Kind[n] = "for" => Len(Operands[n]) = 3
  /\ \A n \in Selections : Branches[n] # {}
  /\ \A n \in Calls : Callee[n] \in Callees
  /\ \A f \in FunctionBlocks : Entry[f] \in Nodes
  /\ HeadOf[First] = First
  \* a list ends: nothing links back to its head
  /\ \A n \in Nodes : NextOf[n] # NULL =>
       HeadOf[NextOf[n]] = HeadOf[n] /\ NextOf[n] # HeadOf[n]
  \* operands are expressions, and only statements are linked into lists
  /\ \A n \in Nodes : OperandsOf(n) \subseteq ExpressionNodes
  /\ \A n \in ExpressionNodes : NextOf[n] = NULL
  \* a list is entered at its head
  /\ \A n \in Nodes : \A part \in Parts(n) : HeadOf[part] = part
  /\ \A f \in Callees : Entry[f] # NULL => HeadOf[Entry[f]] = Entry[f]

\* The reset functions call each other down the tree, over whole lists
\* (DL_FOREACH), and stop at calls: a call resets its callee's flag, not the
\* callee's statements.
ASSUME OwnedIsTheSubtree ==
  \A n \in Nodes :
    Owned[n] = {n} \cup UNION {Owned[m] : m \in {k \in Nodes : HeadOf[k] \in Parts(n)}}
=============================================================================
