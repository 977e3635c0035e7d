---------------------------- MODULE ProgramTree ----------------------------
(***************************************************************************)
(* Programs for the model checker.  A program is a record: its statement   *)
(* lists (each stepped operand is a list of its own), the kinds of the     *)
(* nodes, and what differs from the defaults.  This module derives the     *)
(* pointers and annotations that Program and Structured take as constants. *)
(***************************************************************************)
EXTENDS Program, ContextList, FiniteSetsExt, TLC

CONSTANT ThisProgram  \* the program of the run

\* f as a table: TLC would evaluate a function expression anew at every use.
Table(f) == f @@ f

NodesOf(p) == DOMAIN p.kind

Given(p, f, default) ==
  Table([n \in NodesOf(p) |-> IF n \in DOMAIN f THEN f[n] ELSE default])

ListOf(p, n) == CHOOSE l \in p.lists : n \in Elements(l)

HeadMap(p) == Table([n \in NodesOf(p) |-> ListOf(p, n)[1]])

NextMap(p) ==
  Table([n \in NodesOf(p) |->
           LET l == ListOf(p, n)
           IN IF n = l[Len(l)] THEN NULL ELSE l[Position(l, n) + 1]])

\* Unless they are given, operands are literals or variables, nothing to step.
PlainOperands(kind) ==
  CASE kind = "expression" -> <<NULL, NULL>>
    [] kind = "for" -> <<NULL, NULL, NULL>>
    [] kind \in {"empty", "exit", "return"} -> <<>>
    [] OTHER -> <<NULL>>

OperandsMap(p) ==
  Table([n \in NodesOf(p) |-> IF n \in DOMAIN p.operands THEN p.operands[n]
                              ELSE PlainOperands(p.kind[n])])

BodyMap(p) == Given(p, p.body, NULL)
BranchesMap(p) == Given(p, p.branches, {})
CalleeMap(p) == Given(p, p.callee, NULL)

PartsMap(p) ==
  LET operands == OperandsMap(p)
      body == BodyMap(p)
      branches == BranchesMap(p)
  IN Table([n \in NodesOf(p) |->
              (Elements(operands[n]) \cup branches[n] \cup {body[n]}) \ {NULL}])

\* The nodes that contain, or call, the list a node is in.
ContainersMap(p) ==
  LET head == HeadMap(p)
      parts == PartsMap(p)
  IN Table([n \in NodesOf(p) |-> {m \in NodesOf(p) : head[n] \in parts[m]}])

CallersMap(p) ==
  LET head == HeadMap(p)
  IN Table([n \in NodesOf(p) |->
              {m \in DOMAIN p.callee : p.entry[p.callee[m]] = head[n]}])

OwnedMap(p) ==
  LET containers == ContainersMap(p)
      owned[n \in NodesOf(p)] ==
        {n} \cup UNION {owned[m] : m \in {k \in NodesOf(p) : n \in containers[k]}}
  IN Table(owned)

LevelMap(p) ==
  LET containers == ContainersMap(p)
      callers == CallersMap(p)
      level[n \in NodesOf(p)] ==
        IF containers[n] \cup callers[n] = {} THEN 0
        ELSE 1 + Max({level[m] : m \in containers[n] \cup callers[n]})
  IN Table(level)

LoopMap(p) ==
  LET containers == ContainersMap(p)
      loop[n \in NodesOf(p)] ==
        IF containers[n] = {} THEN NULL
        ELSE LET c == CHOOSE m \in containers[n] : TRUE
             IN IF p.kind[c] \in {"while", "repeat", "for"} THEN c ELSE loop[c]
  IN Table(loop)

\* The callee whose statements a node belongs to.
OwnerMap(p) ==
  LET head == HeadMap(p)
      containers == ContainersMap(p)
      owner[n \in NodesOf(p)] ==
        IF containers[n] # {} THEN owner[CHOOSE m \in containers[n] : TRUE]
        ELSE IF \E f \in DOMAIN p.entry : p.entry[f] = head[n]
               THEN CHOOSE f \in DOMAIN p.entry : p.entry[f] = head[n]
               ELSE NULL
  IN Table(owner)

-----------------------------------------------------------------------------
(***************************************************************************)
(* The constants of the run.  TLC evaluates Tree once, but a definition    *)
(* that replaces a constant at every use of it, so those only select; the  *)
(* LETs keep its coverage statistics from expanding Tree at every use.     *)
(***************************************************************************)
Tree == [
  nodes |-> NodesOf(ThisProgram), kind |-> ThisProgram.kind,
  head |-> HeadMap(ThisProgram), next |-> NextMap(ThisProgram),
  operands |-> OperandsMap(ThisProgram), body |-> BodyMap(ThisProgram),
  branches |-> BranchesMap(ThisProgram), owned |-> OwnedMap(ThisProgram),
  callee |-> CalleeMap(ThisProgram), entry |-> ThisProgram.entry,
  level |-> LevelMap(ThisProgram), loop |-> LoopMap(ThisProgram),
  owner |-> OwnerMap(ThisProgram), first |-> ThisProgram.first,
  blocks |-> ThisProgram.blocks, faulty |-> ThisProgram.faulty]

TreeNodes == LET t == Tree IN t.nodes
TreeCallees == LET t == Tree IN DOMAIN t.entry
TreeFirst == LET t == Tree IN t.first
TreeKind == LET t == Tree IN t.kind
TreeNextOf == LET t == Tree IN t.next
TreeHeadOf == LET t == Tree IN t.head
TreeOperands == LET t == Tree IN t.operands
TreeBody == LET t == Tree IN t.body
TreeBranches == LET t == Tree IN t.branches
TreeOwned == LET t == Tree IN t.owned
TreeCallee == LET t == Tree IN t.callee
TreeEntry == LET t == Tree IN t.entry
TreeFunctionBlocks == LET t == Tree IN t.blocks
TreeFaulty == LET t == Tree IN t.faulty
TreeLevel == LET t == Tree IN t.level
TreeLoopOf == LET t == Tree IN t.loop
TreeCalleeOf == LET t == Tree IN t.owner

\* What malloc may have left: zeroes, or the same stale value everywhere, or
\* any value in every invocation inside an expression.
Stale(v) == [
  state |-> [n \in TreeNodes |-> IF n \in Calls /\ v > 2 THEN 2 ELSE v],
  args |-> [n \in TreeNodes |-> v],
  callee |-> [f \in TreeCallees |-> IF v = 0 \/ TreeEntry[f] = NULL THEN 0 ELSE 1]]

Zeroes == {Stale(0)}
StaleValues == {Stale(0), Stale(5)}
StaleTerms ==
  LET terms == {n \in TreeNodes : TreeKind[n] = "term"}
  IN {[Stale(0) EXCEPT !.state = s @@ Stale(0).state] : s \in [terms -> 0..2]}
=============================================================================
