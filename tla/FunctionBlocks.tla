--------------------------- MODULE FunctionBlocks ---------------------------
(***************************************************************************)
(* Function blocks while st_link binds them (elements/user_function_blocks *)
(* and the phases of st_link in api/esstee.c that touch them): the values  *)
(* of global variables are created, the blocks are checked for circular    *)
(* references, their headers are finalized, and the programs' variables    *)
(* are created.  A block's value is an instance: clones of the variables   *)
(* and the statements of its type, made while the references of the type's *)
(* own statements are bound to the new clones.                             *)
(*                                                                         *)
(* A block is what its variables are: each is of a function block type or  *)
(* Plain.  One loading of the sources and one st_link are modelled, with   *)
(* no other error in them and no allocation that fails.                    *)
(***************************************************************************)
EXTENDS Integers, Sequences, SequencesExt

CONSTANTS
  Blocks,       \* the function blocks of the compilation units
  Order,        \* the blocks in the order of their definition
  Plain,        \* a type that is not a function block
  Headers,      \* the variable lists to consider, one for each block
  Globals,      \* the lists of global variables to consider
  Programs,     \* the variables of the programs that are function blocks
  StackLimit,   \* nested create_value_of calls the C stack has room for
  NULL

\* A block is in the units' lists once.
ASSUME BlockAssumption ==
  /\ Order \in Seq(Blocks)
  /\ \A b \in Blocks : \E i \in 1..Len(Order) : Order[i] = b
  /\ \A i, j \in 1..Len(Order) : Order[i] = Order[j] => i = j
  /\ Plain \notin Blocks
  /\ NULL \notin Blocks
  /\ Headers \subseteq [Blocks -> Seq(Blocks \union {Plain})]
  /\ Globals \subseteq Seq(Blocks)
  /\ Programs \in Seq(Blocks)
  /\ StackLimit \in Nat

VARIABLES
  header,       \* the type of each variable of each block, in order
  mentioned,    \* do the statements of the blocks mention all variables?
  phase,        \* where st_link is
  at,           \* the block the phase has come to
  var,          \* the variable check_dependencies has come to
  walk,         \* the block depends_on looks at, NULL outside of it
  errors,       \* the issues of this st_link
  tabled,       \* the blocks whose header table has been made
  bound,        \* the instance a type's var_refs are bound to, 0 for none
  creating,     \* the nested create_value_of calls below the variable list
  instances,    \* the values that have been created
  nextId

vars == <<header, mentioned, phase, at, var, walk, errors, tabled, bound,
          creating, instances, nextId>>

linking == <<errors, tabled, bound, creating, instances, nextId>>

IsBlock(t) == t # Plain

-----------------------------------------------------------------------------
(* Creating instances                                                      *)

\* A variable list that is being gone through, calling create on each.
List(types) == [block |-> NULL, id |-> 0, size |-> 0, left |-> types]

\* The next of the variables in the list that is a function block.
IsNext(list, i) == IsBlock(list[i]) /\ \A j \in 1..(i - 1) : ~IsBlock(list[j])
NoBlocks(list) == \A i \in DOMAIN list : ~IsBlock(list[i])

\* The variables create_value_of clones.  It walks the header along hh.next,
\* which is NULL until st_create_header_tables has put them in a table.
Cloned(b) ==
  IF b \in tabled \/ header[b] = << >> THEN header[b] ELSE <<header[b][1]>>

\* What binding the type's references to the instance n complains about.
BindingErrors(b) ==
  IF mentioned /\ Len(Cloned(b)) < Len(header[b])
  THEN {[kind |-> "undefined", block |-> b]}
  ELSE {}

\* Mutant: reset_resolved is forgotten: what is bound stays bound.
BindOnce(b, n) == bound' = [bound EXCEPT ![b] = IF @ = 0 THEN n ELSE @]

\* reset_resolved and st_resolve_var_refs with the table of the clones.
Bind(b, n) == bound' = [bound EXCEPT ![b] = n]

Top == creating[Len(creating)]

\* The next variable of the list on top has a function block for its type:
\* create_value_of clones its variables and binds the references to them.
Enter ==
  /\ phase # "crashed" /\ creating # << >>
  /\ \E i \in DOMAIN Top.left :
       /\ IsNext(Top.left, i)
       /\ IF Len(creating) > StackLimit
          THEN /\ phase' = "crashed"
               /\ UNCHANGED linking
          ELSE LET b == Top.left[i]
                   rest == [Top EXCEPT !.left = SubSeq(@, i + 1, Len(@))]
                   instance == [block |-> b, id |-> nextId,
                                size |-> Len(Cloned(b)), left |-> Cloned(b)]
               IN  /\ errors' = errors \union BindingErrors(b)
                   /\ Bind(b, nextId)
                   /\ creating' = Append([creating EXCEPT ![Len(creating)] = rest],
                                         instance)
                   /\ nextId' = nextId + 1
                   /\ UNCHANGED <<phase, tabled, instances>>
  /\ UNCHANGED <<header, mentioned, at, var, walk>>

\* All variables have values: the statements are cloned, and the clones
\* refer to whatever the references of the type are bound to by now.
Leave ==
  /\ Len(creating) > 1 /\ NoBlocks(Top.left)
  /\ instances' = instances \union
       {[id |-> Top.id, block |-> Top.block, size |-> Top.size,
         refersTo |-> bound[Top.block], made |-> phase]}
  /\ creating' = Front(creating)
  /\ UNCHANGED <<header, mentioned, phase, at, var, walk, errors, tabled,
                 bound, nextId>>

\* The variable list itself is through.
Created == Len(creating) = 1 /\ NoBlocks(Top.left)

-----------------------------------------------------------------------------
(* The phases of st_link                                                   *)

AtBlock == Order[at]

\* Errors are counted between the phases only.
GateTo(next) == phase' = IF errors = {} THEN next ELSE "failed"

\* Every global variable has a value: on to the dependencies.
GlobalsCreated ==
  /\ phase = "globals" /\ Created
  /\ GateTo("check")
  /\ at' = 1 /\ var' = 1
  /\ creating' = << >>
  /\ UNCHANGED <<header, mentioned, walk, errors, tabled, bound, instances,
                 nextId>>

\* Mutant: only the very first variable is looked at, whatever its type is.
LeadsToByFirst(fb, t) ==
  header[fb] # << >> /\ header[fb][1] = t /\ IsBlock(t)

\* The first variable of fb with a function block for its type is a t.
LeadsTo(fb, t) ==
  \E i \in DOMAIN header[fb] : header[fb][i] = t /\ IsNext(header[fb], i)

\* Mutant: any circle met on the way is taken for a dependency.
DependsOrCircles(fb, type) ==
  fb = type \/ LeadsTo(fb, type) \/ LeadsTo(fb, fb)

\* depends_on returns ESSTEE_TRUE.
Depends(fb, type) == fb = type \/ LeadsTo(fb, type)

\* depends_on returns ESSTEE_FALSE: nothing to follow, or fb again.
GivesUp(fb) == LeadsTo(fb, fb) \/ \A t \in Blocks : ~LeadsTo(fb, t)

Checking == phase = "check" /\ at <= Len(Order)

\* Mutant: the loop over the variables does not get past one it is done with.
SameVariable == UNCHANGED var

NextVariable == var' = var + 1

\* A circular reference is reported, and the check of the block is over.
Refuse(b) ==
  /\ errors' = errors \union {[kind |-> "circular", block |-> b]}
  /\ at' = at + 1 /\ var' = 1 /\ walk' = NULL

\* check_dependencies goes to its next variable; one that is a function
\* block is handed to depends_on.
CheckVariable ==
  /\ Checking /\ walk = NULL
  /\ var <= Len(header[AtBlock])
  /\ LET t == header[AtBlock][var]
     IN  IF IsBlock(t) THEN walk' = t /\ UNCHANGED var
                       ELSE NextVariable /\ UNCHANGED walk
  /\ UNCHANGED <<header, mentioned, phase, at, linking>>

\* One call of depends_on; the last thing it may do is to call itself.
FollowDependency ==
  /\ Checking /\ walk # NULL
  /\ \/ /\ Depends(walk, AtBlock)
        /\ Refuse(AtBlock)
     \/ /\ ~Depends(walk, AtBlock) /\ GivesUp(walk)
        /\ walk' = NULL /\ NextVariable
        /\ UNCHANGED <<at, errors>>
     \/ /\ ~Depends(walk, AtBlock) /\ ~GivesUp(walk)
        /\ \E t \in Blocks : LeadsTo(walk, t) /\ walk' = t
        /\ UNCHANGED <<at, var, errors>>
  /\ UNCHANGED <<header, mentioned, phase, tabled, bound, creating,
                 instances, nextId>>

BlockChecked ==
  /\ Checking /\ walk = NULL
  /\ var > Len(header[AtBlock])
  /\ at' = at + 1 /\ var' = 1
  /\ UNCHANGED <<header, mentioned, phase, walk, linking>>

Checked ==
  /\ phase = "check" /\ at > Len(Order)
  /\ GateTo("headers")
  /\ at' = 1
  /\ UNCHANGED <<header, mentioned, var, walk, linking>>

\* Mutant: the header is finalized without a table.
MakeNoTable(b) == UNCHANGED tabled

\* st_create_header_tables: all variables can be reached from the first.
MakeTable(b) == tabled' = tabled \union {b}

\* finalize_header up to its loop over the variables.
FinalizeHeader ==
  /\ phase = "headers" /\ at <= Len(Order) /\ creating = << >>
  /\ MakeTable(AtBlock)
  /\ creating' = <<List(header[AtBlock])>>
  /\ UNCHANGED <<header, mentioned, phase, at, var, walk, errors, bound,
                 instances, nextId>>

\* The rest of it.  References that are bound to an instance stay bound.
HeaderFinalized ==
  /\ phase = "headers" /\ Created
  /\ at' = at + 1
  /\ creating' = << >>
  /\ UNCHANGED <<header, mentioned, phase, var, walk, errors, tabled, bound,
                 instances, nextId>>

\* The headers of the programs follow, without a look at the errors.
FinalizePrograms ==
  /\ phase = "headers" /\ at > Len(Order)
  /\ phase' = "programs"
  /\ creating' = <<List(Programs)>>
  /\ UNCHANGED <<header, mentioned, at, var, walk, errors, tabled, bound,
                 instances, nextId>>

Linked ==
  /\ phase = "programs" /\ Created
  /\ GateTo("done")
  /\ creating' = << >>
  /\ UNCHANGED <<header, mentioned, at, var, walk, errors, tabled, bound,
                 instances, nextId>>

Init ==
  /\ header \in Headers
  /\ mentioned \in BOOLEAN
  /\ phase = "globals"
  /\ at = 1 /\ var = 1 /\ walk = NULL
  /\ errors = {} /\ tabled = {}
  /\ bound = [b \in Blocks |-> 0]
  /\ \E g \in Globals : creating = <<List(g)>>
  /\ instances = {} /\ nextId = 1

Next ==
  \/ Enter \/ Leave
  \/ GlobalsCreated
  \/ CheckVariable \/ FollowDependency \/ BlockChecked \/ Checked
  \/ FinalizeHeader \/ HeaderFinalized
  \/ FinalizePrograms \/ Linked

Spec == Init /\ [][Next]_vars

\* st_link is a sequence of calls: it goes on as long as it can.
FairSpec == Spec /\ WF_vars(Next)

-----------------------------------------------------------------------------
(* Properties                                                              *)

Uses(b) == {header[b][i] : i \in DOMAIN header[b]} \ {Plain}

\* S holds the types of all variables of the blocks in S.
Closed(S) == \A b \in S : Uses(b) \subseteq S

\* An instance of b has, at some depth, an instance of t inside.
Holds(b, t) ==
  \A S \in SUBSET Blocks : Uses(b) \subseteq S /\ Closed(S) => t \in S

Acyclic == \A b \in Blocks : ~Holds(b, b)

Phases ==
  {"globals", "check", "headers", "programs", "done", "failed", "crashed"}

\* Types of the variables, and that the phases keep to their own state.
TypeOK ==
  /\ header \in Headers
  /\ mentioned \in BOOLEAN
  /\ phase \in Phases
  /\ at \in 1..(Len(Order) + 1)
  /\ var \in Nat \ {0}
  /\ walk \in Blocks \union {NULL}
  /\ walk # NULL => Checking
  /\ errors \subseteq [kind : {"circular", "undefined"}, block : Blocks]
  /\ tabled \subseteq Blocks
  /\ bound \in [Blocks -> Nat]
  /\ creating \in
       Seq([block : Blocks \union {NULL}, id : Nat, size : Nat,
            left : Seq(Blocks \union {Plain})])
  /\ instances \subseteq
       [id : Nat, block : Blocks, size : Nat, refersTo : Nat, made : Phases]
  /\ nextId \in Nat \ {0}
  /\ phase \in {"globals", "programs"} => creating # << >>

\* The statements of an instance work on the variables of that instance and
\* of no other, although all instances of a type are cloned from statements
\* bound, in turns, to each of them, with more of them created in between.
OwnVariables == \A i \in instances : i.refersTo = i.id

\* A block is only refused as circular when an instance of it would hold
\* another one of its kind.
NoFalseAlarm ==
  \A e \in errors : e.kind = "circular" => Holds(e.block, e.block)

PassedCheck == phase \in {"headers", "programs", "done"}

\* No block has more than one variable that is a function block.
Chains ==
  \A b \in Blocks : \A i, j \in DOMAIN header[b] :
    IsBlock(header[b][i]) /\ IsBlock(header[b][j]) => i = j

\* Where blocks are chains, as in the programs of the tests, what
\* check_dependencies accepts is not circular.
AcceptedChains == PassedCheck /\ Chains => Acyclic

\* What check_dependencies accepts is not circular.  The comment in
\* depends_on says there is a dependency "if any of the variables in a
\* function block lead to that type"; the code follows the first one only.
AcceptedAcyclic == PassedCheck => Acyclic

\* The variables of programs, and all that is inside of them, get every
\* variable of their type.
ProgramInstancesComplete ==
  \A i \in instances : i.made = "programs" => i.size = Len(header[i.block])

\* A value that is created in the finalize header function of a block has
\* all variables of its type.  The comment in st_link says the separate
\* resolution of the blocks' type references is there so that variables that
\* are function blocks "may create the values" in that function.
HeaderInstancesComplete ==
  \A i \in instances : i.made = "headers" => i.size = Len(header[i.block])

\* Blocks that are defined before they are used are linked without an error,
\* once the global variables have their values.
InOrder ==
  \A i \in DOMAIN Order :
    Uses(Order[i]) \subseteq {Order[j] : j \in 1..(i - 1)}

OrderedBlocksLink ==
  InOrder /\ phase \in {"check", "headers", "programs"} => errors = {}

\* st_link comes back for blocks that are not circular, and never exhausts
\* the stack of the process.
LinkEnds == Acyclic ~> phase \in {"done", "failed"}

\* The dependency check ends whatever the blocks are: the comment in
\* depends_on speaks of a circular reference met while checking, which is to
\* end the search.
CheckEnds == phase = "check" ~> phase # "check"
=============================================================================
