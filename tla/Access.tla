------------------------------- MODULE Access -------------------------------
(***************************************************************************)
(* Qualified references at work: assignments through array indices and     *)
(* struct members (elements/qualified_identifier.c, elements/array.c,      *)
(* statements/qualified_assignment.c), the initial values they start from, *)
(* and the queries the host asks between two cycles (elements/queries.c).  *)
(*                                                                         *)
(* A reference is a sequence of parts, a name and an index list each.  An  *)
(* index is a literal, a variable (read where it is used), a sum of a      *)
(* variable and a literal (stepped into a temporary of its own) or a       *)
(* member of a struct.  A reference that has no index, or literals only,   *)
(* is constant: it is resolved once, when it is verified.  Any other is    *)
(* resolved by each execution, after its indices have been stepped.        *)
(*                                                                         *)
(* The program runs one statement at a time and the queries come between   *)
(* cycles, so the interleavings are those of the operands of a statement:  *)
(* a function called on the right changes variables the left is indexed    *)
(* by.  What is read before anything has stored it is one value, garbage.  *)
(***************************************************************************)
EXTENDS Arrays
LOCAL INSTANCE SequencesExt
LOCAL INSTANCE FiniteSetsExt

CONSTANTS
    Projects,    \* what may be linked: a sequence of variables and programs
    QueryLists,  \* what the host may ask
    BufferSizes, \* the sizes of the output it gives
    Garbage      \* what memory may hold before it is written

VARIABLES
    project,   \* which of them is linked
    garbage,   \* what unwritten memory holds
    status,    \* "parsed", "linked", "refused", "started", "running",
               \* "failed" (a cycle ended in an error) or "crashed"
    mem,       \* the integers, by path
    uses,      \* per statement, the state of its two references
    current,   \* the statement that runs
    stage,     \* which of its operands: "left", "right", or "assign"
    answer     \* of the last start or query

vars == <<project, garbage, status, mem, uses, current, stage, answer>>

-----------------------------------------------------------------------------
(* References and operands *)

Part(name, index) == [name |-> name, index |-> index]
Number(v)    == [kind |-> "literal", name |-> "", plus |-> v]
Variable(x)  == [kind |-> "variable", name |-> x, plus |-> 0]
Sum(x, k)    == [kind |-> "sum", name |-> x, plus |-> k]
Member(x)    == [kind |-> "member", name |-> x, plus |-> 0]

\* Right-hand sides: a literal, a variable, an element, an element plus
\* a literal, or a call of a function that writes a variable and returns.
Value(v)           == [kind |-> "literal", value |-> v, name |-> "", ref |-> <<>>, writes |-> 0]
Identifier(x)      == [kind |-> "identifier", value |-> 0, name |-> x, ref |-> <<>>, writes |-> 0]
ElementOf(ref)     == [kind |-> "element", value |-> 0, name |-> "", ref |-> ref, writes |-> 0]
Raised(ref, k)     == [kind |-> "raised", value |-> k, name |-> "", ref |-> ref, writes |-> 0]
Call(x, v, result) == [kind |-> "call", value |-> result, name |-> x, ref |-> <<>>, writes |-> v]

Declared == Projects[project].variables
Program == Projects[project].program

RootOf(variables) ==
    StructType([x \in {v.name : v \in Range(variables)} |->
                   (CHOOSE v \in Range(variables) : v.name = x).type])

Layouts == [p \in DOMAIN Projects |-> Layout(RootOf(Projects[p].variables))]

LayoutNow == Layouts[project]
Types(path) == LayoutNow[path]
IsInteger(path) == Types(path).kind = "integer"
Below(path) == {p \in DOMAIN LayoutNow : IsPrefix(path, p)}
CellsBelow(path) == {p \in Below(path) : IsInteger(p)}

HasStep(index) == index.kind \in {"sum", "member"}
ConstantIndex(index) == \A j \in DOMAIN index : index[j].kind = "literal"
ConstantReference(ref) == \A p \in DOMAIN ref : ConstantIndex(ref[p].index)

-----------------------------------------------------------------------------
(* What is asked of the constants: the shape the parser gives a program     *)
(* and a query list, and that the indices are integers.                    *)

Indexes == [kind : {"literal", "variable", "sum", "member"}, name : STRING, plus : Int]
Parts == [name : STRING, index : Seq(Indexes)]
RightHandSides ==
    [kind : {"literal", "identifier", "element", "raised", "call"},
     value : Int, name : STRING, ref : Seq(Parts), writes : Int]
Statements ==
    {s \in [left : Seq(Parts) \ {<<>>}, right : RightHandSides] : s.right.kind = "element" => s.right.ref # <<>>}
Asked == [ref : Seq(Parts) \ {<<>>}, assigned : Seq(RightHandSides)]

IndexedByIntegers(ref, layout) ==
    \A p \in DOMAIN ref : \A j \in DOMAIN ref[p].index :
        ref[p].index[j].kind \in {"variable", "sum"} =>
            /\ <<ref[p].index[j].name>> \in DOMAIN layout
            /\ layout[<<ref[p].index[j].name>>].kind = "integer"

ASSUME ProjectsAssumption ==
    \A p \in DOMAIN Projects :
        /\ Projects[p].variables \in Seq(Range(Projects[p].variables))
        /\ Projects[p].program \in Seq(Statements)
        /\ \A s \in DOMAIN Projects[p].program :
               IndexedByIntegers(Projects[p].program[s].left, Layouts[p])

ASSUME QueriesAssumption == QueryLists \subseteq Seq(Asked)

-----------------------------------------------------------------------------
(* qualified_identifier.c: a reference in use.  next is the part to step,  *)
(* node the index to step in each part, temp the temporaries of the sums,  *)
(* owner and target what the last resolution found.                        *)

FreshUse(ref, unwritten) ==
    [next |-> 1, node |-> [p \in DOMAIN ref |-> 1],
     temp |-> [p \in DOMAIN ref |-> [j \in DOMAIN ref[p].index |->
                  IF HasStep(ref[p].index[j]) THEN unwritten ELSE 0]],
     owner |-> {}, target |-> {}]

\* Mutant: the reset forgets where the stepping of the parts begins.
ResetNodesOnly(use) == [use EXCEPT !.node = [p \in DOMAIN @ |-> 1]]

ResetUse(use) == [use EXCEPT !.next = 1, !.node = [p \in DOMAIN @ |-> 1]]

ToStep(ref, use, p) == {j \in use.node[p] .. Len(ref[p].index) : HasStep(ref[p].index[j])}
PartsToStep(ref, use) == {p \in use.next .. Len(ref) : ToStep(ref, use, p) # {}}

\* The pointer to the part moves on before the index list is stepped, and
\* the list gives way to the first index that has a step: when that has been
\* evaluated the next part is stepped, whatever this one still holds.
StepIndex(ref, use) ==
    LET p == Min(PartsToStep(ref, use))
        j == Min(ToStep(ref, use, p))
        e == ref[p].index[j]
    IN  [use EXCEPT !.next = p + 1, !.node[p] = j + 1,
                    !.temp[p][j] = IF e.kind = "sum" THEN mem[<<e.name>>] + e.plus ELSE @]

\* The values the index lists of the parts have now.
IndicesNow(ref, use) ==
    [p \in DOMAIN ref |-> [j \in DOMAIN ref[p].index |->
        LET e == ref[p].index[j]
        IN  CASE e.kind = "literal"  -> e.plus
              [] e.kind = "variable" -> mem[<<e.name>>]
              [] OTHER               -> use.temp[p][j]]]

\* The variables that the p-th part names inside some others, and what its
\* index list selects in some variables.
NamedIn(layout, ref, p, paths) == UNION {SubVariable(layout, w, ref[p].name) : w \in paths}

IndexedIn(layout, ref, indices, p, paths) ==
    IF ref[p].index = <<>> THEN paths
    ELSE UNION {IndexValue(layout, v, indices[p]) : v \in paths}

\* What the first parts select, by their number.
Selection(layout, ref, indices) ==
    LET selected[n \in 0 .. Len(ref)] ==
            IF n = 0 THEN {<<>>}
            ELSE IndexedIn(layout, ref, indices, n, NamedIn(layout, ref, n, selected[n - 1]))
    IN  selected

\* The variable the p-th part names, given what the parts before it select.
OwnerOf(layout, ref, indices, p) == NamedIn(layout, ref, p, Selection(layout, ref, indices)[p - 1])

\* What the last part selects in its variable.
TargetOf(layout, ref, indices, owner) == IndexedIn(layout, ref, indices, Len(ref), owner)

\* qualified_identifier_resolve_chain
ResolveChain(ref, use) ==
    LET indices == IndicesNow(ref, use)
        owner == OwnerOf(LayoutNow, ref, indices, Len(ref))
    IN  [use EXCEPT !.owner = owner, !.target = TargetOf(LayoutNow, ref, indices, owner)]

\* A struct member used as an index is a constant reference that nothing has
\* resolved: verifying a reference does not verify its indices.
MeetsUnresolved(ref, use) ==
    \E p \in DOMAIN ref : /\ \E j \in DOMAIN ref[p].index : ref[p].index[j].kind = "member"
                          /\ OwnerOf(LayoutNow, ref, IndicesNow(ref, use), p) # {}

\* target_assign and target_assignable_from: the owner is the one resolved,
\* its index list is read again.
TargetNow(ref, use) == TargetOf(LayoutNow, ref, IndicesNow(ref, use), use.owner)

-----------------------------------------------------------------------------
(* The link: the check of the initialisers, then each statement is         *)
(* allocated and verified.                                                 *)

Verified(ref, use) == IF ConstantReference(ref) THEN ResolveChain(ref, use) ELSE use
VerifyFails(ref, use) == ConstantReference(ref) /\ Verified(ref, use).target = {}

Only(S) == CHOOSE x \in S : TRUE

Assigns(left, right) == [left |-> left, right |-> right]

\* assignable_from at link time, when the left-hand side is constant.
Assignable(s, use) ==
    \A path \in use.left.target :
        /\ IsInteger(path)
        /\ s.right.kind = "literal" => CanHold(Types(path), s.right.value)
        /\ s.right.kind = "identifier" => IsInteger(<<s.right.name>>)
        /\ s.right.kind = "element" => \A q \in use.right.target : IsInteger(q)

VerifiedUse(s, use) ==
    [left  |-> Verified(s.left, use.left),
     right |-> IF s.right.kind = "element" THEN Verified(s.right.ref, use.right) ELSE use.right]

StatementRefused(s, use) ==
    \/ VerifyFails(s.left, use.left)
    \/ s.right.kind = "element" /\ VerifyFails(s.right.ref, use.right)
    \/ ConstantReference(s.left) /\ ~Assignable(s, VerifiedUse(s, use))

\* What the value of an element is, is asked before anything resolved it:
\* when a sum on it gets its temporary, and when a constant left-hand side
\* is compared with an element that has a variable index.
StatementCrashes(s, use) ==
    \/ s.right.kind = "raised"
    \/ /\ s.right.kind = "element" /\ ~ConstantReference(s.right.ref)
       /\ ConstantReference(s.left) /\ ~VerifyFails(s.left, use.left)

LinkResult ==
    IF \E v \in Range(Declared) : HasInitializer(v.type) /\ ~PassesCheck(v.type) THEN "refused"
    ELSE IF \E s \in DOMAIN Program : StatementCrashes(Program[s], uses[s]) THEN "crashed"
    ELSE IF \E s \in DOMAIN Program : StatementRefused(Program[s], uses[s]) THEN "refused"
    ELSE "linked"

Init ==
    /\ project \in DOMAIN Projects
    /\ garbage \in Garbage
    /\ status = "parsed"
    /\ mem = [c \in CellsBelow(<<>>) |-> garbage]
    /\ uses = [s \in DOMAIN Program |->
                  [left  |-> FreshUse(Program[s].left, garbage),
                   right |-> FreshUse(Program[s].right.ref, garbage)]]
    /\ current = 1
    /\ stage = "left"
    /\ answer = "none"

Link ==
    /\ status = "parsed"
    /\ status' = LinkResult
    /\ uses' = [s \in DOMAIN Program |-> VerifiedUse(Program[s], uses[s])]
    /\ UNCHANGED <<project, garbage, mem, current, stage, answer>>

-----------------------------------------------------------------------------
(* st_start: every global variable is reset, in the order of declaration.  *)

ResetUses(s) == [uses EXCEPT ![s] = [left |-> ResetUse(@.left), right |-> ResetUse(@.right)]]

\* The new values of the cells of one variable, and whether all went well.
Reset(v) ==
    IF HasInitializer(v.type)
    THEN LET init == Initialisation(v.type)
         IN  [cells  |-> [c \in {p \in CellsBelow(<<v.name>>) : p[2] \in DOMAIN init.elements} |->
                             init.elements[c[2]]],
              result |-> init.result]
    ELSE [cells |-> [c \in CellsBelow(<<v.name>>) |-> Types(c).default], result |-> "ok"]

\* The reset of a variable follows those that went well.
ThenReset(done, reset) ==
    IF done.result = "ok"
    THEN [mem |-> [c \in DOMAIN done.mem |->
                      IF c \in DOMAIN reset.cells THEN reset.cells[c] ELSE done.mem[c]],
          result |-> reset.result]
    ELSE done

ResetAll(variables) ==
    LET done[n \in 0 .. Len(variables)] ==
            IF n = 0 THEN [mem |-> mem, result |-> "ok"]
            ELSE ThenReset(done[n - 1], Reset(variables[n]))
    IN  done[Len(variables)]

Start ==
    /\ status \in {"linked", "started", "failed"}
    /\ \E done \in {ResetAll(Declared)} :
          /\ mem' = done.mem
          /\ answer' = done.result
          /\ status' = CASE done.result = "ok"    -> "started"
                         [] done.result = "crash" -> "crashed"
                         [] OTHER                 -> status
    /\ current' = 1
    /\ stage' = "left"
    /\ uses' = ResetUses(1)
    /\ UNCHANGED <<project, garbage>>

-----------------------------------------------------------------------------
(* qualified_assignment.c, one statement after the other.                  *)

Now == Program[current]

Fail ==
    /\ status' = "failed"
    /\ UNCHANGED <<project, garbage, mem, uses, current, stage, answer>>

Crash ==
    /\ status' = "crashed"
    /\ UNCHANGED <<project, garbage, mem, uses, current, stage, answer>>

RunCycle ==
    /\ status = "started"
    /\ status' = "running"
    /\ UNCHANGED <<project, garbage, mem, uses, current, stage, answer>>

\* The references of a statement, each stepped in its stage.
Reference(side) == IF side = "left" THEN Now.left ELSE Now.right.ref

ToBeStepped(side) ==
    /\ status = "running" /\ stage = side
    /\ side = "right" => Now.right.kind = "element"

Stepped(ref, use) == ConstantReference(ref) \/ PartsToStep(ref, use) = {}

StepReference(side) ==
    /\ ToBeStepped(side)
    /\ ~Stepped(Reference(side), uses[current][side])
    /\ uses' = [uses EXCEPT ![current][side] = StepIndex(Reference(side), @)]
    /\ UNCHANGED <<project, garbage, status, mem, current, stage, answer>>

\* No index is left: a constant reference was resolved at link time, any
\* other is resolved here.
Resolution(ref, use) ==
    IF ConstantReference(ref) THEN use
    ELSE ResolveChain(ref, [use EXCEPT !.next = Len(ref) + 1])

EndReference(side) ==
    /\ ToBeStepped(side)
    /\ Stepped(Reference(side), uses[current][side])
    /\ IF MeetsUnresolved(Reference(side), uses[current][side]) THEN Crash
       ELSE \E use \in {Resolution(Reference(side), uses[current][side])} :
            IF use.target = {} THEN Fail
            ELSE /\ uses' = [uses EXCEPT ![current][side] = use]
                 /\ stage' = IF side = "left" /\ Now.right.kind \in {"element", "call"}
                             THEN "right" ELSE "assign"
                 /\ UNCHANGED <<project, garbage, status, mem, current, answer>>

\* A function runs to its end; the variable it writes is an external one.
CallFunction ==
    /\ status = "running" /\ stage = "right" /\ Now.right.kind = "call"
    /\ mem' = [mem EXCEPT ![<<Now.right.name>>] = Now.right.writes]
    /\ stage' = "assign"
    /\ UNCHANGED <<project, garbage, status, uses, current, answer>>

\* What the right-hand side is worth: its value is pointed at, so it is read
\* now.  Nothing when it is no integer.
RightPaths ==
    CASE Now.right.kind = "identifier" -> {<<Now.right.name>>}
      [] Now.right.kind = "element"    -> uses[current].right.target
      [] OTHER                         -> {}

RightValues ==
    IF Now.right.kind \in {"literal", "call"} THEN {Now.right.value}
    ELSE {mem[p] : p \in {q \in RightPaths : IsInteger(q)}}

\* Mutant: the statement after this one is entered as it was left.
NextUnreset ==
    IF current < Len(Program)
    THEN /\ current' = current + 1
         /\ stage' = "left"
         /\ UNCHANGED <<status, uses>>
    ELSE /\ current' = 1
         /\ stage' = "assign"
         /\ status' = "started"
         /\ UNCHANGED uses

\* The statement after this one is reset.  The first one is entered again
\* without that, and so goes on where it ended: with the assignment.
NextStatement ==
    IF current < Len(Program)
    THEN /\ current' = current + 1
         /\ uses' = ResetUses(current + 1)
         /\ stage' = "left"
         /\ UNCHANGED status
    ELSE /\ current' = 1
         /\ stage' = "assign"
         /\ status' = "started"
         /\ UNCHANGED uses

\* The element the left-hand side selects is looked up once more, by an
\* index list that is read as it is now.
Stores ==
    {[path |-> p, value |-> v] : p \in TargetNow(Now.left, uses[current].left), v \in RightValues}

Assign ==
    /\ status = "running" /\ stage = "assign"
    /\ \/ /\ \E s \in Stores : /\ CanHold(Types(s.path), s.value)
                               /\ mem' = [mem EXCEPT ![s.path] = s.value]
          /\ NextStatement
          /\ UNCHANGED <<project, garbage, answer>>
       \/ /\ \A s \in Stores : ~CanHold(Types(s.path), s.value)
          /\ Fail

-----------------------------------------------------------------------------
(* queries.c.  A query names an element, and may assign it first.  All of  *)
(* them are linked, then each one is evaluated, then all are displayed.    *)

Show(ref) == [ref |-> ref, assigned |-> <<>>]
Set(ref, right) == [ref |-> ref, assigned |-> <<right>>]

LinkFails(q) ==
    \/ SubVariable(LayoutNow, <<>>, q.ref[1].name) = {}
    \/ \E i \in DOMAIN q.assigned : LET r == q.assigned[i]
                                   IN  /\ r.kind = "element"
                                       /\ VerifyFails(r.ref, FreshUse(r.ref, garbage))

\* The test that asks for a constant reference compares the address of the
\* function that tells, so it refuses none: the target of a reference that
\* has a variable index is a pointer nothing has set.
QueryTarget(ref) ==
    IF ConstantReference(ref) THEN ResolveChain(ref, FreshUse(ref, garbage)).target ELSE {}

\* One query, over the memory the ones before have left.  The target is used
\* when it is assigned, and by the display once all have been evaluated.
Failed(done) == [done EXCEPT !.result = "error"]
Crashed(done) == [done EXCEPT !.result = "crash"]

AssignAt(done, path, right) ==
    LET values == IF right.kind = "literal" THEN {right.value}
                  ELSE {done.mem[p] : p \in {q \in {<<right.name>>} : IsInteger(q)}}
    IN  IF \E v \in values : CanHold(Types(path), v)
        THEN [done EXCEPT !.mem[path] = Only(values)]
        ELSE Failed(done)

AssignFirst(done, q, found) ==
    IF q.assigned = <<>> THEN done
    ELSE IF q.assigned[1].kind = "element" THEN Failed(done)
    ELSE IF found = {} THEN Crashed(done)
    ELSE AssignAt(done, Only(found), q.assigned[1])

EvaluateOne(done, q, found) ==
    IF found = {} /\ ConstantReference(q.ref) THEN Failed(done) ELSE AssignFirst(done, q, found)

\* Mutant: a query is evaluated although one before it has failed.
EvaluatedAnyway(done, q) ==
    IF done.result # "crash"
    THEN EvaluateOne(done, q, QueryTarget(q.ref))
    ELSE done

Evaluated(done, q) ==
    IF done.result = "ok"
    THEN EvaluateOne(done, q, QueryTarget(q.ref))
    ELSE done

Linked(list) ==
    [mem |-> mem, result |-> IF \E i \in DOMAIN list : LinkFails(list[i]) THEN "error" ELSE "ok"]

Evaluate(list) ==
    LET done[n \in 0 .. Len(list)] ==
            IF n = 0 THEN Linked(list) ELSE Evaluated(done[n - 1], list[n])
    IN  done[Len(list)]

\* The characters a value is displayed in: a number, or a bracket, the
\* elements with a comma between them and a bracket; a struct names its
\* members, by one letter and a colon.
Width(path, memory) ==
    LET t == Types(path)
        n == Cardinality(StepsBelow(t))
    IN  CASE t.kind = "integer" -> Len(ToString(memory[path]))
          [] t.kind = "array"   -> n + 1
          [] OTHER              -> 3 * n + 1

DisplayLength(path, memory) ==
    FoldSet(LAMBDA p, total : total + Width(p, memory), 0, Below(path))

\* A number is cut off by snprintf.  The display of an array or a struct
\* counts what it could not write against the space that is left, which
\* goes below zero and stands for any amount: what comes after is written
\* behind the end of the output.
DisplayAt(shown, start, length, compound, size) ==
    IF compound /\ start + length - 1 > size THEN [shown EXCEPT !.result = "overrun"]
    ELSE [written |-> start + length, result |-> "ok", separator |-> 1]

Displayed(shown, found, memory, size) ==
    LET start == shown.written + shown.separator
    IN  IF shown.result # "ok" THEN shown
        ELSE IF start > size THEN Failed(shown)
        ELSE IF found = {} THEN Crashed(shown)
        ELSE DisplayAt(shown, start, DisplayLength(Only(found), memory), ~IsInteger(Only(found)), size)

Closed(shown, size) ==
    IF shown.result = "ok" /\ ~(shown.written + 1 <= size) THEN "error" ELSE shown.result

\* What is shown of a list, by the number of its queries.
Shown(list, memory, size) ==
    LET shown[n \in 0 .. Len(list)] ==
            IF n = 0 THEN [written |-> 0, result |-> "ok", separator |-> 0]
            ELSE Displayed(shown[n - 1], QueryTarget(list[n].ref), memory, size)
    IN  shown

Display(list, memory, size) == Closed(Shown(list, memory, size)[Len(list)], size)

Outcomes(list, done, size) ==
    IF done.result # "ok" THEN {done.result}
    ELSE UNION {IF shown = "overrun" THEN {"error", "crash"} ELSE {shown} :
                shown \in {Display(list, done.mem, size)}}

\* st_query.  Before a start the variables are what they were created as.
Query(list, size) ==
    /\ status \in {"linked", "started"}
    /\ \E done \in {Evaluate(list)} : \E outcome \in Outcomes(list, done, size) :
          /\ mem' = done.mem
          /\ answer' = outcome
          /\ status' = IF outcome = "crash" THEN "crashed" ELSE status
    /\ UNCHANGED <<project, garbage, uses, current, stage>>

Next ==
    \/ Link
    \/ Start
    \/ RunCycle
    \/ \E side \in {"left", "right"} : StepReference(side) \/ EndReference(side)
    \/ CallFunction
    \/ Assign
    \/ \E list \in QueryLists, size \in BufferSizes : Query(list, size)

Spec == Init /\ [][Next]_vars

-----------------------------------------------------------------------------
(* Properties.  What a reference names is said here without the steps that *)
(* find it: every index has the value it has in the memory of the moment.  *)

ValueNow(e) ==
    CASE e.kind = "literal"  -> e.plus
      [] e.kind = "variable" -> mem[<<e.name>>]
      [] OTHER               -> mem[<<e.name>>] + e.plus

Selected(path, part) ==
    UNION {IF part.index = <<>> THEN {v}
           ELSE IndexValue(LayoutNow, v, [j \in DOMAIN part.index |-> ValueNow(part.index[j])]) :
           v \in SubVariable(LayoutNow, path, part.name)}

Denotation(ref) ==
    LET denoted[n \in 0 .. Len(ref)] ==
            IF n = 0 THEN {<<>>} ELSE UNION {Selected(path, ref[n]) : path \in denoted[n - 1]}
    IN  denoted

Denoted(ref) == Denotation(ref)[Len(ref)]

\* At most one index of a list is a sum and none is a member.
OneSumEach(ref) ==
    \A p \in DOMAIN ref : \A i, k \in DOMAIN ref[p].index :
        HasStep(ref[p].index[i]) /\ HasStep(ref[p].index[k]) => i = k /\ ref[p].index[i].kind = "sum"

IndexedBy(ref, x) ==
    \E p \in DOMAIN ref : \E j \in DOMAIN ref[p].index : ref[p].index[j].name = x

\* The statements whose meaning the code keeps: none of the two cases above,
\* no call that writes a variable the left-hand side is indexed by, and not
\* the first statement of the program, which is not reset between cycles.
Ordinary(s) ==
    /\ OneSumEach(s.left) /\ OneSumEach(s.right.ref)
    /\ s.right.kind = "call" => ~IndexedBy(s.left, s.right.name)

RightDenotes ==
    CASE Now.right.kind = "identifier" -> {mem[p] : p \in {q \in {<<Now.right.name>>} : IsInteger(q)}}
      [] Now.right.kind = "element"    -> {mem[p] : p \in {q \in Denoted(Now.right.ref) : IsInteger(q)}}
      [] OTHER                         -> {Now.right.value}

Legal ==
    \E path \in Denoted(Now.left), v \in RightDenotes : CanHold(Types(path), v)

\* An assignment stores the value its right-hand side has at one element,
\* the one its left-hand side names: the temporaries of the index sums and
\* the variables resolved on the way are those of this execution, whatever
\* an earlier one or a query left (qualified_identifier_step and _reset).
AssignsWhatItNames ==
    [][status = "running" /\ stage = "assign" /\ status' # "failed"
       /\ current > 1 /\ Ordinary(Now)
       => \E path \in Denoted(Now.left), v \in RightDenotes : mem' = [mem EXCEPT ![path] = v]]_vars

\* A cycle is ended by an error only in a statement that has no meaning: an
\* index outside its range, too many or too few of them, or a value the
\* element cannot hold (array_value_index, assignment_statement_qualified_step).
OnlyBadStatementsFail ==
    [][status' = "failed" /\ status = "running" /\ current > 1 /\ Ordinary(Now) => ~Legal]_vars

Indices(t) ==
    {f \in [DOMAIN t.ranges -> UNION {r.min .. r.max : r \in Range(t.ranges)}] :
        \A d \in DOMAIN f : InRange(t.ranges[d], f[d])}

\* The item of the initialiser that stands at an index, level by level.
ItemAt(t, index) ==
    FoldLeft(LAMBDA item, d : item.items[index[d] - t.ranges[d].min + 1],
             List(t.initializer), [d \in DOMAIN index |-> d])

\* Every list of the initialiser has as many items as its range has entries.
WellShaped(t) ==
    LET level[d \in 0 .. Len(t.ranges)] ==
            IF d = 0 THEN {List(t.initializer)}
            ELSE UNION {Range(l.items) : l \in level[d - 1]}
    IN  \A d \in DOMAIN t.ranges : \A l \in level[d - 1] : Len(l.items) = Entries(t.ranges[d])

\* A start that succeeds leaves every element of an array at the item of its
\* initialiser that stands at the element's index, though the items are only
\* counted off in a row, and every other integer at the default of its type
\* (assign_array_initializer against array_value_index).
InitialisedAsDeclared ==
    [][Start /\ answer' = "ok" =>
       \A v \in Range(Declared) :
          IF HasInitializer(v.type)
          THEN WellShaped(v.type) =>
               \A f \in Indices(v.type) :
                  \A path \in IndexValue(LayoutNow, <<v.name>>, f) : mem'[path] = ItemAt(v.type, f).value
          ELSE \A c \in CellsBelow(<<v.name>>) : mem'[c] = Types(c).default]_vars

\* The memory after the first k queries of a list, each one carried out.
AfterOne(m, q) ==
    IF q.assigned = <<>> \/ Denoted(q.ref) = {} THEN m
    ELSE [m EXCEPT ![Only(Denoted(q.ref))] =
            IF q.assigned[1].kind = "literal" THEN q.assigned[1].value
            ELSE m[<<q.assigned[1].name>>]]

After(list, k) ==
    LET after[n \in 0 .. Len(list)] == IF n = 0 THEN mem ELSE AfterOne(after[n - 1], list[n])
    IN  after[k]

\* The characters of a whole answer: the values with a semicolon between.
AnswerLength(list, memory) ==
    LET length[n \in 0 .. Len(list)] ==
            IF n = 0 THEN 0
            ELSE length[n - 1] + (IF n = 1 THEN 0 ELSE 1)
                    + DisplayLength(Only(Denoted(list[n].ref)), memory)
    IN  length[Len(list)]

\* A query list that is answered has made all of its assignments and its
\* whole answer, with the closing zero, is inside the output; one that is
\* not has made those before the first that failed, in order, and no other
\* (queries_evaluate and queries_display; nothing is taken back).
QueriesAreOrderly ==
    [][\A list \in QueryLists, size \in BufferSizes :
         Query(list, size) =>
            IF answer' = "ok"
            THEN mem' = After(list, Len(list)) /\ AnswerLength(list, mem') + 1 <= size
            ELSE \E k \in 0 .. Len(list) : mem' = After(list, k)]_vars
=============================================================================
