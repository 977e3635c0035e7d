# A verification of the esstee interpreter

esstee is an interpreter for IEC 61131-3 Structured Text, written in C. It is single threaded; what makes it hard is
that it never recurses on the program it runs. Statements and expressions are small state machines (`invoke_state`, a
`switch` whose cases fall through), and a *cursor* moves among them: it suspends a node on a call stack, steps another,
and comes back to the first in whatever state it was left. EXIT and RETURN are jumps over two more stacks, which loops
and calls have to keep in order by hand. The same nodes run again in the next cycle, so what one cycle leaves behind is
what the next one starts from. These modules describe that machinery, check it on small programs, and prove what holds
for every program.

Paths below are relative to the repository; the library's code is in `src/`.

## The system

| component | state | operations | how it interacts |
|---|---|---|---|
| cursor (`src/rt/cursor.c`) | `current`, `call_stack`, `exit_context`, `return_context`, `cycle_start` | `step`, `switch_current`, push and pop of the contexts, `jump_exit`, `jump_return`, `reset`, `switch_cycle_start` (`step_in`, `step_out` unused) | calls `step` and `reset` of nodes; is called back by them |
| intrusive lists (`lib/utlist.h`) | link fields inside the elements | `DL_PREPEND2`, `DL_DELETE2`, ... | the cursor's three lists, every list of the parser |
| statements (`src/statements/`) | an `invoke_state` each | `step`, `reset`, `verify`, `allocate`, `clone` | switch the cursor to their parts; loops push exit contexts, calls return contexts |
| expressions (`src/expressions/`) | `invoke_state`, a temporary value; invocation terms also parameters | `step`, `reset`, `verify`, `return_value` | stepped by statements and by each other; invocations enter functions |
| functions, function blocks, builtins (`src/elements/user_functions.c`, `user_function_blocks.c`, `builtins.c`) | per callee (function) or per instance (function block): `invoke_state`, variables, statements, result | `step`, `reset`, header and statement finalisation, dependency check | called by invocations; switch the cursor to their statements |
| invoke parameters (`src/elements/invoke_parameters.c`) | a flag per parameter | `step`, `reset`, `verify`, `assign_from` | stepped by calls, read by callees |
| programs and API (`src/elements/user_programs.c`, `src/api/esstee.c`) | compilation units, errors, current program, cursor | `st_load_file`, `st_link`, `st_start`, `st_run_cycle`, `st_query`, `st_fetch_issue` | the embedding's entry points; the program tester loops over them |
| linker and reference pools (`src/linker/`, `src/util/named_ref_pool.c`) | symbol tables, pending references | link, resolve, trigger callbacks | run by `st_link` |
| issues (`src/util/issue_context.c`) | lists and groups of issues | new, open and close a group, merge, fetch, count | passed to everything |
| qualified identifiers, arrays (`src/elements/qualified_identifier.c`, `array.c`) | the part being stepped, computed offsets | `step`, `reset`, resolve the chain | operands of expressions and assignments |
| types, values, variables (`src/elements/`) | values | assign, arithmetic, compare, display | data |
| queries (`src/elements/queries.c`) | the results of a query line | evaluate, display into a buffer | `st_query` |
| parser (`src/parser/`) | the tree under construction | constructors | leaves the linked program |

What makes each of them correct:

* cursor: a suspended node is resumed only when the part it waits for is over; EXIT and RETURN find the innermost loop
  and call; a cycle leaves nothing behind; a cycle ends.
* lists: an element has one position; the sequence read off the links is the one the operations mean.
* calls: the callee's statements run once per call, parameters first; contexts are pushed and popped in pairs.
* programs and API: after an error, a restart, or simply the next cycle, execution starts from a defined place.
* dependency check: it finds exactly the circular function blocks, and ends.
* linking: linking twice is linking once; errors that are fixed go away; every callback fires once.
* issues: every issue is fetched exactly once, groups nest, the count by class is that of the issues.
* parameters: the variable checked for a parameter is the variable assigned from it.
* identifiers and arrays: each index of each part is stepped once, and the offset lies inside the array.
* arithmetic: no value outside of its type's range; loops over a range iterate as often as it says.
* typing: what the link accepts does not bring the interpreter down when it runs.
* direct memory: a variable and the bytes at its address say the same, and a write stays within its field.
* literals: what is stored is what was written.
* queries: the assignments of a query line are made in order, and none behind the one that fails.

The behaviours that are hard to test are the hazards of `PROJECT.json`, each with the line where it bites.

## The modules

Five groups, which share no variables. The first is the machine that runs a program, with the data left out; the second the
data, with the machine left out; the others are what surrounds them.

| module | what it is |
|---|---|
| *Control* | |
| `ContextList` | the cursor's lists as sequences: what `DL_PREPEND2` and `DL_DELETE2` do to them, also when the element is linked already; unwinding |
| `UtList`, `MCUtList` | the same two macros on the pointers they write, in lockstep with the sequences |
| `Program` | a linked program: nodes, what follows and contains what, callees, what a reset reaches; the assumptions on it |
| `Cursor` | `cursor.c`: suspending, finishing, failing, jumping, resetting |
| `Interpreter` | the step functions, one action per path through a function's `switch`, the run cycle, restarts; the properties |
| `StructuredControl` | the abstract specification: control as a path through the program, EXIT, RETURN and calls as the language means them |
| `Structured` | the discipline under which a program runs as `StructuredControl` says, and the exactness of the two context lists |
| `ProgramTree` | derives the pointers of `Program` from a program written as lists |
| `MCStructured` | a disciplined program with every construct |
| `MCTests` | programs outside the discipline: two of the repository's tests, one that nests a call, and one that ends its cycles in every way |
| *Values* | |
| `Values` | types and values: which function pointers a value of each constructor has, what `create_value_of`, `create_temp_from` and the literals leave in it |
| `TypeChecks` | `can_hold`, `assignable_from`, `comparable_to`, `operates_with`, the comparisons, arithmetic and assignment of `integers.c`, `bool`, `reals.c`, `strings.c`, `enums.c`, `subrange.c`, `derived.c` |
| `Expressions` | `binary_expressions.c`, `negative_prefix.c`, identifiers and inline values: allocate, verify, step |
| `InvokeParameters` | `invoke_parameters.c`: which variable a parameter is checked against, and which it is assigned to |
| `TypedStatements`, `MCTyping` | assignment, IF, CASE, FOR, WHILE, REPEAT and the call, from the link (allocate, verify) through the cycles that run them |
| `DateTime`, `Literals`, `MCLiterals` | `date_time.c` and its comparisons; the literal parser `pliterals.c` |
| `DirectMemory`, `MCDirectMemory` | addresses, variables at addresses, address terms, the sweep of a program start |
| `Arrays`, `Access`, `MCAccess` | array and struct types with initialisers; qualified references in statements and queries |
| *Linking* | |
| `Linking`, `MCLinking` | the instance: load, load again, link, start, query; tables, reference pools, type resolution |
| `FunctionBlocks`, `MCFunctionBlocks` | `st_link` over function blocks: global variables, dependency check, headers, programs; the creation of instances |
| *Issues* | |
| `IssueContext`, `MCIssueContext` | `issue_context.c` for a context and the parser's context that is merged into it: issues, fatal errors, groups, merging, fetching |
| *Proofs* | |
| `IssueContextProofs`, `FunctionBlocksProofs`, `DirectMemoryProofs`, `LiteralsProofs`, `AccessProofs`, `LinkingProofs`, `TypedStatementsProofs` | proofs about the module of the name |
| `StructuredProofs` | the lemmas on `ContextList`, the theorem on `UtList`, the types of `Interpreter`; then, for disciplined programs, the exactness of the context lists and what follows from it, the nesting of the call stack, and the refinement of `StructuredControl`, step by step |

### Control

**State.** `Cursor`'s `current`, `callStack`, `exitContext`, `returnContext` are the fields of `struct cursor_t`; a list is
the sequence of its elements, and `<<TANGLED>>` stands for one whose links form a ring. `state` holds the `invoke_state`
of every statement and expression, `calleeState` that of functions and function block instances, `argsDone` how many
parameters of a call have theirs set. `start` is the local variable of the `cursor_step` under way (it decides when
`run_cycle` looks whether the cycle is over). `outcome` is what the embedding knows.

**Steps.** One action of `Interpreter` is one call of a step function together with what `cursor_step` does with the
result: nothing (`StayAt`, `SwitchCurrent`), `set_current_to_next` (`FinishNode`), the return to the embedding
(`FailNode`, `AllFinished`). `SwitchCurrent` and `FinishNode` include the reset of the node the cursor moves to, with
all the resets that one calls (`ResetNode`): everything below the node returns to state 0 except invocations inside
expressions, whose reset function leaves `invoke_state` alone. A crash (null pointer) is an outcome from which nothing
happens; a ring freezes the model, and `NeverCrashes` excludes both.

**What is abstracted.** Values: a condition may go either way, a CASE may select any branch, a loop may go on or end, an
operation that can fail (`Faulty`) may fail or not, independently at each evaluation. Operands whose `step` pointer is
null are evaluated in place and appear as `NULL`. Assignments and the expression kinds differ only in their number of
operands; a node may stand for an operator or for an assignment through a qualified identifier without stepped indices.
Uninitialised memory: `Leftover` is the set of contents that a new program's `invoke_state` fields may have.

**The discipline** (`Structured!Disciplined`) collects what the step functions need from the program to work: a first
statement that is stateless, no function invocations inside expressions, calls that push their context more than once
only at the program's own level, no RETURN out of a loop, EXIT only in loops, no cycles after a failed one. None is
idle: the programs of `MCTests` break all but the rule on RETURN in a loop. Recursion is excluded by `Nesting`.

**Issues.** `IssueContext` has the two contexts that meet in the code: the one of an `st_t` and the parser's, which
`st_load_file` merges into the first. Lists are sequences of issues; the preallocated nodes of the memory and internal error
have their own names and `fatal` says whether they are spent. Nobody writes `new`, `has_sub_issues` or `sub_nodes` of these two, nor
`has_sub_issues` of other issues: `new` of the two may be anything, `HasSubIssues` may say anything of an issue without any, and
an embedding that fetches sub issues of a fatal error may be led `astray` along unwritten pointers, after which it is
not followed. `Begin`, `Open`, `CloseFailed` and `End` are the uses the callers make of a
context: checks raise issues inside groups, groups nest as calls do, and the tester fetches between them. The variables
`active`, `frames`, `failing`, `reading` are where those callers are; `scope` is history for a property.

**Function blocks.** `FunctionBlocks` is one `st_link`. `creating` is the C stack of `create_value_of` calls: `Enter` clones
the variables, binds the references of the type and goes into the variables that are function blocks themselves (`left` has
the types of those that are still to come), `Leave` clones the statements. `FollowDependency` is one call of `depends_on`, whose only recursion is its last action.
What a block's other variables are does not matter (`Plain`). VAR_EXTERNAL variables, arrays of blocks, functions with
block variables, and linking a second time are left out: the first count as dependencies in the code though they create
nothing, the second hide a dependency from the check.

### Values

**State.** A value is a record of what its C structure says of itself: the family of its constructor, its type, whether it has
a `type_of`, the flags of its class, its data. `Methods` is the set of its function pointers that are not NULL, which is what
decides between a check that says no and a crash. `TypedStatements` has the program with the temporaries of its expressions,
the variables, and what is left of the cycle (`todo`). An expression is the sequence of its nodes in the order they are
visited, each with the temporary the code gives it.

**Steps.** `AllocateProgram` and `VerifyProgram` are `user_program_finalize_statements`. Each further action is one visit of
the cursor to a statement, with the whole evaluation of its expressions: between two statements nobody else runs, and how the
cursor gets through an expression is checked in the first group. `StartCycle` gives a variable any value of its type, since
other programs, queries and direct memory write it. Programs are taken to begin with an empty statement, because the
statement that begins a program is not reset between cycles (finding 1). A call resets the variables of the function, assigns
its parameters and runs its statements; results of functions are not modelled.

`Literals` is one query that assigns a literal, read by `pliterals.c` part by part (`BeginDuration`, `DurationPart`, `EndDuration`): the
duration under construction is on the C stack, so its initial contents are `Memory`. `DirectMemory` has variables, their
values, the bytes, and `known`, what was last written to each variable. Values are created with the flags and the number that were
in the memory (`Garbage`), so an integer may take itself for a temporary and accept numbers nobody has checked; of one its
type cannot keep, `known` says nothing. Its start and its statements are those of a program
without control. `Access` resolves a reference as the code does: constant ones once, when verified; any other by each
execution after its indices are stepped, the temporaries of the sums included, with `garbage` for what nobody has stored
yet. Its query lists are evaluated between cycles; an answer is displayed only if everything was evaluated.

**What is abstracted.** Widths: a byte has `ByteBits` bits. Reals are integers, strings their lengths, enumerators names. In
`Arrays` an integer type is a range and a default. Casts, string and date arithmetic beyond comparison, `LEN` and the other
builtins are left out.

### Linking

`Linking` keeps what `st_t` keeps: units, tables, an error flag that is never cleared, `needs_linking`, and the pointers of
the type objects (`parent`, `ancestor`, the type a subrange is of). A file is what its parse leaves: type, variable,
function and program declarations in order. One action per stage of `st_link`, each with the sweep over all units; a stage
that meets an old error stops, as the code does. Loading a path again replaces its unit. Function blocks and the headers of
programs are in `FunctionBlocks`.

## The runs

Deadlock is checked except where the system may stop: `while_twice`, `typing`, `memory`, `linking` and `access`, in which the
process crashes or a program stops with an error, `blocks` (`st_link` returns), and `issues` (a call that fails needs an issue
to say so, and the issues are used up).

| run | what it shows | bounds |
|---|---|---|
| `utlist` | the sequence operators mean what the pointers do | 3 elements: head, last and one strictly inside; every garbage content of the link fields |
| `plant` | on a program with every construct the lists stay exact, nothing crashes, and the interpreter implements `StructuredControl` | 36 nodes: loops nested twice, calls three deep and from several places, EXIT at each level, RETURN from each callee, all operand kinds stepped; errors and restarts anywhere; zeroed or stale memory |
| `cycles` | cycles end, and end clean, and the stack nests, also when the program returns by itself, has invocations inside expressions whose state is uninitialised, and the embedding runs on after errors | 24 nodes: EXIT in a loop in a loop, calls from two places, a nested invocation with a computed parameter; errors at every depth |
| `issues` | no issue is lost, delivered under a foreign main issue, or skipped, whatever is raised, grouped, merged and fetched in whatever order | 3 issues of two classes, an error and a warning, and the memory error with unwritten nodes; groups nested twice; two filters, errors and everything. Three issues make a main issue with a sub-issue and another one beside it |
| `blocks` | instances own their variables, no false alarm, `st_link` ends where the blocks are not circular | every graph of 3 blocks with up to 2 variables: circles of one, two and three, entered from outside, behind a plain variable; 4 nested creations, one more than blocks that are not circular can need |
| `typing` | what is stored stays in its type, an accepted constant is never refused when the program runs, parameters reach their variables, a FOR counts up, and the interpreter comes down only in the listed ways | every program of one statement over 10 types of variable, one list of names beginning with another among them, and 8 kinds of literal, with expressions of up to three operands, and calls of two functions, one of them with enumerated and subrange variables, with up to four parameters; bytes of one bit, so INT is -1..1 and the word -128..127: overflow, out-of-range literals and a division of the smallest word by -1 are reached |
| `literals` | what is stored is what was written, comparisons are consistent as far as they go, a properly written duration is accepted | durations of up to two parts of two units, with fractions, a number no float holds (17, for floats have 4 bits here) and one that is out of a double's range; dates and times on both sides of each limit; integers at the limits of SINT and of the word |
| `memory` | a variable reaches only its own bytes and bits, and value, bytes and address terms agree | 3 bytes of 2 bits, 18 layouts, each with any class flags in each variable: bit in byte in word, overlapping, wider and narrower than the type, global and local, all forms of refusal |
| `linking` | after a successful link every name leads to the one definition of its unit; good files link; an error stays; the process crashes only on files out of order | directories of one file with three types in any relation (alias, subrange, circle, undefined), two files with types over each other, and three files with globals, functions and a program; loaded in any order and again, 3 loads |
| `access` | an assignment writes the element its left-hand side names now; only meaningless statements fail; initialisers land at their indices; query lists are done in order up to the first failure | 17 programs, each with one hazard: vectors and 2x3 grids, arrays of structs with arrays, index sums, calls that move an index, all shapes of initialisers; 10 query lists, one with a variable as an index, small and large buffers |
| `while_twice` | **violated**: the test `while.ST` crashes in its second cycle | as the test |
| `literals_unwritten` | **violated**: the parts of a duration that are not written are not zero | as `literals` |

The states are finite without further bounds: a program is a finite tree, its call stack no deeper than the tree, and
cycles repeat, so every run covers any number of cycles. `memory` and `typing` bound counting (`Highest`, `Depth`) and
`linking` the number of loads (`MaxLoads`). Programs are the bound elsewhere; they were chosen so that each path through each
function is taken.

**The properties.** `CallStackNests` relates every suspended node's `invoke_state` to the list that runs above it:
when `set_current_to_next` pops a node, it continues after the part that is over. `ExitContextMatches` and
`ReturnContextMatches` say the two context lists are exactly the loops and calls that control is inside of, innermost
first. `ReturnFindsItsCall` is the consequence for one jump. `NeverCrashes`: no jump unwinds past the end of the
stack. `CleanAtCycleEnd`: cycles do not leak into each other. `CycleCompletes`: every cycle ends.
`ImplementsStructuredControl` is refinement: mapping `path` to the cursor and the call stack, every step of the
interpreter is a step of the language or changes nothing.

For issues, `FetchComplete` is about the iterator that survives between calls: when a fetch comes back empty-handed no
new issue that matches is left. `SubIssuesDelivered` is about issues that were raised: an embedding that believes an unwritten
`has_sub_issues` of one of them finds an empty list; one that asks a fatal error is led into memory nobody wrote. For function blocks, `OwnVariables` says that the references all instances of a type
share are bound to the right one at the moment they are copied. `NoFalseAlarm` and `AcceptedChains` compare the search
with containment, stated as `Holds`: to be in every set that is closed under the types of variables. `AcceptedChains` is what
the search does find: circles of blocks with one block variable each (`Chains`).

For values, `StoredInRange` and `CrashesExplained` belong together: the checks before a program runs are there so that
the second can be short. `CrashesExplained` lists what gets through: an operation the left value has no function for
(the check tests the address of a pointer, which is never NULL), a prefix before a variable, a division or remainder by zero and one of
the smallest word by -1, `>=` and `<=` between operands of different structure, a temporary without type, an enumerated
variable that is given or compared with one of a longer list, a real among the labels of a CASE, FOR over what cannot be counted, calls with
computed parameters, and operands of any kind in the ELSE of a CASE, which nobody looks at. `ParametersArrive` compares where parameters go with where they are meant to, counted in another way.
`AcceptedConstantsStored` is about both assignments and calls.

For literals, `ComparisonsConsistent` says as much of the order of dates and times as is true: equality is identity,
greater and lesser mirror each other, and the later value is always also greater. `ReadAsWritten` fails for an integer that
wraps around. `ProperAccepted` has one exception, `BeyondFloats`: the code looks for a fraction in a float, so whole numbers a float cannot hold
count as fractions. For memory, `KnownValuesKept` relates the last write to a variable to both copies of it, unless somebody wrote
a variable that overlaps, or the variable takes itself for a temporary and the number does not fit; `OtherBitsKept` is the step property that says what a write may touch.

For access, `Denoted` is the meaning of a reference in one line of set comprehension; `AssignsWhatItNames` and
`OnlyBadStatementsFail` compare the resolution with it, for all statements but those in which the code is known to do
something else (`Ordinary`). `QueriesAreOrderly` leaves open what happens after a crash: a display with a variable as an index
crashes when its turn comes, after the evaluation of the later queries. For linking, `Meaningful` says when a set of files means something, and `Ordered` what the code
asks beyond that.

**Where the properties stop.** Some hazards of this code are real defects, and a property that is true of the code has to leave
out the case that fails. Such properties say where the code works, and would notice if it stopped working there. What each leaves out is a
named definition of its module, and a finding below:

| property | leaves out | hazard |
|---|---|---|
| the discipline's properties of `Interpreter` | calls that push their context twice, invocation terms that are stepped, RETURN out of a loop | `invoke_statement.c:129`, `function_invocation.c:113`, `cursor.c:260` |
| `CountsUp`, `StoredInRange` | increments that are not positive; the range of variables of FOR | `loops.c:108` |
| `ParametersArrive` | computed parameters | `invoke_parameters.c:170` |
| `LinkEnds`, `AcceptedChains` | circular blocks; blocks with several block variables | `user_function_blocks.c:106`, `esstee.c:270` |
| `ProgramInstancesComplete` | instances that globals and earlier blocks create | `user_function_blocks.c:454` |
| `ComparisonsConsistent` | that a value is not both greater and lesser | `date_time.c:365` |
| `ProperAccepted` | whole numbers beyond floats | `pliterals.c:347` |
| `KnownValuesKept` | what is written into a variable whose memory somebody else wrote; unchecked numbers | `variable.c:420`, `integers.c:63` |
| `SubIssuesDelivered` | sub issues of fatal errors | `issue_context.c:653` |
| `CrashesExplained`, `GoodFilesLink` of `Linking` | files out of order, globals of other units | `derived.c:261`, `esstee.c:270` |
| `AssignsWhatItNames`, `OnlyBadStatementsFail` | second sums in one part, calls that move an index | `qualified_identifier.c:381`, `qualified_assignment.c:131` |
| `InitialisedAsDeclared` | initialisers that are too long or ragged | `array.c:692` |

**Fairness.** `st_link` is sequential, so `FunctionBlocks` assumes weak fairness of its next step. `run_cycle` is a loop, so `Step` is weakly fair: the interpreter never rests inside a cycle. Whether a loop of
the Structured Text program ends is the program's affair; `FairSpec` assumes strong fairness of each loop's last step,
that is, a loop that gets to its test again and again ends some day. Nothing is assumed of errors, restarts, or of the
embedding starting another cycle.

## Findings

The two that a run shows:

1. A cycle starts with the first statement in the state the last cycle left it (`cursor.c:52`). `while.ST` starts with a
   loop that contains an EXIT; run for two cycles it dereferences a null exit context (`while_twice`).
2. A duration literal leaves the parts it does not write as they were on the stack (`pliterals.c:443`);
   `literals.tests:13` expects zeros (`literals_unwritten`).

Those below were met while modelling. Where a definition states what is violated, it is in the module though in no
configuration, with how to see it: replace the program, or the property, in the configuration of the same module.

*Calls.* A call whose parameters contain something to step pushes its return context twice, and the second push of an element
into an intrusive list drops everything below it (`invoke_statement.c:129`): a RETURN in the caller then ends the cycle
(`ReturnFindsItsCall`, `ThisProgram <- Nested`). The `invoke_state` of an invocation term is never reset
(`function_invocation.c:113`): from the second evaluation on the function is not run (`ImplementsStructuredControl`,
`ThisProgram <- FuncParams`). After a parameter whose expression is verified by itself, the next position is checked against
the same variable again (`invoke_parameters.c:170`), the parameter itself against none; a surplus one is dropped, and the one
after that is assigned to the first input. All invocations of a function share one result variable
(`user_functions.c:267`).

*Function blocks.* The dependency check follows only the first function block variable of each block
(`user_function_blocks.c:122`): circular blocks are accepted, and creating one exhausts the stack (`AcceptedAcyclic`). It does
not end when it enters a circle it did not start in (`:106`, `CheckEnds`). An instance created before its own block's
`finalize_header` has one variable (`:454`, `HeaderInstancesComplete`). Global variables of circular blocks are created before
the check (`esstee.c:270`).

*Linking.* The loops that create and reset global variables stop at the end of the list of the first unit
(`esstee.c:268`, "Create values of global variables"); the others have no value (`GlobalsCreated`). Linking again enters
every definition a second time, for `reset_linking` is empty, and fails. An error stays in the instance: nothing that needs
linking succeeds after it. A name for a subrange of a type with a name is read as a derived type (a misread structure or
an initial value for an ancestor); a circle through a subrange recurses for ever. `needs_linking` is not initialised.

*Values.* `binary_expressions.c:219` tests the address of a pointer, so an unsupported operation is accepted. The ELSE of a
CASE is never verified (`case.c:148`). `>=` and `<=` read the right operand with the left one's `return_value`
(`binary_expressions.c:1186`). Class flags of integer, BOOL and real values are uninitialised (`integers.c:652`). A subrange
accepts any temporary (`subrange.c:100`). The increment of FOR checks no range, and a negative one never iterates
(`loops.c:108`). A remainder by zero traps. Casts to bit strings mask the old value, that to ULINT cuts to 32 bits
(`integers.c:715`).

Whether two enumerations are the same is asked name by name as far as the other
list goes (`enums.c:382`): one that begins with all names of this list and has more runs past its end. A real literal among the labels of a CASE is asked for a type it does not have. The smallest word divided by -1 traps.

*Literals and dates.* `fractions > defined` is rarely true (`pliterals.c:524`). Whether a number has a fraction is asked of a float
(`pliterals.c:347`): whole numbers above 2^24 that a float does not hold count as fractions, and `T#16777217s16777217ms` is refused. MS in capitals is refused though the scanner
ignores case. Comparisons look at each part on its own (`date_time.c:365`): 2021-01-31 and 2020-12-01 are each greater than
the other. The largest LWORD is -1; the smallest word cannot be written.

*Direct memory.* `AT ... := v` loses the initial value. Addresses in lower case become `%M` and bit 0. A FOR adds to a stale
value (`variable.c:420`). A term larger than a byte is its first byte. A reset does not write the memory. An integer whose uninitialised flags
say that it is a temporary takes numbers its address cannot keep (`integers.c:63`). The checks of the
addresses of global variables are lost when pools are merged.

*References and queries.* A variable index on the right of a simple assignment, or a member alone as an index, is never
resolved and crashes (`qualified_identifier.c:347`). Of two sums in one part the second is never evaluated (`:381`). A call on
the right that changes an index variable moves the last index, but not the sums. `array.c:618` compares the result of
`can_hold` with the wrong constant, so only the first literal is checked; `array.c:481` reads `3(5)` as 3. The test of
`constant_reference` in `queries.c` compares a function pointer; a query with a variable index crashes, an assignment when it is evaluated, a display when its
turn comes. The displays of
arrays and structs miscount the room that is left. A query line that fails keeps the assignments before the failure.

*Issues.* The two preallocated nodes of an issue context have the classes of each other (`issue_context.c:653`), and a `new`
flag nobody initialises, so whether an internal or memory error can be fetched is left to what was in the memory. Nor does anybody
initialise their `has_sub_issues` and `sub_nodes`: an embedding that fetches the sub issues of a fatal error, as `print_all_errors` does when
told that there are some, walks along whatever is there (`issue_context.c:448`). `has_sub_issues` of issues without sub issues is not written either; there the list is
empty.

## Proofs

TLC checks a handful of programs, blocks, layouts and texts; the theorems are about all of them.

| theorem | statement | argument |
|---|---|---|
| `StructuredProofs!PointersRepresentSequences` | `ListSpec => [](Represents /\ NoDuplicates)` for any set of elements and any garbage in the link fields | the invariant `ListTypeOK /\ Represents /\ NoDuplicates` is inductive; a prepend of a new element shifts every position by one, a prepend of the last element closes the ring, one of an inner element cuts the list off below it, a delete moves the tail pointer to the second element |
| `StructuredProofs!TypeCorrect` | `Spec => []TypeOK` for every program | `TypeOK` is inductive: a lemma for each movement of the cursor (reset, switch, finish, stay, fail, jump), then one for each step function, which is a composition of those |
| `StructuredProofs!ExitContextsExact` | `Spec => []ExitContextMatches` for every disciplined program | `IInv`, below |
| `StructuredProofs!ReturnContextsExact` | `Spec => []ReturnContextMatches`, likewise | `IInv` |
| `StructuredProofs!JumpsAreSafe` | `Spec => []NeverCrashes`, likewise | `IInv`: the head of an exact list is a node that control is inside of, so it is on the call stack and unwinding finds it |
| `StructuredProofs!CyclesEndClean` | `Spec => []CleanAtCycleEnd`, likewise | `IInv`: control at the end of the program's own list is inside of nothing |
| `StructuredProofs!PathsNest` | `Spec => []CallStackNests`, likewise | with `IInv`: whatever is suspended awaits the list that runs above it (`Chained`), down to the program's own list |
| `StructuredProofs!InterpreterRefinesControl` | `Spec => ImplementsStructuredControl`, likewise | each step of the cursor is classified by what it does to the control path (it enters a part, finishes a node, stays, jumps, ends the cycle), and each class is an action of `StructuredControl` or leaves the path alone |
| `IssueContextProofs!NothingSkipped` | `Spec => []FetchComplete` for any issues, classes and filters | `FetchInv`: lists hold only issues that were raised (`OnlyRaised`), and no new issue that matches the last filter is behind the iterator (`NothingBehind`). The latter is what makes it inductive: adding and merging append in front of the iterator, a new filter restarts it. It needs that only raised issues are in a list, or raising one could make something new behind it |
| `IssueContextProofs!IssuesAreKept` | `Spec => []NoIssueLost`, for calls nested to any depth | `PlaceInv`, below |
| `IssueContextProofs!GroupsDoNotMix` | `Spec => []SubIssuesMatchGroup` | `PlaceInv` |
| `IssueContextProofs!ListsAreApart` | `Spec => []NodesInOneList` | `PlaceInv` |
| `IssueContextProofs!SubIssuesComplete` | `Spec => SubIssuesDelivered` (an action property) | `FetchInv` and `Reading`: while the sub issues of an issue are fetched the iterator stays at it, so the search goes by that issue's class, and nobody has been led astray |
| `FunctionBlocksProofs!AlarmsAreTrue` | `Spec => []NoFalseAlarm` for any blocks in any order | `AlarmInv`: while the search is on, the block it looks at is inside of the block that is checked (`Inside`) |
| `FunctionBlocksProofs!InstancesAreApart` | `Spec => []OwnVariables` for any blocks, circular ones included | `OwnInv`: each creation on the C stack is of a type that those below it hold (`Nested`); a type whose binding was overwritten by a deeper instance holds itself (`BoundOrCircular`); and a creation that gets as far as its statements is of a type that does not, for each of its variables has come to an end (`Progress`) |
| `FunctionBlocksProofs!NoCircularChain` | `Spec => []AcceptedChains` for chains of any length | `ChainInv`: where blocks have one block variable at most, the walk from a block in a circle has yet to come by that block (`NotMissed`) |
| `FunctionBlocksProofs!ProgramsAreComplete` | `Spec => []ProgramInstancesComplete` | `TableInv`: every block has its table before the first program's header is finalized |
| `FunctionBlocksProofs!DefinedBeforeUse` | `Spec => []OrderedBlocksLink` | `OrderInv`: what is still to be created is of blocks finalized earlier |
| `DirectMemoryProofs!FieldsAreInside` | `Spec => []FieldsInside` for every memory, file and width of a byte | `AddressInv`: an address is inside of the memory once it is parsed; the type only narrows it (`NarrowedIsValid`), and no statement changes an address or the size |
| `DirectMemoryProofs!KnownValuesAreKept` | `Spec => []KnownValuesKept`, likewise, however the variables overlap and whatever flags they were created with | `DataInv` and `KnownInv`, below: what is written to a field is read from it, and a write outside of the field does not change what is read |
| `DirectMemoryProofs!TermsDoAgree` | `Spec => []TermsAgree`, likewise | `DataInv`: the address was checked against its type, so the first byte of the field is the lowest digit of the integer (`FirstByte`) |
| `DirectMemoryProofs!OtherBitsAreKept` | `Spec => OtherBitsKept` (an action property), likewise | `DataInv`: what is written is a number, and of a number the digits, or one bit, go to the memory (`BoolWritten`, `IntegerWritten`) |
| `LiteralsProofs!ComparisonsFitTogether` | `Spec => []ComparisonsConsistent` for all dates, times and durations | `HeldInv`: the variables have values of their type; then parts that are neither greater nor lesser are equal (`SameParts`) |
| `LiteralsProofs!LiteralsAreKept` | `Spec => ReadAsWritten` (an action property) for all texts | `ReadingInv`, the invariant of the loop over the parts: what was read is a prefix of the text, and the structure has the last number of each unit in it. For integers: a number below half a word does not wrap around, and an assignment that was checked stores it |
| `LiteralsProofs!ProperIsAccepted` | `Spec => ProperAccepted` (an action property) for all texts | `FlagsInv`: the flags are those of the parts read; fewer flags are a smaller number (`BitsOfSubset`), so only a duration with fractions in all parts but the last is taken for wrong, and a whole number that is taken for a fraction is one no float holds (`WholeFraction`) |
| `AccessProofs!ResolutionIsCurrent` | `Spec => []AccessInv` for every project: any types, statements and query lists of the shapes the parser gives | `AccessInv`, below, is inductive |
| `AccessProofs!AssignmentsAreExact` | `Spec => AssignsWhatItNames` (an action property), likewise | `AccessInv`: when the assignment comes, its target and temporaries are those of this execution, so what the steps have found is `Denoted` |
| `AccessProofs!GoodStatementsDoNotFail` | `Spec => OnlyBadStatementsFail` (an action property), likewise | `AccessInv`: a resolution that finds nothing has looked where the meaning looks |
| `AccessProofs!QueriesAreExact` | `Spec => QueriesAreOrderly` (an action property) for every list, memory and output size | by the number of queries evaluated: the memory is that after a prefix of the list; by the number displayed: what was written is the length of the answers and separators so far, of references that the evaluation has found |
| `LinkingProofs!LinksAreConsistent` | `Spec => []LinkedIsConsistent` for any directories, any files in them, loaded in any order and number | `LinkInv`, below |
| `LinkingProofs!CrashesAreExplained` | `Spec => []CrashesExplained`, likewise | `LinkInv`: in files that keep to the order, what a name leads to is resolved before anybody asks it anything, so no call recurses without end and no initial value is read for a type; and every variable of the table has a value |
| `LinkingProofs!GoodFilesDoLink` | `Spec => GoodFilesLink` (an action property), likewise | `LinkInv`, stage by stage: names that are unique do not clash with tables that had no definitions; the sweeps over the types end in "ok"; a name that some unit defines is in its table |
| `LinkingProofs!ErrorsAreFinal` | `Spec => OneErrorIsFinal` (an action property), likewise | `LinkInv`: a stage that is under way has met no error |
| `TypedStatementsProofs!StoredStaysInRange` | `Spec => []StoredInRange` for any types, initial values, programs and expressions, calls included | `ValuesInv`, below: numbers are looked at each time one is stored, names once, when the program is linked, by a check of the same variable that gets the name later |

**`IInv`** (`StructuredProofs`). That the lists are exact is not inductive: it says nothing of the order of the call stack or of
where control is in the tree. What makes it so is that all lists descend in `Level`, the depth of a node in the tree with
callees below their calls: the control path and both context lists. A list whose elements get shallower has no element twice,
so a prepend does not tangle it, and its head is the innermost. Further parts of `IInv`, all about the control path:

- `Nested`: `LoopOf` and `CalleeOf` of a statement on the path name the innermost loop and call around it that are on the path
  too, which is what a jump finds at the head of a list; inside an expression there are only expressions.
- `StartsAtBottom`: `start` is the outermost node of the path and in the program's own list, so `cursor_step` notices when it
  is through.
- `Waiting`: a suspended loop has left state 0; a suspended call either steps a parameter and its callee is idle
  (`AtParameter`), or has entered its callee (`AtCallee`). `CallAtWork` says the same of a call that is the current node. It is
  what decides whether a call has pushed itself on the return context.
- Between cycles control is at the first statement with nothing on the call stack.

The path and the exactness of the lists are claimed while no operation has failed (`Sound`); that no list is tangled and nothing
crashed, in every state.

**Refinement.** The theorem is about `Control`, the instance of `StructuredControl` that `Interpreter` declares: its path is
the current node on the call stack, its phase the outcome. The proof maps `Init` to `Init` and goes through the step functions
once: a lemma per step function says which movement it is, and one lemma per movement that it is a step of the abstract
specification. Where the abstract one asks that the callee was entered before a call is over, `IInv`'s part on calls gives it.

**`PlaceInv`** (`IssueContextProofs`). A group is not a list of its own in the code: nested calls share `group->nodes`. What
keeps groups apart is an order of events: a call that has raised an issue opens no further group, so that whatever waits in
the list was raised by the innermost open call (`GroupWaits`). With it each raised issue is in a list or under a main issue
(`AllHeld`), only raised ones are (`OnlyTaken`, `Parents`), and no position is taken twice (`NodesInOneList`).

**`AccessInv`** (`AccessProofs`). `AssignsWhatItNames` compares a target that was found some steps ago, and temporaries
computed one after the other, with the memory of now. Between them a function may have been called, and before them another
execution of the same statement has left its own. The invariant says where each of these is from:

- `LinkKept`: a constant reference is resolved at the link to what it names, and no step, start or query touches it again.
- `Running`: of the statement that runs, while its indices are stepped (`InProgress`) the sums before the one to be stepped
  have their values of now, and those behind it are still to come; after that (`Resolved`) the owner and the target are what
  the reference selects in the memory of now. That a call does not spoil it is where `Ordinary` is needed. It is not claimed
  of the first statement, which is not reset between cycles.
- `Shape`: each use has one temporary for each index of the reference it belongs to.

Resolution, evaluation, display and `Denoted` are recursive functions over a list. That such a function is the one its
equations describe is not in the prover's library in a form it can use, so each has a lemma `...Unfolds`: one for a list
of length n extends by a value to length n + 1, and a least length without one would contradict that.

**`LinkInv`** (`LinkingProofs`). `LinkedIsConsistent` speaks of the end of a link that took five stages, after any number of
loads and failed links. The invariant says what each stage has done and what the others left alone:

- `FilesInv`: each content that was ever loaded is still that of a unit, and no two units are of one path. Objects of a unit
  that was replaced stay in the tables and in `created`; this is why they do no harm where a link succeeds.
- `StagesInv`: a stage under way has met no error, and the last answer was not "ok".
- `TablesInv`, `EnteredInv`: a name in a table is of some loaded file; and from the second stage on, or after a link, every name
  is defined once and the tables have exactly what the units define (`NamesEntered`).
- `GlobalsInv`: a variable of the file of the first variable is of its unit too (`GlobalsKept`), so those that the loops over
  the first unit do not reach are of another file.
- `AliasesInv`: the references whose stage is over have the object of their name.
- `TypesInv`: without an error, type objects are as the parser left them (`Unresolved`) until the types are resolved, and
  afterwards as the names say (`TypesLinked`).

The step from the one to the other is the first half of the module. `TriggeredTo` is the invariant of the loop over the units:
for the units done, the names of parents and of subranged types are known (`KnownUpTo`); a result "ok" means that ancestors and
ranges are those the names stand for (`Settled`); a crash means that the files are out of order; and in files that are in
order and whose types mean something the result is "ok". A walk over the pointers of such files is a walk over names: each object
on it is of a name in `Chain`, and the number of steps, one more than there are objects, is enough to get to the end of a chain
or around a circle. That a chain has nothing but these names, and a circle no elementary type, follows from `Closed` alone.

**`DataInv`, `KnownInv`** (`DirectMemoryProofs`). `DataInv` says that the bytes are bytes, that each variable has a value of its
type, whatever its flags, with a number in it, and that an address that was checked has the bits of its type. `KnownInv` is `KnownValuesKept`; that
the steps preserve it is arithmetic, and the first half of the module is the arithmetic it takes:

- the powers of two: the recursive function `TwoTo` is the one its equations describe (`TwoToUnfolds`), by the same argument as
  the `...Unfolds` of `AccessProofs`, and a power of a sum is a product (`PowerOfSum`);
- bits: adding a power to a number without that bit, and taking it from one with it, changes this bit and no other
  (`SetBit`, `ClearBit`);
- bytes: n bytes are a number below the n-th weight, and the bytes a number is written to are that number again, up to a
  multiple of the weight (`NumberRange`, `NumberWritten`);
- types: a number in the range of a type is read as it was written, with the sign where the code keeps it (`RangeFits`). For
  ULINT this holds for the half that its range has, and for LWORD because its range is empty.

A FOR adds without a look at the bytes, and the sum may wrap around. What is known afterwards is what the bytes can hold
(`Keeps`); a number that can be read from a field is in the word (`ReadIsInWord`), so it did not.

**`ValuesInv`** (`TypedStatementsProofs`). What an assignment may store is decided at two places far apart. A number is compared
with the range of its variable when it is stored, unless the variable has the flag of a temporary, which nobody initialises. An
enumerated variable takes whatever name it is given; that the name is one of its own was asked when the statement was verified. So
the invariant is about stages:

- Until the program is linked nothing is written: variables have their first values, which are in range. Once it is allocated,
  every operator has a temporary that is an integer, a BOOL or a real (`AllocatedAll`): no temporary ever has a name.
- Once it is linked, every statement was verified with success (`VerifiedAll`), and what runs is one of its statements (`ToRun`).
- Numbers are in range but for the variables of FOR (`NumbersKept`, `Counters`), and names but for programs in which no one is
  asked about some (`NamesUnasked`).

For names, the verification has to be carried over to the execution. Every name comes from an identifier or from a name in the
text, and the check that accepted it, of another memory, says all there is to say about it: another variable with the same names,
or a name of the list (`Asked`, `AskedAfter`). In a call, the variable asked about a parameter is the one it is assigned to, if no
parameter is computed: the loops of verify and of assign come by the same places (`Places`, `ParametersAssigned`). Expressions,
parameters and the two loops are recursive functions; each has its trace (`Visits`, `VerifiesEach`, `AssignsEach`), for which the
induction is one on the length.

**Assumptions.** Every theorem is about the specification of the module it is named after, for all constants that meet the
named assumptions. `StructuredProofs`: `PointerAssumption` (the null pointer is not
an element) for lists; for the types of the interpreter `ProgramTypes`, `ProgramShape` and `RunAssumption`, but not the discipline: that theorem holds for the programs of
`MCTests` too; for the others in addition `OwnedIsTheSubtree`, `Nesting` and `Disciplined`, which are
assumptions on the program text alone, explained above. `IssueContextProofs`: `IssueAssumption`, `NodeAssumption` (the null
pointer is no issue and no context, fatal kinds are classes, the preallocated nodes are nodes of their own).
`FunctionBlocksProofs`: `BlockAssumption` (the order lists each block exactly once; variables are blocks or plain).
`DirectMemoryProofs`: `ByteBitsAssumption`, `SizeAssumption`, `LayoutsAssumption` (numbers in an address have no sign), `GarbageAssumption` (what is in the memory of an integer is a number), `LiteralsAssumption` (what an integer or a
BOOL can be assigned from, and what a FOR adds, is a number).
`LiteralsProofs`: `ByteBitsAssumption`, `FloatAssumption` (a float has bits), `TextsAssumption` (texts consist of numbers and the units there are, and a duration has a part). `AccessProofs`: `ProjectsAssumption` (references are parts with
index lists, as the parser builds them; variables that index a left-hand side are declared integers), `QueriesAssumption`. `LinkingProofs`: `DirectoriesAssumption` (a file knows
its path, its declarations are sequences of records). `TypedStatementsProofs`: `ByteBitsAssumption`, `TypesAssumption` (variables have the types that can be declared; a subrange narrows an integer type,
as `subrange.c` asks), `InputsAssumption` (what others write into a variable is of its type: the same checks stand before a query, another
program and the sweep of direct memory; and the value a declaration without initialiser gives is), `ProgramsAssumption` (what the parser builds: operands before their operators, variables that are
declared). TLC evaluates
each of them on the programs, blocks and texts of the runs.

`TypeCorrect` says more than that variables have types: `current' \in Nodes` is the absence of null pointer calls in
`cursor_step`, and the range of `state` is what the `switch` statements cover.

**Only model-checked.** `CycleCompletes` and `LinkEnds` need fairness and `ENABLED`. `InitialisedAsDeclared`
of `access` compares elements by their names, which are numbers written as text (`ToString`, of which the prover knows
nothing, not even that different numbers are written differently). Of `typing`, `CrashesExplained`, `AcceptedConstantsStored`,
`CountsUp` and `ParametersArrive` are left to TLC; what they would need is more of what `ValuesInv` began: that an integer that is
computed is in the word, that the places a parameter is meant for are those of `Places`, and, for the crashes, a table of every check
against every operation. TLC checks the invariants
that the proofs use too, on the programs, blocks and texts of the runs (for `LiteralsInv`, with a finite range for integers).

## Not modelled

* Results of functions, function block members and outputs, and the two together with values: the calls of `TypedStatements` are of
  functions with statements and without result, those of `Interpreter` have no values. Recursive functions: `Nesting` excludes
  them, for a second entry of a statement into the call stack tangles the list at once.
* Clones: copying the tree for each instance of a block is only modelled by what it binds (`FunctionBlocks`).
* Casts, the builtin functions, arithmetic on strings, dates and times (the code has none but comparison), formatting of values
  except for the length of an answer.
* `step_in`, `step_out` and the API functions over them (stubs without callers), `api/elements.c`, the program-prefixed
  queries, `st_set_config_option` and system time: state that nothing depends on, or stubs.
* The scanner and grammar are generated by flex and bison; the constructors behind the grammar build lists. `uthash.h` is
  vendored and modelled as a table.

`PROJECT.json` says of each component what is left out.

## Plan

1. *Done:* lists, cursor, interpreter, abstract control, refinement by model checking; issues; function blocks in `st_link`; values,
   expressions, typed statements, calls; literals; direct memory; references, arrays and queries; loading and linking.
2. *Done:* proofs for every program of the discipline: the context lists, `NeverCrashes`, `CleanAtCycleEnd`, `CallStackNests`,
   and that the interpreter implements `StructuredControl`.
3. *Done:* all safety properties of issues, function blocks and linking proved, and those of direct memory, down to its bits; comparisons of
   dates and times, which literals are accepted and what they store; references, assignments and queries, except for what initialisers store.
4. *Done:* the range of what typed statements store, for every program and type.
5. *Open:* the other properties of typed statements for every program, beginning with `ParametersArrive`, whose invariant `Places` is half of.
