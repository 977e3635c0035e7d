------------------------------ MODULE Linking ------------------------------
(***************************************************************************)
(* An instance from its files to a running program (api/esstee.c,          *)
(* linker/linker.c, util/named_ref_pool.c, parser/ppous.c and the linker   *)
(* callbacks of elements/derived.c, subrange.c and variable.c).            *)
(*                                                                         *)
(* A file that parses becomes a unit: lists of types, global variables,    *)
(* functions and programs, and pools of the names it refers to.  st_link   *)
(* enters the definitions of all units in tables and resolves the pools,   *)
(* one after the other, one unit after the other, and gives up after any   *)
(* stage that finds an error in the instance.  The function blocks and the *)
(* headers of the programs are in FunctionBlocks.                          *)
(*                                                                         *)
(* Objects are C structures: [load, name, part], where load tells the      *)
(* units of a file that is loaded twice apart.  A named type is a derived  *)
(* object over the name of another, or over an inline subrange.            *)
(***************************************************************************)
EXTENDS Integers, Sequences, FiniteSets

LOCAL INSTANCE FiniteSetsExt

CONSTANTS
  \* The elementary types: the set of numbers each can hold.
  Elementary,
  \* The directories to load from: functions from paths to contents.
  Directories,
  \* The names that programs and variables are asked for by.
  Names,
  \* Bound: the files loaded in one behaviour.
  MaxLoads

VARIABLES
  files,         \* the directory
  loads,         \* the contents loaded so far
  units,         \* the loads that are compilation units, in their order
  pointers,      \* what the type objects point to
  tables,        \* the tables of the instance: from names to objects
  globalsHead,   \* the first entry of the table of global variables
  created,       \* the global variables that have a value
  aliases,       \* what the references of programs are resolved to
  errors,        \* whether the instance has an error
  needsLinking,
  stage,         \* "idle", or where st_link is
  answer,        \* what the last st_link returned
  main,          \* the program that was started, if any
  crashed

vars == <<files, loads, units, pointers, tables, globalsHead, created, aliases, errors,
          needsLinking, stage, answer, main, crashed>>

\* What a parse leaves of each declaration, and what is asked of the
\* directories: a file knows its path.
TypeDeclarations ==
  [name : STRING, k : {"derived", "subrange"}, of : STRING, range : SUBSET Int, initial : BOOLEAN]
GlobalDeclarations == [name : STRING, type : STRING]

ASSUME DirectoriesAssumption ==
  \A directory \in Directories : \A path \in DOMAIN directory :
    /\ directory[path].path = path
    /\ directory[path].types \in Seq(TypeDeclarations)
    /\ directory[path].globals \in Seq(GlobalDeclarations)

----------------------------------------------------------------------------
(* Objects *)

Object(load, name, part) == [load |-> load, name |-> name, part |-> part]
Null == Object(0, "", "null")
\* Where a walk ends that met a derived type without ancestor.
Open == Object(0, "", "open")
ElementaryTypes == [name \in DOMAIN Elementary |-> Object(0, name, "elementary")]

Declared(l) == {loads[l].types[i] : i \in DOMAIN loads[l].types}
ProgramsOf(l) == {loads[l].programs[i] : i \in DOMAIN loads[l].programs}
Declaration(o) == CHOOSE d \in Declared(o.load) : d.name = o.name

\* The objects of a unit as the parser leaves them.
Parsed(l, content) ==
  LET declared == {content.types[i] : i \in DOMAIN content.types}
      names == {Object(l, d.name, "derived") : d \in declared}
      inline == {Object(l, d.name, "inline") : d \in {x \in declared : x.k = "subrange"}}
      Inner(o) == IF Object(l, o.name, "inline") \in inline THEN Object(l, o.name, "inline") ELSE Null
  IN [parent |-> [o \in names |-> Inner(o)], ancestor |-> [o \in names |-> Inner(o)],
      ranged |-> [o \in inline |-> Null]]

Extended(f, g) == [o \in DOMAIN f \union DOMAIN g |-> IF o \in DOMAIN g THEN g[o] ELSE f[o]]

----------------------------------------------------------------------------
(* Questions to a type while the types are being resolved *)

Steps(p) == Cardinality(DOMAIN p.ancestor) + Cardinality(DOMAIN p.ranged) + 1

Onward(p, o) ==
  CASE o.part = "derived" -> IF p.ancestor[o] = Null THEN Open ELSE p.ancestor[o]
    [] o.part = "inline" -> p.ranged[o]
    [] OTHER -> o

\* The objects that a call on o is handed to, one after the other.
Walk(p, o) ==
  LET walk[i \in 0..Steps(p)] == IF i = 0 THEN o ELSE Onward(p, walk[i - 1])
  IN walk

\* A call never returns from a circle, nor from a subrange of nothing.
Returns(p, o) == Walk(p, o)[Steps(p)].part \in {"elementary", "open"}

\* class: DERIVED is set when a derived object is on the way.
IsDerived(p, o) == \E i \in 0..Steps(p) : Walk(p, o)[i].part = "derived"

\* can_hold
Holds(p, o, v) ==
  /\ Walk(p, o)[Steps(p)].part = "elementary"
  /\ v \in Elementary[Walk(p, o)[Steps(p)].name]
  /\ \A i \in 0..Steps(p) :
       Walk(p, o)[i].part = "inline" => v \in Declaration(Walk(p, o)[i]).range

----------------------------------------------------------------------------
(* The callbacks of the pools of types.  A result is "ok", "error" or       *)
(* "crash", with the pointers.                                              *)

Result(r, p) == [r |-> r, p |-> p]

\* Mutant: the parent of a derived type stays unknown until its ancestor is.
NameForgotten(p, o, target) ==
  IF o.part = "derived" THEN Result("ok", p)
  ELSE Result("ok", [p EXCEPT !.ranged = Extended(p.ranged, [x \in {o} |-> target])])
\* First sweep: the name of the parent, or of the subranged type, resolved.
NameResolved(p, o, target) ==
  IF o.part = "derived"
    THEN Result("ok", [p EXCEPT !.parent = Extended(p.parent, [x \in {o} |-> target]),
                                !.ancestor = Extended(p.ancestor, [x \in {o} |-> Null])])
  ELSE Result("ok", [p EXCEPT !.ranged = Extended(p.ranged, [x \in {o} |-> target])])

\* One call of resolve_ancestor: at the parent, under the children seen.  A
\* subrange of a derived type says it is derived, and is read as one: the
\* ancestor is then the initial value, or else nothing.
Climb(p, c) ==
  IF c.r # "climbing" THEN c
  ELSE IF c.at = Null \/ c.at \in c.seen THEN [c EXCEPT !.r = "error"]
  ELSE IF ~Returns(p, c.at) THEN [c EXCEPT !.r = "crash"]
  ELSE IF ~IsDerived(p, c.at) THEN [c EXCEPT !.r = "ok"]
  ELSE IF c.at.part = "inline"
    THEN IF Declaration(c.at).initial THEN [c EXCEPT !.r = "crash"] ELSE [c EXCEPT !.r = "error"]
  ELSE [c EXCEPT !.seen = @ \union {c.at},
                 !.at = IF p.ancestor[c.at] # Null THEN p.ancestor[c.at] ELSE p.parent[c.at]]

ResolveAncestor(p, o, target) ==
  LET climb[i \in 0..(Steps(p) + 1)] ==
        IF i = 0 THEN [at |-> target, seen |-> {o}, r |-> "climbing"] ELSE Climb(p, climb[i - 1])
  IN climb[Steps(p) + 1]

\* Mutant: the parent is taken for the ancestor.
ParentForAncestor(p, o, target) ==
  IF target = Null THEN Result("error", p)
  ELSE Result("ok", [p EXCEPT !.ancestor = Extended(p.ancestor, [x \in {o} |-> target])])
\* Second sweep: the ancestor of a derived type, the bounds of a subrange.
AncestorResolved(p, o, target) ==
  LET c == ResolveAncestor(p, o, target)
  IN IF c.r = "ok" THEN Result("ok", [p EXCEPT !.ancestor = Extended(p.ancestor, [x \in {o} |-> c.at])])
     ELSE Result(c.r, p)

RangeChecked(p, o) ==
  IF p.ranged[o] = Null THEN Result("error", p)
  ELSE IF ~Returns(p, p.ranged[o]) THEN Result("crash", p)
  ELSE IF \A v \in Declaration(o).range : Holds(p, p.ranged[o], v) THEN Result("ok", p)
  ELSE Result("error", p)

SecondSweep(p, o, target) ==
  CASE o.part = "derived" -> AncestorResolved(p, o, target)
    [] o.part = "inline" -> RangeChecked(p, o)
    [] OTHER -> Result("ok", p)
FirstSweep(p, o, target) ==
  IF o.part \in {"derived", "inline"} THEN NameResolved(p, o, target)
  ELSE Result(IF target = Null THEN "error" ELSE "ok", p)

----------------------------------------------------------------------------
(* The pools: the names a unit refers to in the order they appear, each     *)
(* with its referrers                                                       *)

TypeReferences(l) ==
  LET part(d) == IF d.k = "subrange" THEN "inline" ELSE "derived"
      types == [i \in DOMAIN loads[l].types |->
                  [id |-> loads[l].types[i].of,
                   o |-> Object(l, loads[l].types[i].name, part(loads[l].types[i]))]]
      globals == [i \in DOMAIN loads[l].globals |->
                  [id |-> loads[l].globals[i].type, o |-> Object(l, loads[l].globals[i].name, "global")]]
  IN types \o globals

\* The entry of the pool that a reference is in, and the referrer that comes
\* first of those that are left: the first in the first entry.
Entry(refs, k) == Min({j \in DOMAIN refs : refs[j].id = refs[k].id})
FirstOf(refs, left) ==
  LET entry == Min({Entry(refs, k) : k \in left})
  IN Min({k \in left : Entry(refs, k) = entry})

\* What the table has for a name; a target that is not found stays NULL.
Target(table, id) == IF id \in DOMAIN table THEN table[id] ELSE Null

\* One callback; an error does not stop the sweep.
CalledBack(done, sweep, ref) ==
  IF done.r = "crash" THEN done
  ELSE LET target == Target(tables.types, ref.id)
           after == IF sweep = 1 THEN FirstSweep(done.p, ref.o, target) ELSE SecondSweep(done.p, ref.o, target)
       IN IF after.r = "ok" THEN Result(done.r, after.p) ELSE after

\* One sweep: every referrer of every entry.
Visit(at, sweep, refs) ==
  LET k == FirstOf(refs, at.left)
  IN [left |-> at.left \ {k}, done |-> CalledBack(at.done, sweep, refs[k])]

Swept(done, sweep, refs) ==
  LET visit[n \in 0..Len(refs)] ==
        IF n = 0 THEN [left |-> DOMAIN refs, done |-> done] ELSE Visit(visit[n - 1], sweep, refs)
  IN visit[Len(refs)].done

TriggerTypes(done, l) == Swept(Swept(done, 1, TypeReferences(l)), 2, TypeReferences(l))

\* The pools of the units, one unit after the other.
TriggerUnit(done, l) == IF l \in units THEN TriggerTypes(done, l) ELSE done
Triggered ==
  LET done[l \in 0..Len(loads)] ==
        IF l = 0 THEN Result("ok", pointers) ELSE TriggerUnit(done[l - 1], l)
  IN done[Len(loads)]

\* The external variables of a program, and the functions it calls.
Externals(d) == d.writes \union d.reads
Calls(d) == d.calls

\* The names that the programs of all units use.
References(l, Uses(_), part) ==
  UNION {{[unit |-> l, program |-> d.name, name |-> n, part |-> part] : n \in Uses(d)} : d \in ProgramsOf(l)}
AllReferences(Uses(_), part) == UNION {References(l, Uses, part) : l \in units}

----------------------------------------------------------------------------
(* Loading *)

Idle == stage = "idle" /\ ~crashed
Room == Len(loads) < MaxLoads

LoadFails(path) ==
  /\ Idle /\ ~files[path].parses
  /\ errors' = TRUE
  /\ UNCHANGED <<files, loads, units, pointers, tables, globalsHead, created, aliases,
                 needsLinking, stage, answer, main, crashed>>

\* A unit of the same path is replaced; what the tables have of it stays.
Load(path) ==
  /\ Idle /\ Room /\ files[path].parses
  /\ LET l == Len(loads) + 1
         content == files[path]
         more == Parsed(l, content)
     IN /\ loads' = Append(loads, content)
        /\ units' = {u \in units : loads[u].path # path} \union {l}
        /\ pointers' = [parent |-> Extended(pointers.parent, more.parent),
                        ancestor |-> Extended(pointers.ancestor, more.ancestor),
                        ranged |-> Extended(pointers.ranged, more.ranged)]
  /\ needsLinking' = TRUE
  /\ UNCHANGED <<files, tables, globalsHead, created, aliases, errors, stage, answer, main, crashed>>

----------------------------------------------------------------------------
(* st_link *)

NamesOf(l, field) == {loads[l][field][i].name : i \in DOMAIN loads[l][field]}
Unique(field) ==
  \A l, m \in units : \A a \in DOMAIN loads[l][field], b \in DOMAIN loads[m][field] :
    loads[l][field][a].name = loads[m][field][b].name => l = m /\ a = b

\* A table after the definitions of all units are entered: a name that is
\* already there stays, and is an error.
FirstWith(n, field) == Min({l \in units : n \in NamesOf(l, field)})
Entered(table, field, part) ==
  [n \in DOMAIN table \union UNION {NamesOf(l, field) : l \in units} |->
     IF n \in DOMAIN table THEN table[n] ELSE Object(FirstWith(n, field), n, part)]
Clashes(table, field) == ~Unique(field) \/ \E l \in units : NamesOf(l, field) \intersect DOMAIN table # {}

WithGlobals == {l \in units : loads[l].globals # <<>>}
FirstGlobal == LET l == Min(WithGlobals) IN Object(l, loads[l].globals[1].name, "global")

\* Mutant: only the errors of this stage stop the link.
StopsOnNew(new) == new
\* A stage goes on when the instance has no error, old or new.
Stops(new) == errors \/ new

Reached(next, new) ==
  /\ errors' = (errors \/ new)
  /\ stage' = IF Stops(new) THEN "idle" ELSE next
  /\ answer' = IF Stops(new) THEN "error" ELSE IF next = "idle" THEN "ok" ELSE "none"

LinkNotNeeded ==
  /\ Idle /\ ~needsLinking /\ answer # "ok" /\ answer' = "ok"
  /\ UNCHANGED <<files, loads, units, pointers, tables, globalsHead, created, aliases, errors,
                 needsLinking, stage, main, crashed>>

\* reset_linking does nothing: what was entered before is in the way now.
LinkNames ==
  /\ Idle /\ needsLinking
  /\ tables' = [types |-> Entered(tables.types, "types", "derived"),
                globals |-> Entered(tables.globals, "globals", "global"),
                functions |-> Entered(tables.functions, "functions", "function"),
                programs |-> Entered(tables.programs, "programs", "program")]
  /\ globalsHead' = IF globalsHead = Null /\ WithGlobals # {} THEN FirstGlobal ELSE globalsHead
  /\ Reached("types", Clashes(tables.types, "types") \/ Clashes(tables.globals, "globals")
                      \/ Clashes(tables.functions, "functions") \/ Clashes(tables.programs, "programs"))
  /\ UNCHANGED <<files, loads, units, pointers, created, aliases, needsLinking, main, crashed>>

ResolveTypes ==
  /\ stage = "types" /\ ~crashed
  /\ \E done \in {Triggered} :
       /\ pointers' = done.p
       /\ crashed' = (done.r = "crash")
       /\ Reached("globals", done.r # "ok")
  /\ UNCHANGED <<files, loads, units, tables, globalsHead, created, aliases, needsLinking, main>>

\* The loops over the global variables start at the first entry of the table
\* and follow the list of its unit.
GlobalsOf(head) ==
  IF head = Null THEN {}
  ELSE {Object(head.load, loads[head.load].globals[i].name, "global") : i \in DOMAIN loads[head.load].globals}

\* Mutant: only the first one.
CreateFirst ==
  /\ stage = "globals" /\ created' = created \union ({globalsHead} \ {Null})
  /\ Reached("externals", FALSE)
  /\ UNCHANGED <<files, loads, units, pointers, tables, globalsHead, aliases, needsLinking, main, crashed>>
CreateGlobals ==
  /\ stage = "globals" /\ created' = created \union GlobalsOf(globalsHead)
  /\ Reached("externals", FALSE)
  /\ UNCHANGED <<files, loads, units, pointers, tables, globalsHead, aliases, needsLinking, main, crashed>>

\* The pools of global variables, and then those of functions.
Resolve(from, Uses(_), part, table, next) ==
  /\ stage = from
  /\ \E references \in {AllReferences(Uses, part)} :
       /\ aliases' = Extended(aliases, [r \in references |-> Target(table, r.name)])
       /\ Reached(next, \E r \in references : Target(table, r.name) = Null)
  /\ UNCHANGED <<files, loads, units, pointers, tables, globalsHead, created, needsLinking, main, crashed>>
ResolveExternals == Resolve("externals", Externals, "global", tables.globals, "functions")
ResolveFunctions == Resolve("functions", Calls, "function", tables.functions, "finalize")

\* A global variable of the table that has a value.
HasValue(name) == name \in DOMAIN tables.globals /\ tables.globals[name] \in created

\* The statements are verified, which takes the values of the variables they
\* use.  A program assigns to its "writes" and then reads its "reads"; all
\* else in it is taken to be in order.
Verified(d) ==
  IF \E n \in d.writes : ~HasValue(n) THEN "error"
  ELSE IF \E n \in d.reads : ~HasValue(n) THEN "crash" ELSE "ok"

Finalize ==
  /\ stage = "finalize"
  /\ \E results \in {{Verified(d) : d \in UNION {ProgramsOf(l) : l \in units}}} :
       /\ crashed' = ("crash" \in results)
       /\ Reached("idle", results \ {"ok"} # {})
       /\ needsLinking' = (results \ {"ok"} # {})
  /\ UNCHANGED <<files, loads, units, pointers, tables, globalsHead, created, aliases, main>>

----------------------------------------------------------------------------
(* st_start, st_run_cycle and st_query, which a caller uses once it has     *)
(* linked.  A failure is an error of the instance.                          *)

Answered(outcome) ==
  /\ Idle /\ answer = "ok"
  /\ errors' = (errors \/ outcome = "error")
  /\ crashed' = (outcome = "crash")
  /\ UNCHANGED <<files, loads, units, pointers, tables, globalsHead, created, aliases,
                 needsLinking, stage, answer>>

\* The global variables are reset as they were created.
Start(name) ==
  /\ Answered(IF name \notin DOMAIN tables.programs THEN "error"
              ELSE IF GlobalsOf(globalsHead) \subseteq created THEN "ok" ELSE "crash")
  /\ main' = IF name \in DOMAIN tables.programs THEN tables.programs[name] ELSE main

\* The cycles of a program that was started are those of Interpreter.
RunCycle == main = Null /\ Answered("error") /\ UNCHANGED main

Query(name) ==
  /\ Answered(IF name \notin DOMAIN tables.globals THEN "error" ELSE IF HasValue(name) THEN "ok" ELSE "crash")
  /\ UNCHANGED main

----------------------------------------------------------------------------

NoDefinitions == [types |-> ElementaryTypes, globals |-> <<>>, functions |-> <<>>, programs |-> <<>>]

\* needs_linking is not initialised by st_new_instance.
Init ==
  /\ files \in Directories
  /\ loads = <<>> /\ units = {}
  /\ pointers = [parent |-> <<>>, ancestor |-> <<>>, ranged |-> <<>>]
  /\ tables = NoDefinitions
  /\ globalsHead = Null /\ created = {} /\ aliases = <<>>
  /\ errors = FALSE /\ needsLinking \in BOOLEAN
  /\ stage = "idle" /\ answer = "none" /\ main = Null /\ crashed = FALSE

Next ==
  \/ \E path \in DOMAIN files : LoadFails(path)
  \/ \E path \in DOMAIN files : Load(path)
  \/ LinkNotNeeded
  \/ LinkNames
  \/ ResolveTypes
  \/ CreateGlobals
  \/ ResolveExternals
  \/ ResolveFunctions
  \/ Finalize
  \/ \E name \in Names : Start(name)
  \/ RunCycle
  \/ \E name \in Names : Query(name)

Spec == Init /\ [][Next]_vars

----------------------------------------------------------------------------
(* What the files mean, from their names alone *)

AllTypes == UNION {Declared(l) : l \in units}
TypeNames == {d.name : d \in AllTypes}
TypeNamed(n) == CHOOSE d \in AllTypes : d.name = n
UnitOf(n, field) == CHOOSE l \in units : n \in NamesOf(l, field)

\* The names on the way from a name to an elementary type: those in every
\* set that has the name and what each name in it stands for.
Closed(S) == \A d \in AllTypes : d.name \in S => d.of \in S
Mentioned == TypeNames \union {d.of : d \in AllTypes}
Chain(n) ==
  {m \in Mentioned \union {n} : \A S \in SUBSET (Mentioned \union {n}) : n \in S /\ Closed(S) => m \in S}

Grounded(n) == Chain(n) \cap DOMAIN Elementary # {}
Numbers(n) ==
  {v \in Elementary[CHOOSE e \in Chain(n) : e \in DOMAIN Elementary] :
     \A m \in Chain(n) \cap TypeNames : TypeNamed(m).k = "subrange" => v \in TypeNamed(m).range}

\* The object behind the other names of a type.
Behind(n) ==
  IF n \in DOMAIN Elementary THEN ElementaryTypes[n]
  ELSE LET subranged == {m \in Chain(n) \cap TypeNames : TypeNamed(m).k = "subrange"}
           first == CHOOSE m \in subranged : subranged \subseteq Chain(m)
       IN IF subranged = {} THEN ElementaryTypes[CHOOSE e \in Chain(n) : e \in DOMAIN Elementary]
          ELSE Object(UnitOf(first, "types"), first, "inline")

\* Every name is defined once, and every type grounded and possible.
Meaningful ==
  /\ Unique("types") /\ Unique("globals") /\ Unique("functions") /\ Unique("programs")
  /\ TypeNames \cap DOMAIN Elementary = {}
  /\ \A d \in AllTypes : Grounded(d.name) /\ (d.k = "subrange" => d.range \subseteq Numbers(d.of))
  /\ \A l \in units : \A g \in DOMAIN loads[l].globals : Grounded(loads[l].globals[g].type)
  /\ \A r \in AllReferences(Externals, "global") : \E l \in units : r.name \in NamesOf(l, "globals")
  /\ \A r \in AllReferences(Calls, "function") : \E l \in units : r.name \in NamesOf(l, "functions")

\* What the order of the pools asks of files that mean something: a subrange
\* is of an elementary type, a type has a name of its own or an earlier unit,
\* and only one unit has global variables.
Ordered ==
  /\ \A l \in units : \A d \in Declared(l) :
       /\ d.k = "subrange" => d.of \in DOMAIN Elementary
       /\ d.of \in TypeNames => UnitOf(d.of, "types") <= l
  /\ \A l, m \in WithGlobals : l = m

----------------------------------------------------------------------------
(* Properties *)

\* When st_link has answered that all is well and nothing was loaded since,
\* the files mean something, each table leads to the objects of the units
\* there are now, each derived type has the type behind its names for
\* ancestor, each subrange the type it is of, and each reference of a program
\* the variable or function of its name.
LinkedIsConsistent ==
  answer = "ok" /\ ~needsLinking =>
    /\ Meaningful
    /\ \A l \in units : \A d \in Declared(l) :
         LET named == Object(l, d.name, "derived")
             inline == Object(l, d.name, "inline")
         IN /\ tables.types[d.name] = named
            /\ pointers.ancestor[named] = IF d.k = "subrange" THEN inline ELSE Behind(d.of)
            /\ d.k = "subrange" => pointers.ranged[inline] = tables.types[d.of]
    /\ \A r \in AllReferences(Externals, "global") :
         aliases[r] = Object(UnitOf(r.name, "globals"), r.name, "global")
    /\ \A r \in AllReferences(Calls, "function") :
         aliases[r] = Object(UnitOf(r.name, "functions"), r.name, "function")

\* No stage of a first link refuses files that mean something, if they keep
\* to the order of the pools.
FirstLink ==
  \/ LinkNames /\ tables = NoDefinitions
  \/ ResolveTypes \/ CreateGlobals \/ ResolveExternals \/ ResolveFunctions \/ Finalize
GoodFilesLink == [][FirstLink /\ ~errors /\ Meaningful /\ Ordered => ~errors' /\ ~crashed']_vars

\* An error of the instance stays, whatever it came from (a file that did not
\* parse, a program that was not there, a query): no link that is needed
\* succeeds after it.
OneErrorIsFinal == [][errors => errors' /\ (needsLinking /\ answer' = "ok" => answer = "ok")]_vars

\* The process only crashes on files that do not keep to the order of the
\* pools (a subrange of a type with a name, a name of a subrange of a later
\* unit) or that have global variables in more than one unit.
CrashesExplained == crashed => ~Ordered

\* After a link every global variable has a value, as the comments of st_link
\* ("Create values of global variables") and st_start say.  Violated: the
\* loops stop at the end of the list of the first unit.
GlobalsCreated ==
  answer = "ok" /\ ~needsLinking => \A n \in DOMAIN tables.globals : HasValue(n)
=============================================================================
