---------------------------- MODULE LinkingProofs ----------------------------
(***************************************************************************)
(* st_link for any files, loaded in any order and any number of times.     *)
(***************************************************************************)
EXTENDS Linking, FiniteSetTheorems, TLAPS

WF == INSTANCE WellFoundedInduction
LOCAL INSTANCE FiniteSetsExt

-----------------------------------------------------------------------------
(* Recursive functions on a range of numbers.  Each one is unfolded the     *)
(* same way: a function with the recursion's equations exists, since a      *)
(* least length without one would have one by the length before it.         *)

\* A set of numbers that has a member has a least one.
LEMMA LeastNumber ==
  ASSUME NEW T, T \subseteq Nat, T # {}
  PROVE  \E m \in T : \A k \in T : m <= k
<1> DEFINE R == {ss \in Nat \X Nat : ss[1] < ss[2]}
<1>1. WF!IsWellFoundedOn(R, Nat)
  BY WF!NatLessThanWellFounded DEF WF!OpToRel
<1>2. \E x \in T : \A y \in T : ~ (<<y, x>> \in R)
  BY <1>1, WF!WFMin
<1>3. \A x \in Nat, y \in Nat : ~ (<<y, x>> \in R) => x <= y
  OBVIOUS
<1> QED BY <1>2, <1>3

\* Its predecessor, if there is one, is outside the set.
LEMMA Least ==
  ASSUME NEW T, T \subseteq Nat, T # {}
  PROVE  \E m \in T : m \in Nat /\ (m # 0 => m - 1 \in Nat /\ m - 1 \notin T)
<1>1. PICK m \in T : \A k \in T : m <= k
  BY LeastNumber
<1>2. m \in Nat
  OBVIOUS
<1>3. m # 0 => m - 1 \in Nat /\ m - 1 \notin T
  BY <1>1, <1>2
<1> QED BY <1>2, <1>3

LEMMA MinIsLeast ==
  ASSUME NEW T, T \subseteq Nat, T # {}
  PROVE  Min(T) \in T /\ \A k \in T : Min(T) <= k
BY LeastNumber DEF Min

WalkTo(p, o, m, f) ==
    f = [n \in 0 .. m |-> IF n = 0 THEN o ELSE Onward(p, f[n - 1])]

LEMMA WalkExists ==
  ASSUME NEW p, NEW o, NEW N \in Nat
  PROVE  \E f : WalkTo(p, o, N, f)
<1> DEFINE Bad == {m \in Nat : ~ \E f : WalkTo(p, o, m, f)}
<1> SUFFICES ASSUME Bad # {} PROVE FALSE
  OBVIOUS
<1>1. PICK m \in Bad : m \in Nat /\ (m # 0 => m - 1 \in Nat /\ m - 1 \notin Bad)
  <2>1. Bad \subseteq Nat
    OBVIOUS
  <2> HIDE DEF Bad
  <2> QED BY <2>1, Least
<1>2. m # 0
  <2>1. WalkTo(p, o, 0, [n \in 0 .. 0 |-> o])
    BY DEF WalkTo
  <2> QED BY <2>1
<1>3. PICK f : WalkTo(p, o, m - 1, f)
  BY <1>1, <1>2
<1> DEFINE g == [n \in 0 .. m |-> IF n = m THEN Onward(p, f[m - 1]) ELSE f[n]]
<1>4. WalkTo(p, o, m, g)
  <2>1. ASSUME NEW n \in 0 .. m
        PROVE  g[n] = IF n = 0 THEN o ELSE Onward(p, g[n - 1])
    <3>1. CASE n = 0
      BY <1>1, <1>2, <1>3, <3>1 DEF WalkTo
    <3>2. CASE n = m
      <4>1. n - 1 \in 0 .. m /\ n - 1 # m
        BY <1>1, <1>2, <3>2
      <4>2. g[n - 1] = f[n - 1]
        BY <4>1
      <4> QED BY <1>2, <3>2, <4>2
    <3>3. CASE n # 0 /\ n # m
      <4>1. n - 1 \in 0 .. m /\ n - 1 # m /\ n \in 0 .. (m - 1) /\ n - 1 \in 0 .. (m - 1)
        BY <1>1, <3>3
      <4>2. g[n - 1] = f[n - 1]
        BY <4>1
      <4>3. g[n] = f[n]
        BY <3>3
      <4>4. f[n] = Onward(p, f[n - 1])
        BY <1>3, <4>1, <3>3 DEF WalkTo
      <4> QED BY <3>3, <4>2, <4>3, <4>4
    <3> QED BY <3>1, <3>2, <3>3
  <2> QED BY <2>1 DEF WalkTo
<1> QED BY <1>1, <1>4

\* The objects that a call is handed to (Walk).
WalkBy(p, o, f) ==
    /\ f[0] = o
    /\ \A n \in 1 .. Steps(p) : f[n] = Onward(p, f[n - 1])
    /\ Walk(p, o) = f

LEMMA WalkUnfolds ==
  ASSUME NEW p, NEW o, Steps(p) \in Nat
  PROVE  \E f : WalkBy(p, o, f)
<1> DEFINE f == CHOOSE h : WalkTo(p, o, Steps(p), h)
<1>1. \E h : WalkTo(p, o, Steps(p), h)
  BY WalkExists
<1>2. WalkTo(p, o, Steps(p), f)
  BY <1>1, Zenon
<1>3. Walk(p, o) = f
  BY DEF Walk, WalkTo
<1> HIDE DEF f
<1>4. f[0] = o
  BY <1>2 DEF WalkTo
<1>5. ASSUME NEW n \in 1 .. Steps(p)
      PROVE  f[n] = Onward(p, f[n - 1])
  <2>1. n \in 0 .. Steps(p) /\ n # 0
    OBVIOUS
  <2> QED BY <1>2, <2>1 DEF WalkTo
<1>6. WalkBy(p, o, f)
  BY <1>3, <1>4, <1>5 DEF WalkBy
<1> QED BY <1>6

ClimbTo(p, o, target, m, f) ==
    f = [n \in 0 .. m |-> IF n = 0 THEN [at |-> target, seen |-> {o}, r |-> "climbing"] ELSE Climb(p, f[n - 1])]

LEMMA ClimbExists ==
  ASSUME NEW p, NEW o, NEW target, NEW N \in Nat
  PROVE  \E f : ClimbTo(p, o, target, N, f)
<1> DEFINE Bad == {m \in Nat : ~ \E f : ClimbTo(p, o, target, m, f)}
<1> SUFFICES ASSUME Bad # {} PROVE FALSE
  OBVIOUS
<1>1. PICK m \in Bad : m \in Nat /\ (m # 0 => m - 1 \in Nat /\ m - 1 \notin Bad)
  <2>1. Bad \subseteq Nat
    OBVIOUS
  <2> HIDE DEF Bad
  <2> QED BY <2>1, Least
<1>2. m # 0
  <2>1. ClimbTo(p, o, target, 0, [n \in 0 .. 0 |-> [at |-> target, seen |-> {o}, r |-> "climbing"]])
    BY DEF ClimbTo
  <2> QED BY <2>1
<1>3. PICK f : ClimbTo(p, o, target, m - 1, f)
  BY <1>1, <1>2
<1> DEFINE g == [n \in 0 .. m |-> IF n = m THEN Climb(p, f[m - 1]) ELSE f[n]]
<1>4. ClimbTo(p, o, target, m, g)
  <2>1. ASSUME NEW n \in 0 .. m
        PROVE  g[n] = IF n = 0 THEN [at |-> target, seen |-> {o}, r |-> "climbing"] ELSE Climb(p, g[n - 1])
    <3>1. CASE n = 0
      BY <1>1, <1>2, <1>3, <3>1 DEF ClimbTo
    <3>2. CASE n = m
      <4>1. n - 1 \in 0 .. m /\ n - 1 # m
        BY <1>1, <1>2, <3>2
      <4>2. g[n - 1] = f[n - 1]
        BY <4>1
      <4> QED BY <1>2, <3>2, <4>2
    <3>3. CASE n # 0 /\ n # m
      <4>1. n - 1 \in 0 .. m /\ n - 1 # m /\ n \in 0 .. (m - 1) /\ n - 1 \in 0 .. (m - 1)
        BY <1>1, <3>3
      <4>2. g[n - 1] = f[n - 1]
        BY <4>1
      <4>3. g[n] = f[n]
        BY <3>3
      <4>4. f[n] = Climb(p, f[n - 1])
        BY <1>3, <4>1, <3>3 DEF ClimbTo
      <4> QED BY <3>3, <4>2, <4>3, <4>4
    <3> QED BY <3>1, <3>2, <3>3
  <2> QED BY <2>1 DEF ClimbTo
<1> QED BY <1>1, <1>4

\* The calls of resolve_ancestor (ResolveAncestor).
ClimbBy(p, o, target, f) ==
    /\ f[0] = [at |-> target, seen |-> {o}, r |-> "climbing"]
    /\ \A n \in 1 .. Steps(p) + 1 : f[n] = Climb(p, f[n - 1])
    /\ ResolveAncestor(p, o, target) = f[Steps(p) + 1]

LEMMA ClimbUnfolds ==
  ASSUME NEW p, NEW o, NEW target, Steps(p) + 1 \in Nat
  PROVE  \E f : ClimbBy(p, o, target, f)
<1> DEFINE f == CHOOSE h : ClimbTo(p, o, target, Steps(p) + 1, h)
<1>1. \E h : ClimbTo(p, o, target, Steps(p) + 1, h)
  BY ClimbExists
<1>2. ClimbTo(p, o, target, Steps(p) + 1, f)
  BY <1>1, Zenon
<1>3. ResolveAncestor(p, o, target) = f[Steps(p) + 1]
  BY DEF ResolveAncestor, ClimbTo
<1> HIDE DEF f
<1>4. f[0] = [at |-> target, seen |-> {o}, r |-> "climbing"]
  BY <1>2 DEF ClimbTo
<1>5. ASSUME NEW n \in 1 .. Steps(p) + 1
      PROVE  f[n] = Climb(p, f[n - 1])
  <2>1. n \in 0 .. Steps(p) + 1 /\ n # 0
    OBVIOUS
  <2> QED BY <1>2, <2>1 DEF ClimbTo
<1>6. ClimbBy(p, o, target, f)
  BY <1>3, <1>4, <1>5 DEF ClimbBy
<1> QED BY <1>6

VisitTo(from, sweep, refs, m, f) ==
    f = [n \in 0 .. m |-> IF n = 0 THEN [left |-> DOMAIN refs, done |-> from] ELSE Visit(f[n - 1], sweep, refs)]

LEMMA VisitExists ==
  ASSUME NEW from, NEW sweep, NEW refs, NEW N \in Nat
  PROVE  \E f : VisitTo(from, sweep, refs, N, f)
<1> DEFINE Bad == {m \in Nat : ~ \E f : VisitTo(from, sweep, refs, m, f)}
<1> SUFFICES ASSUME Bad # {} PROVE FALSE
  OBVIOUS
<1>1. PICK m \in Bad : m \in Nat /\ (m # 0 => m - 1 \in Nat /\ m - 1 \notin Bad)
  <2>1. Bad \subseteq Nat
    OBVIOUS
  <2> HIDE DEF Bad
  <2> QED BY <2>1, Least
<1>2. m # 0
  <2>1. VisitTo(from, sweep, refs, 0, [n \in 0 .. 0 |-> [left |-> DOMAIN refs, done |-> from]])
    BY DEF VisitTo
  <2> QED BY <2>1
<1>3. PICK f : VisitTo(from, sweep, refs, m - 1, f)
  BY <1>1, <1>2
<1> DEFINE g == [n \in 0 .. m |-> IF n = m THEN Visit(f[m - 1], sweep, refs) ELSE f[n]]
<1>4. VisitTo(from, sweep, refs, m, g)
  <2>1. ASSUME NEW n \in 0 .. m
        PROVE  g[n] = IF n = 0 THEN [left |-> DOMAIN refs, done |-> from] ELSE Visit(g[n - 1], sweep, refs)
    <3>1. CASE n = 0
      BY <1>1, <1>2, <1>3, <3>1 DEF VisitTo
    <3>2. CASE n = m
      <4>1. n - 1 \in 0 .. m /\ n - 1 # m
        BY <1>1, <1>2, <3>2
      <4>2. g[n - 1] = f[n - 1]
        BY <4>1
      <4> QED BY <1>2, <3>2, <4>2
    <3>3. CASE n # 0 /\ n # m
      <4>1. n - 1 \in 0 .. m /\ n - 1 # m /\ n \in 0 .. (m - 1) /\ n - 1 \in 0 .. (m - 1)
        BY <1>1, <3>3
      <4>2. g[n - 1] = f[n - 1]
        BY <4>1
      <4>3. g[n] = f[n]
        BY <3>3
      <4>4. f[n] = Visit(f[n - 1], sweep, refs)
        BY <1>3, <4>1, <3>3 DEF VisitTo
      <4> QED BY <3>3, <4>2, <4>3, <4>4
    <3> QED BY <3>1, <3>2, <3>3
  <2> QED BY <2>1 DEF VisitTo
<1> QED BY <1>1, <1>4

\* The callbacks of a sweep (Swept).
VisitBy(from, sweep, refs, f) ==
    /\ f[0] = [left |-> DOMAIN refs, done |-> from]
    /\ \A n \in 1 .. Len(refs) : f[n] = Visit(f[n - 1], sweep, refs)
    /\ Swept(from, sweep, refs) = f[Len(refs)].done

LEMMA VisitUnfolds ==
  ASSUME NEW from, NEW sweep, NEW refs, Len(refs) \in Nat
  PROVE  \E f : VisitBy(from, sweep, refs, f)
<1> DEFINE f == CHOOSE h : VisitTo(from, sweep, refs, Len(refs), h)
<1>1. \E h : VisitTo(from, sweep, refs, Len(refs), h)
  BY VisitExists
<1>2. VisitTo(from, sweep, refs, Len(refs), f)
  BY <1>1, Zenon
<1>3. Swept(from, sweep, refs) = f[Len(refs)].done
  BY DEF Swept, VisitTo
<1> HIDE DEF f
<1>4. f[0] = [left |-> DOMAIN refs, done |-> from]
  BY <1>2 DEF VisitTo
<1>5. ASSUME NEW n \in 1 .. Len(refs)
      PROVE  f[n] = Visit(f[n - 1], sweep, refs)
  <2>1. n \in 0 .. Len(refs) /\ n # 0
    OBVIOUS
  <2> QED BY <1>2, <2>1 DEF VisitTo
<1>6. VisitBy(from, sweep, refs, f)
  BY <1>3, <1>4, <1>5 DEF VisitBy
<1> QED BY <1>6

TriggerTo(m, f) ==
    f = [n \in 0 .. m |-> IF n = 0 THEN Result("ok", pointers) ELSE TriggerUnit(f[n - 1], n)]

LEMMA TriggerExists ==
  ASSUME NEW N \in Nat
  PROVE  \E f : TriggerTo(N, f)
<1> DEFINE Bad == {m \in Nat : ~ \E f : TriggerTo(m, f)}
<1> SUFFICES ASSUME Bad # {} PROVE FALSE
  OBVIOUS
<1>1. PICK m \in Bad : m \in Nat /\ (m # 0 => m - 1 \in Nat /\ m - 1 \notin Bad)
  <2>1. Bad \subseteq Nat
    OBVIOUS
  <2> HIDE DEF Bad
  <2> QED BY <2>1, Least
<1>2. m # 0
  <2>1. TriggerTo(0, [n \in 0 .. 0 |-> Result("ok", pointers)])
    BY DEF TriggerTo
  <2> QED BY <2>1
<1>3. PICK f : TriggerTo(m - 1, f)
  BY <1>1, <1>2
<1> DEFINE g == [n \in 0 .. m |-> IF n = m THEN TriggerUnit(f[m - 1], m) ELSE f[n]]
<1>4. TriggerTo(m, g)
  <2>1. ASSUME NEW n \in 0 .. m
        PROVE  g[n] = IF n = 0 THEN Result("ok", pointers) ELSE TriggerUnit(g[n - 1], n)
    <3>1. CASE n = 0
      BY <1>1, <1>2, <1>3, <3>1 DEF TriggerTo
    <3>2. CASE n = m
      <4>1. n - 1 \in 0 .. m /\ n - 1 # m
        BY <1>1, <1>2, <3>2
      <4>2. g[n - 1] = f[n - 1]
        BY <4>1
      <4> QED BY <1>2, <3>2, <4>2
    <3>3. CASE n # 0 /\ n # m
      <4>1. n - 1 \in 0 .. m /\ n - 1 # m /\ n \in 0 .. (m - 1) /\ n - 1 \in 0 .. (m - 1)
        BY <1>1, <3>3
      <4>2. g[n - 1] = f[n - 1]
        BY <4>1
      <4>3. g[n] = f[n]
        BY <3>3
      <4>4. f[n] = TriggerUnit(f[n - 1], n)
        BY <1>3, <4>1, <3>3 DEF TriggerTo
      <4> QED BY <3>3, <4>2, <4>3, <4>4
    <3> QED BY <3>1, <3>2, <3>3
  <2> QED BY <2>1 DEF TriggerTo
<1> QED BY <1>1, <1>4

\* The pools of the units (Triggered).
TriggerBy(f) ==
    /\ f[0] = Result("ok", pointers)
    /\ \A n \in 1 .. Len(loads) : f[n] = TriggerUnit(f[n - 1], n)
    /\ Triggered = f[Len(loads)]

LEMMA TriggerUnfolds ==
  ASSUME Len(loads) \in Nat
  PROVE  \E f : TriggerBy(f)
<1> DEFINE f == CHOOSE h : TriggerTo(Len(loads), h)
<1>1. \E h : TriggerTo(Len(loads), h)
  BY TriggerExists
<1>2. TriggerTo(Len(loads), f)
  BY <1>1, Zenon
<1>3. Triggered = f[Len(loads)]
  BY DEF Triggered, TriggerTo
<1> HIDE DEF f
<1>4. f[0] = Result("ok", pointers)
  BY <1>2 DEF TriggerTo
<1>5. ASSUME NEW n \in 1 .. Len(loads)
      PROVE  f[n] = TriggerUnit(f[n - 1], n)
  <2>1. n \in 0 .. Len(loads) /\ n # 0
    OBVIOUS
  <2> QED BY <1>2, <2>1 DEF TriggerTo
<1>6. TriggerBy(f)
  BY <1>3, <1>4, <1>5 DEF TriggerBy
<1> QED BY <1>6

-----------------------------------------------------------------------------
(* An error stays *)

\* What an error in the instance leaves of the stages and the answers.
LEMMA ErrorStays ==
  ASSUME [Next]_vars, errors
  PROVE  errors' /\ (needsLinking /\ answer' = "ok" => answer = "ok")
<1>1. ASSUME NEW next, NEW new, Reached(next, new)
      PROVE  errors' /\ answer' = "error"
  <2>1. Stops(new)
    BY Zenon DEF Stops
  <2> QED BY <1>1, <2>1, Zenon DEF Reached
<1>2. ASSUME NEW outcome, Answered(outcome)
      PROVE  errors' /\ answer' = answer
  BY <1>2, Zenon DEF Answered
<1>3. CASE UNCHANGED vars
  BY <1>3 DEF vars
<1>4. CASE \E path \in DOMAIN files : LoadFails(path) \/ Load(path)
  BY <1>4 DEF LoadFails, Load
<1>5. CASE LinkNotNeeded
  BY <1>5 DEF LinkNotNeeded
<1>6. CASE LinkNames \/ ResolveTypes \/ CreateGlobals
  BY <1>6, <1>1 DEF LinkNames, ResolveTypes, CreateGlobals
<1>7. CASE ResolveExternals \/ ResolveFunctions \/ Finalize
  BY <1>7, <1>1 DEF ResolveExternals, ResolveFunctions, Resolve, Finalize
<1>8. CASE RunCycle \/ \E name \in Names : Start(name) \/ Query(name)
  BY <1>8, <1>2 DEF Start, RunCycle, Query
<1> QED BY <1>3, <1>4, <1>5, <1>6, <1>7, <1>8 DEF Next

\* Once an instance has an error it keeps it, and no link that is needed
\* succeeds any more, whatever the files are.
THEOREM ErrorsAreFinal == Spec => OneErrorIsFinal
<1> DEFINE Final == errors => errors' /\ (needsLinking /\ answer' = "ok" => answer = "ok")
<1>1. [Next]_vars => [Final]_vars
  BY ErrorStays
<1> QED BY <1>1, PTL DEF Spec, OneErrorIsFinal

-----------------------------------------------------------------------------
(* The names on the way from a type to an elementary one *)

\* The declarations of the units, no two of the same name, and none of the
\* name of an elementary type.
NamesApart == Unique("types") /\ TypeNames \intersect DOMAIN Elementary = {}

LEMMA OneDeclaration ==
  ASSUME NamesApart, NEW l \in units, NEW m \in units, NEW d \in Declared(l), NEW e \in Declared(m),
         d.name = e.name
  PROVE  l = m /\ d = e
<1>1. PICK a \in DOMAIN loads[l].types : d = loads[l].types[a]
  BY DEF Declared
<1>2. PICK b \in DOMAIN loads[m].types : e = loads[m].types[b]
  BY DEF Declared
<1> QED BY <1>1, <1>2 DEF NamesApart, Unique

LEMMA DeclaredName ==
  ASSUME NamesApart, NEW d \in AllTypes
  PROVE  /\ d.name \in TypeNames /\ d.name \notin DOMAIN Elementary
         /\ TypeNamed(d.name) = d
         /\ \A e \in AllTypes : e.name = d.name => e = d
<1>1. d.name \in TypeNames /\ d.name \notin DOMAIN Elementary
  BY DEF TypeNames, NamesApart
<1>2. \A e \in AllTypes : e.name = d.name => e = d
  BY OneDeclaration DEF AllTypes
<1>3. TypeNamed(d.name) = d
  BY <1>2 DEF TypeNamed
<1> QED BY <1>1, <1>2, <1>3

LEMMA ChainBegins == ASSUME NEW n PROVE n \in Chain(n)
BY DEF Chain

\* A set that has the first name, and what follows each, has them all.
LEMMA ChainInduct ==
  ASSUME NEW n, NEW S, n \in S, Closed(S)
  PROVE  Chain(n) \subseteq S
<1> DEFINE R == S \intersect (Mentioned \union {n})
<1>1. Closed(R)
  BY DEF Closed, Mentioned
<1>2. R \in SUBSET (Mentioned \union {n}) /\ n \in R
  OBVIOUS
<1> HIDE DEF R
<1>3. Chain(n) \subseteq R
  BY <1>1, <1>2 DEF Chain
<1> QED BY <1>3 DEF R

LEMMA ChainIsClosed == ASSUME NEW n PROVE Closed(Chain(n))
<1> SUFFICES ASSUME NEW d \in AllTypes, d.name \in Chain(n)
             PROVE  d.of \in Chain(n)
  BY DEF Closed
<1>1. d.of \in Mentioned
  BY DEF Mentioned
<1>2. ASSUME NEW S \in SUBSET (Mentioned \union {n}), n \in S, Closed(S)
      PROVE  d.of \in S
  <2>1. d.name \in S
    BY <1>2 DEF Chain
  <2> QED BY <2>1, <1>2 DEF Closed
<1> QED BY <1>1, <1>2 DEF Chain

LEMMA ChainIncludes ==
  ASSUME NEW n, NEW m \in Chain(n)
  PROVE  Chain(m) \subseteq Chain(n)
BY ChainInduct, ChainIsClosed

\* The chain of a name is the name and the chain of what it stands for.
LEMMA ChainStep ==
  ASSUME NamesApart, NEW d \in AllTypes
  PROVE  Chain(d.name) = {d.name} \union Chain(d.of)
<1>1. Closed({d.name} \union Chain(d.of))
  <2> SUFFICES ASSUME NEW e \in AllTypes, e.name \in {d.name} \union Chain(d.of)
               PROVE  e.of \in {d.name} \union Chain(d.of)
    BY DEF Closed
  <2>1. CASE e.name = d.name
    BY <2>1, DeclaredName, ChainBegins
  <2>2. CASE e.name \in Chain(d.of)
    BY <2>2, ChainIsClosed DEF Closed
  <2> QED BY <2>1, <2>2
<1>2. Chain(d.name) \subseteq {d.name} \union Chain(d.of)
  BY <1>1, ChainInduct
<1>3. d.name \in Chain(d.name) /\ d.of \in Chain(d.name)
  BY ChainBegins, ChainIsClosed DEF Closed
<1> QED BY <1>2, <1>3, ChainIncludes

LEMMA ChainEnds ==
  ASSUME NEW n, n \notin TypeNames
  PROVE  Chain(n) = {n}
<1>1. Closed({n})
  BY DEF Closed, TypeNames
<1> QED BY <1>1, ChainInduct, ChainBegins

LEMMA ElementaryChain ==
  ASSUME NamesApart, NEW e \in DOMAIN Elementary
  PROVE  Chain(e) = {e} /\ e \notin TypeNames
BY ChainEnds DEF NamesApart

\* There is one elementary type on the way at most.
LEMMA OneElementary ==
  ASSUME NamesApart, NEW n, NEW e \in Chain(n) \intersect DOMAIN Elementary,
         NEW f \in Chain(n) \intersect DOMAIN Elementary
  PROVE  e = f
<1> DEFINE S == {x \in Chain(n) : e \in Chain(x) /\ f \in Chain(x)}
<1>1. Closed(S)
  <2> SUFFICES ASSUME NEW d \in AllTypes, d.name \in S
               PROVE  d.of \in S
    BY DEF Closed
  <2>1. d.name # e /\ d.name # f
    BY DeclaredName
  <2>2. e \in Chain(d.of) /\ f \in Chain(d.of)
    BY <2>1, ChainStep
  <2>3. d.of \in Chain(n)
    BY ChainIsClosed DEF Closed
  <2> QED BY <2>2, <2>3
<1>2. n \in S
  BY ChainBegins
<1>3. e \in S
  <2> HIDE DEF S
  <2> QED BY <1>1, <1>2, ChainInduct
<1> QED BY <1>3, ElementaryChain

\* A name that leads to an elementary type is not behind itself.
LEMMA GroundedIsAcyclic ==
  ASSUME NamesApart, NEW d \in AllTypes, Grounded(d.name)
  PROVE  d.name \notin Chain(d.of)
<1> SUFFICES ASSUME d.name \in Chain(d.of) PROVE FALSE
  OBVIOUS
<1> DEFINE S == {x \in Chain(d.name) : d.name \in Chain(x)}
<1>1. Closed(S)
  <2> SUFFICES ASSUME NEW e \in AllTypes, e.name \in S
               PROVE  e.of \in S
    BY DEF Closed
  <2>1. e.of \in Chain(d.name)
    BY ChainIsClosed DEF Closed
  <2>2. d.name \in Chain(e.of)
    <3>1. CASE e.name = d.name
      BY <3>1, DeclaredName
    <3>2. CASE e.name # d.name
      BY <3>2, ChainStep
    <3> QED BY <3>1, <3>2
  <2> QED BY <2>1, <2>2
<1>2. d.name \in S
  BY ChainBegins
<1>3. Chain(d.name) \subseteq S
  <2> HIDE DEF S
  <2> QED BY <1>1, <1>2, ChainInduct
<1>4. PICK e \in Chain(d.name) : e \in DOMAIN Elementary
  BY DEF Grounded
<1>5. d.name \in Chain(e)
  BY <1>3, <1>4
<1> QED BY <1>4, <1>5, ElementaryChain, DeclaredName

-----------------------------------------------------------------------------
(* What is behind a name *)

Named(l, d) == Object(l, d.name, "derived")
Inline(l, d) == Object(l, d.name, "inline")

\* The definition that the tables have of a name, once the units are entered.
TypeObject(n) ==
  IF n \in DOMAIN Elementary THEN ElementaryTypes[n]
  ELSE IF n \in TypeNames THEN Object(UnitOf(n, "types"), n, "derived") ELSE Null

SubrangesOf(n) == {m \in Chain(n) \intersect TypeNames : TypeNamed(m).k = "subrange"}

\* x is what the other names of n come to, and is known to be of numbers.
EndsAt(n, x) ==
  \/ /\ \E e \in Chain(n) \intersect DOMAIN Elementary : x = ElementaryTypes[e]
     /\ SubrangesOf(n) = {}
  \/ \E l \in units : \E s \in Declared(l) :
       /\ s.k = "subrange" /\ s.of \in DOMAIN Elementary
       /\ x = Inline(l, s) /\ SubrangesOf(n) = {s.name}

LEMMA Parts ==
  ASSUME NEW l, NEW n, NEW part
  PROVE  /\ Object(l, n, part).load = l /\ Object(l, n, part).name = n /\ Object(l, n, part).part = part
         /\ Null.part = "null" /\ Open.part = "open"
         /\ \A e \in DOMAIN Elementary : ElementaryTypes[e].part = "elementary" /\ ElementaryTypes[e].name = e
BY DEF Object, Null, Open, ElementaryTypes

LEMMA SubrangesStep ==
  ASSUME NamesApart, NEW d \in AllTypes
  PROVE  SubrangesOf(d.name) = SubrangesOf(d.of) \union (IF d.k = "subrange" THEN {d.name} ELSE {})
<1>1. Chain(d.name) = {d.name} \union Chain(d.of)
  BY ChainStep
<1>2. d.name \in TypeNames /\ TypeNamed(d.name) = d
  BY DeclaredName
<1> QED BY <1>1, <1>2 DEF SubrangesOf

LEMMA ElementaryHasNoSubranges ==
  ASSUME NamesApart, NEW e \in DOMAIN Elementary
  PROVE  SubrangesOf(e) = {}
BY ElementaryChain DEF SubrangesOf

LEMMA UnitOfDeclared ==
  ASSUME NamesApart, NEW l \in units, NEW d \in Declared(l)
  PROVE  /\ d \in AllTypes /\ UnitOf(d.name, "types") = l
         /\ TypeObject(d.name) = Named(l, d)
<1>1. d \in AllTypes
  BY DEF AllTypes
<1>2. d.name \in NamesOf(l, "types")
  BY DEF NamesOf, Declared
<1>3. ASSUME NEW m \in units, d.name \in NamesOf(m, "types") PROVE m = l
  <2>1. PICK e \in Declared(m) : e.name = d.name
    BY <1>3 DEF NamesOf, Declared
  <2> QED BY <2>1, OneDeclaration
<1>4. UnitOf(d.name, "types") = l
  BY <1>2, <1>3 DEF UnitOf
<1> QED BY <1>1, <1>4, DeclaredName DEF TypeObject, Named

\* A name of a type is of one declaration in one unit.
LEMMA DeclarationOf ==
  ASSUME NamesApart, NEW n \in TypeNames
  PROVE  \E l \in units : \E d \in Declared(l) :
            d.name = n /\ d \in AllTypes /\ UnitOf(n, "types") = l /\ TypeObject(n) = Named(l, d)
<1>1. PICK d \in AllTypes : d.name = n
  BY DEF TypeNames
<1>2. PICK l \in units : d \in Declared(l)
  BY DEF AllTypes
<1> QED BY <1>1, <1>2, UnitOfDeclared

LEMMA EndIsBehind ==
  ASSUME NamesApart, NEW n, NEW x, EndsAt(n, x)
  PROVE  /\ Grounded(n) /\ Behind(n) = x /\ x # Null
         /\ x.part \in {"elementary", "inline"}
<1>1. CASE \E e \in Chain(n) \intersect DOMAIN Elementary : x = ElementaryTypes[e] /\ SubrangesOf(n) = {}
  <2>1. PICK e \in Chain(n) \intersect DOMAIN Elementary : x = ElementaryTypes[e] /\ SubrangesOf(n) = {}
    BY <1>1
  <2>2. Grounded(n)
    BY <2>1 DEF Grounded
  <2>3. e = CHOOSE f \in Chain(n) : f \in DOMAIN Elementary
    BY <2>1, OneElementary
  <2>4. n \in DOMAIN Elementary => e = n
    BY <2>1, ElementaryChain
  <2>5. Behind(n) = x
    BY <2>1, <2>3, <2>4 DEF Behind, SubrangesOf
  <2> QED BY <2>1, <2>2, <2>5, Parts
<1>2. CASE \E l \in units : \E s \in Declared(l) :
             /\ s.k = "subrange" /\ s.of \in DOMAIN Elementary
             /\ x = Inline(l, s) /\ SubrangesOf(n) = {s.name}
  <2>0. PICK l \in units : \E s \in Declared(l) :
               /\ s.k = "subrange" /\ s.of \in DOMAIN Elementary
               /\ x = Inline(l, s) /\ SubrangesOf(n) = {s.name}
    BY <1>2
  <2>1. PICK s \in Declared(l) :
               /\ s.k = "subrange" /\ s.of \in DOMAIN Elementary
               /\ x = Inline(l, s) /\ SubrangesOf(n) = {s.name}
    BY <2>0
  <2>2. s \in AllTypes /\ UnitOf(s.name, "types") = l
    BY UnitOfDeclared
  <2>3. s.name \in Chain(n) /\ s.of \in Chain(s.name)
    BY <2>1, <2>2, ChainBegins, ChainIsClosed DEF SubrangesOf, Closed
  <2>4. s.of \in Chain(n)
    BY <2>3, ChainIncludes
  <2>5. Grounded(n)
    BY <2>1, <2>4 DEF Grounded
  <2>6. n \notin DOMAIN Elementary
    BY <2>1, ElementaryHasNoSubranges
  <2>7. s.name = CHOOSE m \in {s.name} : {s.name} \subseteq Chain(m)
    BY ChainBegins
  <2>8. Behind(n) = Object(UnitOf(s.name, "types"), s.name, "inline")
    BY <2>1, <2>6, <2>7 DEF Behind, SubrangesOf
  <2> QED BY <2>1, <2>2, <2>5, <2>8, Parts DEF Inline
<1> QED BY <1>1, <1>2 DEF EndsAt

\* A name that is no subrange comes to what the name it stands for does.
LEMMA EndOfNext ==
  ASSUME NamesApart, NEW d \in AllTypes, d.k # "subrange", NEW x, EndsAt(d.of, x)
  PROVE  EndsAt(d.name, x)
<1>1. Chain(d.of) \subseteq Chain(d.name) /\ SubrangesOf(d.name) = SubrangesOf(d.of)
  BY ChainStep, SubrangesStep
<1> QED BY <1>1 DEF EndsAt

-----------------------------------------------------------------------------
(* The pointers of the type objects while the pools are triggered *)

\* The units as they are once their definitions are entered.
Entering ==
  /\ NamesApart
  /\ Len(loads) \in Nat /\ units \subseteq 1..Len(loads)
  /\ \A l \in units : loads[l].types \in Seq(TypeDeclarations) /\ loads[l].globals \in Seq(GlobalDeclarations)
  /\ tables.types = Entered(ElementaryTypes, "types", "derived")

\* What is resolved is resolved to what the name means, or to nothing yet.
PointersOf(p, l, d) ==
  /\ Named(l, d) \in DOMAIN p.parent /\ Named(l, d) \in DOMAIN p.ancestor
  /\ IF d.k = "subrange"
     THEN /\ p.parent[Named(l, d)] = Inline(l, d) /\ p.ancestor[Named(l, d)] = Inline(l, d)
          /\ Inline(l, d) \in DOMAIN p.ranged
          /\ p.ranged[Inline(l, d)] \in {Null, TypeObject(d.of)}
     ELSE /\ p.parent[Named(l, d)] \in {Null, TypeObject(d.of)}
          /\ p.ancestor[Named(l, d)] # Null => EndsAt(d.of, p.ancestor[Named(l, d)])

PointersInv(p) ==
  /\ p = [parent |-> p.parent, ancestor |-> p.ancestor, ranged |-> p.ranged]
  /\ IsFiniteSet(DOMAIN p.ancestor) /\ IsFiniteSet(DOMAIN p.ranged)
  /\ \A l \in units : \A d \in Declared(l) : PointersOf(p, l, d)

\* What the first sweep of a unit leaves of a type.
KnownType(p, l, d) ==
  IF d.k = "subrange" THEN p.ranged[Inline(l, d)] = TypeObject(d.of)
  ELSE p.parent[Named(l, d)] = TypeObject(d.of)

\* at is an object of the type that n names.
Place(at, n) ==
  \/ n \in DOMAIN Elementary /\ at = ElementaryTypes[n]
  \/ \E l \in units : \E t \in Declared(l) :
       n = t.name /\ (at = Named(l, t) \/ (t.k = "subrange" /\ at = Inline(l, t)))

LEMMA TargetIs ==
  ASSUME Entering, NEW n
  PROVE  Target(tables.types, n) = TypeObject(n)
<1> DEFINE D == DOMAIN ElementaryTypes \union UNION {NamesOf(l, "types") : l \in units}
<1>1. tables.types = [x \in D |-> IF x \in DOMAIN ElementaryTypes THEN ElementaryTypes[x]
                                  ELSE Object(FirstWith(x, "types"), x, "derived")]
  BY DEF Entering, Entered
<1>2. DOMAIN ElementaryTypes = DOMAIN Elementary
  BY DEF ElementaryTypes
<1>3. UNION {NamesOf(l, "types") : l \in units} = TypeNames
  BY DEF NamesOf, TypeNames, AllTypes, Declared
<1>4. CASE n \in DOMAIN Elementary
  BY <1>1, <1>2, <1>4 DEF Target, TypeObject
<1>5. CASE n \notin DOMAIN Elementary /\ n \in TypeNames
  <2>1. PICK l \in units : \E d \in Declared(l) : d.name = n
    BY <1>5 DEF TypeNames, AllTypes
  <2>2. n \in NamesOf(l, "types")
    BY <2>1 DEF NamesOf, Declared
  <2>3. ASSUME NEW m \in units, n \in NamesOf(m, "types") PROVE m = l
    <3>1. \E e \in Declared(m) : e.name = n
      BY <2>3 DEF NamesOf, Declared
    <3> QED BY <2>1, <3>1, OneDeclaration DEF Entering
  <2>4. {m \in units : n \in NamesOf(m, "types")} = {l} /\ l \in Nat
    <3>1. l \in Nat
      BY DEF Entering
    <3> QED BY <3>1, <2>2, <2>3
  <2>5. FirstWith(n, "types") = l
    <3>1. Min({l}) \in {l}
      BY <2>4, MinIsLeast
    <3> QED BY <3>1, <2>4 DEF FirstWith
  <2>6. UnitOf(n, "types") = l
    BY <2>2, <2>3 DEF UnitOf
  <2> QED BY <1>1, <1>2, <1>3, <1>5, <2>5, <2>6 DEF Target, TypeObject
<1>6. CASE n \notin DOMAIN Elementary /\ n \notin TypeNames
  BY <1>1, <1>2, <1>3, <1>6 DEF Target, TypeObject
<1> QED BY <1>4, <1>5, <1>6

LEMMA TypeObjectPlace ==
  ASSUME NamesApart, NEW n, TypeObject(n) # Null
  PROVE  Place(TypeObject(n), n) /\ TypeObject(n).part \in {"elementary", "derived"}
<1>1. CASE n \in DOMAIN Elementary
  BY <1>1, Parts DEF TypeObject, Place
<1>2. CASE n \notin DOMAIN Elementary /\ n \in TypeNames
  <2>1. PICK l \in units : \E d \in Declared(l) : d.name = n /\ TypeObject(n) = Named(l, d)
    BY <1>2, DeclarationOf
  <2>2. PICK d \in Declared(l) : d.name = n /\ TypeObject(n) = Named(l, d)
    BY <2>1
  <2>3. Place(TypeObject(n), n)
    BY <2>2 DEF Place
  <2> QED BY <2>2, <2>3, Parts DEF Named
<1> QED BY <1>1, <1>2 DEF TypeObject

LEMMA TypeObjectElementary ==
  ASSUME NamesApart, NEW n, TypeObject(n).part = "elementary"
  PROVE  n \in DOMAIN Elementary /\ TypeObject(n) = ElementaryTypes[n]
BY Parts DEF TypeObject

LEMMA EndPlace ==
  ASSUME NamesApart, NEW n, NEW x, EndsAt(n, x)
  PROVE  \E m \in Chain(n) : Place(x, m) /\ SubrangesOf(m) = SubrangesOf(n)
<1>1. CASE \E e \in Chain(n) \intersect DOMAIN Elementary : x = ElementaryTypes[e] /\ SubrangesOf(n) = {}
  BY <1>1, ElementaryHasNoSubranges DEF Place
<1>2. CASE \E l \in units : \E s \in Declared(l) :
             /\ s.k = "subrange" /\ s.of \in DOMAIN Elementary
             /\ x = Inline(l, s) /\ SubrangesOf(n) = {s.name}
  <2>0. PICK l \in units : \E s \in Declared(l) :
             /\ s.k = "subrange" /\ s.of \in DOMAIN Elementary
             /\ x = Inline(l, s) /\ SubrangesOf(n) = {s.name}
    BY <1>2
  <2>1. PICK s \in Declared(l) :
             /\ s.k = "subrange" /\ s.of \in DOMAIN Elementary
             /\ x = Inline(l, s) /\ SubrangesOf(n) = {s.name}
    BY <2>0
  <2>2. s.name \in Chain(n) /\ Place(x, s.name)
    BY <2>1 DEF SubrangesOf, Place
  <2>3. SubrangesOf(s.name) = {s.name}
    BY <2>1, UnitOfDeclared, SubrangesStep, ElementaryHasNoSubranges
  <2> QED BY <2>1, <2>2, <2>3
<1> QED BY <1>1, <1>2 DEF EndsAt

\* An object is of one declaration only.
LEMMA PlaceIsOne ==
  ASSUME NamesApart, NEW l \in units, NEW t \in Declared(l), NEW n
  PROVE  /\ Place(Named(l, t), n) => n = t.name
         /\ Place(Inline(l, t), n) => n = t.name /\ t.k = "subrange"
         /\ Declaration(Inline(l, t)) = t
<1>1. ASSUME NEW m \in units, NEW u \in Declared(m), m = l, u.name = t.name PROVE u = t
  BY <1>1, OneDeclaration
<1>2. Place(Named(l, t), n) => n = t.name
  BY Parts DEF Place, Named, Inline, Object, ElementaryTypes
<1>3. ASSUME Place(Inline(l, t), n) PROVE n = t.name /\ t.k = "subrange"
  <2>1. PICK m \in units : \E u \in Declared(m) : n = u.name /\ u.k = "subrange" /\ Inline(l, t) = Inline(m, u)
    BY <1>3 DEF Place, Named, Inline, Object, ElementaryTypes
  <2>2. PICK u \in Declared(m) : n = u.name /\ u.k = "subrange" /\ Inline(l, t) = Inline(m, u)
    BY <2>1
  <2> QED BY <2>2, <1>1 DEF Inline, Object
<1>4. Declaration(Inline(l, t)) = t
  BY <1>1, Parts DEF Declaration, Inline
<1> QED BY <1>2, <1>3, <1>4

-----------------------------------------------------------------------------
(* Walks from an object *)

LEMMA StepsAreMany ==
  ASSUME NEW p, IsFiniteSet(DOMAIN p.ancestor), IsFiniteSet(DOMAIN p.ranged)
  PROVE  /\ Steps(p) \in Nat /\ Steps(p) >= 1
         /\ Steps(p) > Cardinality(DOMAIN p.ancestor)
         /\ DOMAIN p.ancestor # {} \/ DOMAIN p.ranged # {} => Steps(p) >= 2
<1>1. Cardinality(DOMAIN p.ancestor) \in Nat /\ Cardinality(DOMAIN p.ranged) \in Nat
  BY FS_CardinalityType
<1>2. /\ DOMAIN p.ancestor # {} => Cardinality(DOMAIN p.ancestor) # 0
      /\ DOMAIN p.ranged # {} => Cardinality(DOMAIN p.ranged) # 0
  BY FS_EmptySet
<1> QED BY <1>1, <1>2 DEF Steps

LEMMA WalkSteps ==
  ASSUME NEW p, NEW o, Steps(p) \in Nat
  PROVE  /\ Walk(p, o)[0] = o
         /\ \A n \in 1..Steps(p) : Walk(p, o)[n] = Onward(p, Walk(p, o)[n - 1])
<1>1. PICK f : WalkBy(p, o, f)
  BY WalkUnfolds
<1> QED BY <1>1 DEF WalkBy

\* A walk that comes to what hands nothing on stays there.
LEMMA WalkRests ==
  ASSUME NEW p, NEW o, Steps(p) \in Nat, NEW i \in 0..Steps(p),
         Walk(p, o)[i].part \notin {"derived", "inline"}
  PROVE  \A j \in i..Steps(p) : Walk(p, o)[j] = Walk(p, o)[i]
<1> DEFINE Bad == {j \in i..Steps(p) : Walk(p, o)[j] # Walk(p, o)[i]}
<1> SUFFICES ASSUME Bad # {} PROVE FALSE
  OBVIOUS
<1>1. PICK j \in Bad : j \in Nat /\ (j # 0 => j - 1 \in Nat /\ j - 1 \notin Bad)
  <2>1. Bad \subseteq Nat
    OBVIOUS
  <2> HIDE DEF Bad
  <2> QED BY <2>1, Least
<1>2. j \in i..Steps(p) /\ Walk(p, o)[j] # Walk(p, o)[i] /\ j # i
  OBVIOUS
<1>3. j \in 1..Steps(p) /\ j - 1 \in i..Steps(p)
  BY <1>2
<1>4. Walk(p, o)[j - 1] = Walk(p, o)[i]
  BY <1>1, <1>3
<1>5. Walk(p, o)[j] = Onward(p, Walk(p, o)[i])
  BY <1>3, <1>4, WalkSteps
<1>6. Onward(p, Walk(p, o)[i]) = Walk(p, o)[i]
  BY DEF Onward
<1> QED BY <1>2, <1>5, <1>6

\* Where no derived type is on the way of what returns, there is an end.
LEMMA AtAnEnd ==
  ASSUME Entering, NEW p, PointersInv(p), NEW at, NEW n, Place(at, n),
         Returns(p, at), ~IsDerived(p, at)
  PROVE  EndsAt(n, at)
<1> DEFINE W == Walk(p, at)
<1> DEFINE S == Steps(p)
<1>1. S \in Nat /\ S >= 1 /\ NamesApart
  BY StepsAreMany DEF PointersInv, Entering
<1>2. /\ W[0] = at /\ W[1] = Onward(p, at)
      /\ 0 \in 0..S /\ 1 \in 0..S /\ S \in 1..S
  BY <1>1, WalkSteps
<1>3. at.part # "derived" /\ W[1].part # "derived" /\ W[S].part \in {"elementary", "open"}
  BY <1>2 DEF IsDerived, Returns
<1>4. CASE n \in DOMAIN Elementary /\ at = ElementaryTypes[n]
  BY <1>1, <1>4, ChainBegins, ElementaryHasNoSubranges DEF EndsAt
<1>5. ASSUME NEW l \in units, NEW t \in Declared(l), n = t.name,
             at = Named(l, t) \/ (t.k = "subrange" /\ at = Inline(l, t))
      PROVE  EndsAt(n, at)
  <2>1. t.k = "subrange" /\ at = Inline(l, t) /\ at.part = "inline"
    BY <1>3, <1>5, Parts DEF Named, Inline
  <2>2. W[1] = p.ranged[at]
    BY <1>2, <2>1 DEF Onward
  <2>3. W[1] \in {Null, TypeObject(t.of)}
    BY <2>1, <2>2 DEF PointersInv, PointersOf
  <2>4. W[1] # Null
    <3> SUFFICES ASSUME W[1] = Null PROVE FALSE
      OBVIOUS
    <3>1. W[1].part = "null"
      BY Parts
    <3>2. \A j \in 1..S : W[j] = W[1]
      BY <1>1, <1>2, <3>1, WalkRests
    <3> QED BY <1>2, <1>3, <3>1, <3>2
  <2>5. W[1].part = "elementary"
    BY <1>1, <1>3, <2>3, <2>4, TypeObjectPlace
  <2>6. t.of \in DOMAIN Elementary
    BY <1>1, <2>3, <2>4, <2>5, TypeObjectElementary
  <2>7. SubrangesOf(n) = {t.name}
    BY <1>1, <1>5, <2>1, <2>6, UnitOfDeclared, SubrangesStep, ElementaryHasNoSubranges
  <2> HIDE DEF W, S
  <2> QED BY <2>1, <2>6, <2>7 DEF EndsAt
<1> QED BY <1>4, <1>5 DEF Place

\* The types on the way are known and their subranges are of elementary types.
Ready(p, n) ==
  \A l \in units : \A t \in Declared(l) :
    t.name \in Chain(n) => KnownType(p, l, t) /\ (t.k = "subrange" => t.of \in DOMAIN Elementary)

LEMMA ReadySubrange ==
  ASSUME Entering, NEW p, NEW n, Ready(p, n), NEW l \in units, NEW t \in Declared(l),
         t.name \in Chain(n), t.k = "subrange"
  PROVE  /\ Inline(l, t).part = "inline"
         /\ p.ranged[Inline(l, t)].part = "elementary"
         /\ Onward(p, Inline(l, t)) = p.ranged[Inline(l, t)]
<1>1. t.of \in DOMAIN Elementary /\ p.ranged[Inline(l, t)] = TypeObject(t.of)
  BY DEF Ready, KnownType
<1>2. TypeObject(t.of).part = "elementary"
  BY <1>1, Parts DEF TypeObject
<1>3. Inline(l, t).part = "inline"
  BY Parts DEF Inline
<1> QED BY <1>1, <1>2, <1>3 DEF Onward

\* Then a call returns, and says so of a subrange.
LEMMA ReadyReturns ==
  ASSUME Entering, NEW p, PointersInv(p), NEW at, NEW n, Place(at, n), Ready(p, n)
  PROVE  Returns(p, at) /\ (at.part # "derived" => ~IsDerived(p, at))
<1> DEFINE W == Walk(p, at)
<1> DEFINE S == Steps(p)
<1>1. S \in Nat /\ S >= 1 /\ NamesApart
  BY StepsAreMany DEF PointersInv, Entering
<1>2. W[0] = at /\ 0 \in 0..S /\ 1 \in 0..S /\ S \in 1..S /\ S \in 0..S
  BY <1>1, WalkSteps
<1>3. \A i \in 1..S : W[i] = Onward(p, W[i - 1])
  BY <1>1, WalkSteps
<1>4. W[1] = Onward(p, at)
  BY <1>2, <1>3
<1>5. S >= 2 => W[2] = Onward(p, W[1]) /\ 2 \in 0..S /\ S \in 2..S
  BY <1>1, <1>3
<1> HIDE DEF W, S
<1>6. \A i \in 0..S : W[i].part \notin {"derived", "inline"} => \A j \in i..S : W[j] = W[i]
  BY <1>1, WalkRests DEF W, S
<1>7. CASE n \in DOMAIN Elementary /\ at = ElementaryTypes[n]
  <2>1. at.part = "elementary"
    BY <1>7, Parts
  <2>2. \A j \in 0..S : W[j] = at
    BY <1>2, <1>6, <2>1
  <2> QED BY <1>2, <2>1, <2>2 DEF Returns, IsDerived, W, S
<1>8. ASSUME NEW l \in units, NEW t \in Declared(l), n = t.name, t.k = "subrange", at = Inline(l, t)
      PROVE  Returns(p, at) /\ ~IsDerived(p, at)
  <2>1. at.part = "inline" /\ W[1].part = "elementary"
    BY <1>4, <1>8, ReadySubrange, ChainBegins
  <2>2. \A j \in 1..S : W[j] = W[1]
    BY <1>2, <1>6, <2>1
  <2>3. \A j \in 0..S : W[j].part # "derived"
    BY <1>1, <1>2, <2>1, <2>2
  <2> QED BY <1>2, <2>1, <2>2, <2>3 DEF Returns, IsDerived, W, S
<1>9. ASSUME NEW l \in units, NEW t \in Declared(l), n = t.name, at = Named(l, t)
      PROVE  Returns(p, at) /\ at.part = "derived"
  <2>1. PointersOf(p, l, t) /\ at.part = "derived"
    BY <1>9, Parts DEF PointersInv, Named
  <2>2. S >= 2
    BY <1>9, <2>1, StepsAreMany DEF PointersInv, PointersOf, S
  <2>3. W[1] = IF p.ancestor[at] = Null THEN Open ELSE p.ancestor[at]
    BY <1>4, <2>1 DEF Onward
  <2>4. t \in AllTypes
    BY <1>1, UnitOfDeclared
  <2>5. W[1].part \in {"elementary", "open"} \/ W[2].part = "elementary"
    <3>1. CASE t.k = "subrange"
      <4>1. W[1] = Inline(l, t)
        BY <1>9, <2>1, <2>3, <3>1, Parts DEF PointersOf, Inline
      <4> QED BY <4>1, <2>2, <1>5, <1>9, <3>1, ReadySubrange, ChainBegins
    <3>2. CASE p.ancestor[at] = Null
      BY <2>3, <3>2, Parts
    <3>3. CASE t.k # "subrange" /\ p.ancestor[at] # Null
      <4>1. EndsAt(t.of, W[1])
        BY <1>9, <2>1, <2>3, <3>3 DEF PointersOf
      <4>2. PICK m \in Chain(t.of) : Place(W[1], m)
        BY <1>1, <4>1, EndPlace
      <4>3. m \in Chain(n)
        BY <1>1, <1>9, <2>4, <4>2, ChainStep
      <4>4. CASE W[1].part = "elementary"
        BY <4>4
      <4>5. CASE W[1].part = "inline"
        <5>1. PICK k \in units : \E s \in Declared(k) :
                     m = s.name /\ s.k = "subrange" /\ W[1] = Inline(k, s)
          BY <4>2, <4>5, Parts DEF Place, Named
        <5>2. PICK s \in Declared(k) : m = s.name /\ s.k = "subrange" /\ W[1] = Inline(k, s)
          BY <5>1
        <5> QED BY <1>5, <2>2, <4>3, <5>2, ReadySubrange
      <4> QED BY <1>1, <4>1, <4>4, <4>5, EndIsBehind
    <3> QED BY <3>1, <3>2, <3>3
  <2>6. CASE W[1].part \in {"elementary", "open"}
    <3>1. W[S] = W[1]
      BY <1>2, <1>6, <2>6
    <3> QED BY <2>1, <2>6, <3>1 DEF Returns, W, S
  <2>7. CASE W[2].part = "elementary"
    <3>1. W[S] = W[2]
      BY <1>5, <1>6, <2>2, <2>7
    <3> QED BY <2>1, <2>7, <3>1 DEF Returns, W, S
  <2> QED BY <2>5, <2>6, <2>7
<1> QED BY <1>7, <1>8, <1>9, Parts DEF Place


-----------------------------------------------------------------------------
(* The numbers of a subrange (RangeChecked) *)

\* After i steps from n: at an object of a type on the way, with the subranges
\* in between behind.  Open is where a type has no ancestor yet.
OnTheWay(W, n, i) ==
  \/ W[i] = Open /\ \E t \in AllTypes : t.k # "subrange" /\ t.name \in Chain(n)
  \/ \E m \in Chain(n) :
       /\ Place(W[i], m)
       /\ \A s \in SubrangesOf(n) :
            s \in SubrangesOf(m) \/ \E j \in 0..i : W[j].part = "inline" /\ Declaration(W[j]) = TypeNamed(s)

LEMMA WayGoesOn ==
  ASSUME Entering, NEW p, PointersInv(p), NEW W, NEW n, NEW i \in Nat, OnTheWay(W, n, i),
         W[i + 1] = Onward(p, W[i]), W[i + 1] # Null
  PROVE  OnTheWay(W, n, i + 1)
<1>1. NamesApart
  BY DEF Entering
<1>2. \A j \in 0..i : j \in 0..(i + 1)
  OBVIOUS
<1>3. CASE W[i] = Open /\ \E t \in AllTypes : t.k # "subrange" /\ t.name \in Chain(n)
  BY <1>3, Parts DEF OnTheWay, Onward
<1>4. ASSUME NEW m \in Chain(n), Place(W[i], m),
             \A s \in SubrangesOf(n) :
               s \in SubrangesOf(m) \/ \E j \in 0..i : W[j].part = "inline" /\ Declaration(W[j]) = TypeNamed(s)
      PROVE  OnTheWay(W, n, i + 1)
  \* It is enough to come to an object of a type with the same subranges.
  <2>1. ASSUME NEW k \in Chain(n), Place(W[i + 1], k), SubrangesOf(m) \subseteq SubrangesOf(k)
        PROVE  OnTheWay(W, n, i + 1)
    <3>1. \A s \in SubrangesOf(n) :
            s \in SubrangesOf(k) \/ \E j \in 0..(i + 1) : W[j].part = "inline" /\ Declaration(W[j]) = TypeNamed(s)
      BY <1>2, <1>4, <2>1
    <3> QED BY <2>1, <3>1 DEF OnTheWay
  <2>2. CASE m \in DOMAIN Elementary /\ W[i] = ElementaryTypes[m]
    <3>1. W[i + 1] = W[i]
      BY <2>2, Parts DEF Onward
    <3> QED BY <1>4, <2>1, <3>1
  <2>3. ASSUME NEW l \in units, NEW t \in Declared(l), m = t.name,
               W[i] = Named(l, t) \/ (t.k = "subrange" /\ W[i] = Inline(l, t))
        PROVE  OnTheWay(W, n, i + 1)
    <3>1. t \in AllTypes /\ PointersOf(p, l, t) /\ t.of \in Chain(n)
      <4>1. t \in AllTypes
        BY <1>1, UnitOfDeclared
      <4> QED BY <4>1, <2>3, <1>4, ChainIsClosed DEF PointersInv, Closed
    <3>2. TypeNamed(m) = t
      BY <1>1, <2>3, <3>1, DeclaredName
    <3>3. CASE W[i] = Named(l, t)
      <4>1. W[i + 1] = IF p.ancestor[Named(l, t)] = Null THEN Open ELSE p.ancestor[Named(l, t)]
        BY <3>3, Parts DEF Onward, Named
      <4>2. CASE t.k = "subrange"
        <5>1. W[i + 1] = Inline(l, t)
          BY <3>1, <4>1, <4>2, Parts DEF PointersOf, Inline
        <5>2. Place(W[i + 1], m)
          BY <2>3, <4>2, <5>1 DEF Place
        <5> QED BY <1>4, <2>1, <5>2
      <4>3. CASE t.k # "subrange" /\ p.ancestor[Named(l, t)] = Null
        BY <1>4, <2>3, <3>1, <4>1, <4>3 DEF OnTheWay
      <4>4. CASE t.k # "subrange" /\ p.ancestor[Named(l, t)] # Null
        <5>1. EndsAt(t.of, W[i + 1])
          BY <3>1, <4>1, <4>4 DEF PointersOf
        <5>2. PICK k \in Chain(t.of) : Place(W[i + 1], k) /\ SubrangesOf(k) = SubrangesOf(t.of)
          BY <1>1, <5>1, EndPlace
        <5>3. SubrangesOf(m) = SubrangesOf(k)
          BY <1>1, <2>3, <3>1, <4>4, <5>2, SubrangesStep
        <5>4. k \in Chain(n)
          BY <3>1, <5>2, ChainIncludes
        <5> QED BY <2>1, <5>2, <5>3, <5>4
      <4> QED BY <4>2, <4>3, <4>4
    <3>4. CASE t.k = "subrange" /\ W[i] = Inline(l, t)
      <4>1. W[i + 1] = p.ranged[Inline(l, t)]
        BY <3>4, Parts DEF Onward, Inline
      <4>2. W[i + 1] = TypeObject(t.of) /\ TypeObject(t.of) # Null
        BY <3>1, <3>4, <4>1 DEF PointersOf
      <4>3. Place(W[i + 1], t.of)
        BY <1>1, <4>2, TypeObjectPlace
      <4>4. SubrangesOf(m) = SubrangesOf(t.of) \union {m}
        BY <1>1, <2>3, <3>1, <3>4, SubrangesStep
      <4>5. W[i].part = "inline" /\ Declaration(W[i]) = TypeNamed(m)
        BY <1>1, <3>2, <3>4, PlaceIsOne, Parts DEF Inline
      <4>6. \A s \in SubrangesOf(n) :
              s \in SubrangesOf(t.of) \/ \E j \in 0..(i + 1) : W[j].part = "inline" /\ Declaration(W[j]) = TypeNamed(s)
        <5> SUFFICES ASSUME NEW s \in SubrangesOf(n), s \notin SubrangesOf(t.of)
                     PROVE  \E j \in 0..(i + 1) : W[j].part = "inline" /\ Declaration(W[j]) = TypeNamed(s)
          OBVIOUS
        <5>1. CASE s = m
          BY <4>5, <5>1
        <5>2. CASE s # m
          BY <1>2, <1>4, <4>4, <5>2
        <5> QED BY <5>1, <5>2
      <4> QED BY <3>1, <4>3, <4>6 DEF OnTheWay
    <3> QED BY <2>3, <3>3, <3>4
  <2> QED BY <1>4, <2>2, <2>3 DEF Place
<1> QED BY <1>3, <1>4 DEF OnTheWay

\* A walk that returns has met no type that is unknown.
LEMMA WayOfWalk ==
  ASSUME Entering, NEW p, PointersInv(p), NEW n, TypeObject(n) # Null, Returns(p, TypeObject(n))
  PROVE  \A i \in 0..Steps(p) : OnTheWay(Walk(p, TypeObject(n)), n, i)
<1> DEFINE o == TypeObject(n)
<1> DEFINE W == Walk(p, o)
<1> DEFINE Bad == {i \in 0..Steps(p) : ~OnTheWay(W, n, i)}
<1> SUFFICES ASSUME Bad # {} PROVE FALSE
  OBVIOUS
<1>1. Steps(p) \in Nat /\ NamesApart
  BY StepsAreMany DEF PointersInv, Entering
<1>2. W[0] = o /\ \A i \in 1..Steps(p) : W[i] = Onward(p, W[i - 1])
  BY <1>1, WalkSteps
<1>3. \A i \in 0..Steps(p) : W[i] # Null
  <2> SUFFICES ASSUME NEW i \in 0..Steps(p), W[i] = Null PROVE FALSE
    OBVIOUS
  <2>1. W[i].part = "null"
    BY Parts
  <2>2. W[Steps(p)] = W[i]
    BY <1>1, <2>1, WalkRests
  <2> QED BY <2>1, <2>2 DEF Returns
<1>4. OnTheWay(W, n, 0)
  <2>1. Place(W[0], n) /\ n \in Chain(n)
    BY <1>1, <1>2, TypeObjectPlace, ChainBegins
  <2> HIDE DEF W
  <2> QED BY <2>1 DEF OnTheWay
<1>5. PICK i \in Bad : i \in Nat /\ (i # 0 => i - 1 \in Nat /\ i - 1 \notin Bad)
  <2>1. Bad \subseteq Nat
    BY <1>1
  <2> HIDE DEF Bad
  <2> QED BY <2>1, Least
<1>6. i \in 0..Steps(p) /\ ~OnTheWay(W, n, i)
  OBVIOUS
<1>7. i # 0 /\ i - 1 \in Nat /\ OnTheWay(W, n, i - 1) /\ i \in 1..Steps(p)
  BY <1>1, <1>4, <1>5, <1>6
<1>8. W[i] = Onward(p, W[i - 1]) /\ W[i] # Null /\ (i - 1) + 1 = i
  BY <1>2, <1>3, <1>6, <1>7
<1> HIDE DEF W, o, Bad
<1> QED BY <1>6, <1>7, <1>8, WayGoesOn

\* When every type but the subranges leads to an elementary type, so does the
\* type of d, and it has the numbers of d.
NumbersFit(d) ==
  (\A t \in AllTypes : t.k # "subrange" => Grounded(t.name))
    => Grounded(d.of) /\ d.range \subseteq Numbers(d.of)

\* What a subrange that is found in order is.
LEMMA RangeFits ==
  ASSUME Entering, NEW p, PointersInv(p), NEW d, TypeObject(d.of) # Null, Returns(p, TypeObject(d.of)),
         \A v \in d.range : Holds(p, TypeObject(d.of), v)
  PROVE  NumbersFit(d)
<1> SUFFICES ASSUME \A t \in AllTypes : t.k # "subrange" => Grounded(t.name)
             PROVE  Grounded(d.of) /\ d.range \subseteq Numbers(d.of)
  BY DEF NumbersFit
<1> DEFINE n == d.of
<1> DEFINE W == Walk(p, TypeObject(n))
<1> DEFINE S == Steps(p)
<1>1. S \in Nat /\ NamesApart
  BY StepsAreMany DEF PointersInv, Entering
<1>2. W[S].part \in {"elementary", "open"} /\ OnTheWay(W, n, S)
  BY <1>1, WayOfWalk DEF Returns
<1>3. \A v \in d.range : /\ W[S].part = "elementary" /\ v \in Elementary[W[S].name]
                         /\ \A j \in 0..S : W[j].part = "inline" => v \in Declaration(W[j]).range
  BY DEF Holds
<1> HIDE DEF W, S
<1>4. CASE W[S] = Open /\ \E t \in AllTypes : t.k # "subrange" /\ t.name \in Chain(n)
  <2>1. PICK t \in AllTypes : t.k # "subrange" /\ t.name \in Chain(n)
    BY <1>4
  <2>2. Grounded(n)
    BY <2>1, ChainIncludes DEF Grounded
  <2>3. d.range = {}
    BY <1>3, <1>4, Parts
  <2> QED BY <2>2, <2>3
<1>5. ASSUME NEW m \in Chain(n), Place(W[S], m),
             \A s \in SubrangesOf(n) :
               s \in SubrangesOf(m) \/ \E j \in 0..S : W[j].part = "inline" /\ Declaration(W[j]) = TypeNamed(s)
      PROVE  Grounded(d.of) /\ d.range \subseteq Numbers(d.of)
  <2>1. m \in DOMAIN Elementary /\ W[S] = ElementaryTypes[m]
    <3>1. W[S].part # "derived" /\ W[S].part # "inline"
      <4>1. W[S].part # "derived"
        BY <1>2
      <4>2. W[S].part # "inline"
        BY <1>2
      <4> QED BY <4>1, <4>2
    <3> QED BY <1>5, <3>1, Parts DEF Place, Named, Inline
  <2>2. Grounded(n)
    BY <2>1 DEF Grounded
  <2>3. m = CHOOSE e \in Chain(n) : e \in DOMAIN Elementary
    BY <1>1, <2>1, OneElementary
  <2>4. ASSUME NEW v \in d.range PROVE v \in Numbers(n)
    <3>1. v \in Elementary[m]
      BY <1>3, <2>1, <2>4, Parts
    <3>2. ASSUME NEW s \in Chain(n) \intersect TypeNames, TypeNamed(s).k = "subrange"
          PROVE  v \in TypeNamed(s).range
      <4>1. s \in SubrangesOf(n) /\ SubrangesOf(m) = {}
        BY <1>1, <2>1, <3>2, ElementaryHasNoSubranges DEF SubrangesOf
      <4>2. PICK j \in 0..S : W[j].part = "inline" /\ Declaration(W[j]) = TypeNamed(s)
        BY <1>5, <4>1
      <4> QED BY <1>3, <2>4, <4>2
    <3> HIDE DEF n
    <3> QED BY <2>3, <3>1, <3>2 DEF Numbers
  <2> QED BY <2>2, <2>4
<1> QED BY <1>2, <1>4, <1>5 DEF OnTheWay

-----------------------------------------------------------------------------
(* The ancestor of a derived type (ResolveAncestor) *)

LEMMA PlaceParts ==
  ASSUME NamesApart, NEW at, NEW n, Place(at, n)
  PROVE  /\ at # Null /\ at.part \in {"elementary", "derived", "inline"}
         /\ at.part = "derived" => \E l \in units : \E t \in Declared(l) : n = t.name /\ at = Named(l, t)
BY Parts DEF Place, Named, Inline

LEMMA ElementaryIsNotDerived ==
  ASSUME NEW p, Steps(p) \in Nat, NEW at, at.part = "elementary"
  PROVE  ~IsDerived(p, at)
<1>1. 0 \in 0..Steps(p) /\ Walk(p, at)[0] = at
  BY WalkSteps
<1>2. \A j \in 0..Steps(p) : Walk(p, at)[j] = at
  BY <1>1, WalkRests
<1> QED BY <1>2 DEF IsDerived

\* A climb from n is at an object of a type with the subranges of n, or at
\* nothing.
OnTheClimb(p, n, c) ==
  /\ c = [at |-> c.at, seen |-> c.seen, r |-> c.r]
  /\ c.at = Null \/ \E m \in Chain(n) : Place(c.at, m) /\ SubrangesOf(m) = SubrangesOf(n)
  /\ c.r = "ok" => c.at # Null /\ Returns(p, c.at) /\ ~IsDerived(p, c.at)

\* The next call is at the ancestor, if it is known, or at the parent.
LEMMA ClimbGoesOn ==
  ASSUME Entering, NEW p, PointersInv(p), NEW n, NEW c, OnTheClimb(p, n, c)
  PROVE  OnTheClimb(p, n, Climb(p, c))
<1>1. NamesApart /\ Steps(p) \in Nat
  BY StepsAreMany DEF Entering, PointersInv
<1>2. CASE c.r # "climbing"
  BY <1>2 DEF Climb
<1>3. CASE c.r = "climbing" /\ (c.at = Null \/ c.at \in c.seen)
  BY <1>3 DEF Climb, OnTheClimb
<1>4. CASE c.r = "climbing" /\ c.at # Null /\ c.at \notin c.seen
  <2>1. CASE ~Returns(p, c.at)
    BY <1>4, <2>1 DEF Climb, OnTheClimb
  <2>2. CASE Returns(p, c.at) /\ ~IsDerived(p, c.at)
    BY <1>4, <2>2 DEF Climb, OnTheClimb
  <2>3. CASE Returns(p, c.at) /\ IsDerived(p, c.at) /\ c.at.part = "inline"
    BY <1>4, <2>3 DEF Climb, OnTheClimb
  <2>4. CASE Returns(p, c.at) /\ IsDerived(p, c.at) /\ c.at.part # "inline"
    <3> DEFINE up == IF p.ancestor[c.at] # Null THEN p.ancestor[c.at] ELSE p.parent[c.at]
    <3>1. Climb(p, c) = [c EXCEPT !.seen = @ \union {c.at}, !.at = up]
      BY <1>4, <2>4 DEF Climb
    <3>2. PICK m \in Chain(n) : Place(c.at, m) /\ SubrangesOf(m) = SubrangesOf(n)
      BY <1>4 DEF OnTheClimb
    <3>3. c.at.part = "derived"
      BY <1>1, <2>4, <3>2, PlaceParts, ElementaryIsNotDerived
    <3>4. PICK l \in units : \E t \in Declared(l) : m = t.name /\ c.at = Named(l, t)
      BY <1>1, <3>2, <3>3, PlaceParts
    <3>5. PICK t \in Declared(l) : m = t.name /\ c.at = Named(l, t)
      BY <3>4
    <3>6. PointersOf(p, l, t) /\ t \in AllTypes /\ t.of \in Chain(n)
      <4>1. t \in AllTypes
        BY <1>1, UnitOfDeclared
      <4> QED BY <4>1, <3>2, <3>5, ChainIsClosed DEF PointersInv, Closed
    <3>7. t.k # "subrange" => SubrangesOf(t.of) = SubrangesOf(n)
      BY <1>1, <3>2, <3>5, <3>6, SubrangesStep
    <3>8. up = Null \/ \E k \in Chain(n) : Place(up, k) /\ SubrangesOf(k) = SubrangesOf(n)
      <4>1. CASE t.k = "subrange"
        <5>1. up = Inline(l, t)
          BY <3>5, <3>6, <4>1, Parts DEF PointersOf, Inline
        <5>2. Place(up, m)
          BY <3>5, <4>1, <5>1 DEF Place
        <5> QED BY <3>2, <5>2
      <4>2. CASE t.k # "subrange" /\ p.ancestor[c.at] # Null
        <5>1. EndsAt(t.of, up)
          BY <3>5, <3>6, <4>2 DEF PointersOf
        <5>2. PICK k \in Chain(t.of) : Place(up, k) /\ SubrangesOf(k) = SubrangesOf(t.of)
          BY <1>1, <5>1, EndPlace
        <5>3. k \in Chain(n)
          BY <3>6, <5>2, ChainIncludes
        <5> QED BY <3>7, <4>2, <5>2, <5>3
      <4>3. CASE t.k # "subrange" /\ p.ancestor[c.at] = Null
        <5>1. up \in {Null, TypeObject(t.of)}
          BY <3>5, <3>6, <4>3 DEF PointersOf
        <5>2. CASE up # Null
          <6>1. Place(up, t.of)
            BY <1>1, <5>1, <5>2, TypeObjectPlace
          <6> QED BY <3>6, <3>7, <4>3, <6>1
        <5> QED BY <5>2
      <4> QED BY <4>1, <4>2, <4>3
    <3> HIDE DEF up
    <3>9. /\ Climb(p, c).at = up /\ Climb(p, c).r = "climbing"
          /\ Climb(p, c) = [at |-> up, seen |-> c.seen \union {c.at}, r |-> "climbing"]
      BY <1>4, <3>1 DEF OnTheClimb
    <3> QED BY <3>8, <3>9 DEF OnTheClimb
  <2> QED BY <2>1, <2>2, <2>3, <2>4
<1> QED BY <1>2, <1>3, <1>4

\* What resolve_ancestor finds is the end of the type's names.
LEMMA ClimbFinds ==
  ASSUME Entering, NEW p, PointersInv(p), NEW o, NEW n
  PROVE  LET c == ResolveAncestor(p, o, TypeObject(n))
         IN c.r = "ok" => EndsAt(n, c.at)
<1>1. NamesApart /\ Steps(p) \in Nat /\ Steps(p) + 1 \in Nat
  BY StepsAreMany DEF Entering, PointersInv
<1>2. PICK f : ClimbBy(p, o, TypeObject(n), f)
  BY <1>1, ClimbUnfolds
<1>3. OnTheClimb(p, n, f[0])
  <2>1. f[0] = [at |-> TypeObject(n), seen |-> {o}, r |-> "climbing"]
    BY <1>2 DEF ClimbBy
  <2>2. TypeObject(n) # Null => Place(TypeObject(n), n) /\ n \in Chain(n)
    BY <1>1, TypeObjectPlace, ChainBegins
  <2> QED BY <2>1, <2>2 DEF OnTheClimb
<1> DEFINE Bad == {i \in 0..Steps(p) + 1 : ~OnTheClimb(p, n, f[i])}
<1>4. Bad = {}
  <2> SUFFICES ASSUME Bad # {} PROVE FALSE
    OBVIOUS
  <2>1. PICK i \in Bad : i \in Nat /\ (i # 0 => i - 1 \in Nat /\ i - 1 \notin Bad)
    <3>1. Bad \subseteq Nat
      BY <1>1
    <3> HIDE DEF Bad
    <3> QED BY <3>1, Least
  <2>2. i \in 1..Steps(p) + 1 /\ OnTheClimb(p, n, f[i - 1]) /\ ~OnTheClimb(p, n, f[i])
    BY <1>1, <1>3, <2>1
  <2>3. f[i] = Climb(p, f[i - 1])
    BY <1>2, <2>2 DEF ClimbBy
  <2> QED BY <2>2, <2>3, ClimbGoesOn
<1>5. OnTheClimb(p, n, f[Steps(p) + 1])
  BY <1>1, <1>4
<1>6. ResolveAncestor(p, o, TypeObject(n)) = f[Steps(p) + 1]
  BY <1>2 DEF ClimbBy
<1> DEFINE c == f[Steps(p) + 1]
<1> HIDE DEF c
<1>7. ASSUME OnTheClimb(p, n, c), c.r = "ok" PROVE EndsAt(n, c.at)
  <2>1. PICK m \in Chain(n) : Place(c.at, m) /\ SubrangesOf(m) = SubrangesOf(n)
    BY <1>7 DEF OnTheClimb
  <2>2. EndsAt(m, c.at)
    BY <1>7, <2>1, AtAnEnd DEF OnTheClimb
  <2>3. Chain(m) \subseteq Chain(n)
    BY ChainIncludes
  <2> QED BY <2>1, <2>2, <2>3 DEF EndsAt
<1> QED BY <1>5, <1>6, <1>7 DEF c

\* A climb among types that are known and in order does not crash.
LEMMA ClimbIsSafe ==
  ASSUME Entering, NEW p, PointersInv(p), NEW n, Ready(p, n), NEW c, OnTheClimb(p, n, c), c.r # "crash"
  PROVE  Climb(p, c).r # "crash"
<1>1. CASE c.r # "climbing" \/ c.at = Null \/ c.at \in c.seen
  BY <1>1 DEF Climb, OnTheClimb
<1>2. CASE c.r = "climbing" /\ c.at # Null /\ c.at \notin c.seen
  <2>1. PICK m \in Chain(n) : Place(c.at, m)
    BY <1>2 DEF OnTheClimb
  <2>2. Ready(p, m)
    BY ChainIncludes DEF Ready
  <2>3. Returns(p, c.at) /\ (c.at.part # "derived" => ~IsDerived(p, c.at))
    BY <2>1, <2>2, ReadyReturns
  <2> QED BY <1>2, <2>3 DEF Climb, OnTheClimb
<1> QED BY <1>1, <1>2

LEMMA ResolveIsSafe ==
  ASSUME Entering, NEW p, PointersInv(p), NEW o, NEW n, Ready(p, n)
  PROVE  ResolveAncestor(p, o, TypeObject(n)).r # "crash"
<1>1. NamesApart /\ Steps(p) \in Nat /\ Steps(p) + 1 \in Nat
  BY StepsAreMany DEF Entering, PointersInv
<1>2. PICK f : ClimbBy(p, o, TypeObject(n), f)
  BY <1>1, ClimbUnfolds
<1> DEFINE Fine(i) == OnTheClimb(p, n, f[i]) /\ f[i].r # "crash"
<1>3. Fine(0)
  <2>1. f[0] = [at |-> TypeObject(n), seen |-> {o}, r |-> "climbing"]
    BY <1>2 DEF ClimbBy
  <2>2. TypeObject(n) # Null => Place(TypeObject(n), n) /\ n \in Chain(n)
    BY <1>1, TypeObjectPlace, ChainBegins
  <2> QED BY <2>1, <2>2 DEF OnTheClimb
<1> DEFINE Bad == {i \in 0..Steps(p) + 1 : ~Fine(i)}
<1>4. Bad = {}
  <2> SUFFICES ASSUME Bad # {} PROVE FALSE
    OBVIOUS
  <2>1. PICK i \in Bad : i \in Nat /\ (i # 0 => i - 1 \in Nat /\ i - 1 \notin Bad)
    <3>1. Bad \subseteq Nat
      BY <1>1
    <3> HIDE DEF Bad
    <3> QED BY <3>1, Least
  <2>2. i \in 1..Steps(p) + 1 /\ Fine(i - 1) /\ ~Fine(i)
    BY <1>1, <1>3, <2>1
  <2>3. f[i] = Climb(p, f[i - 1])
    BY <1>2, <2>2 DEF ClimbBy
  <2> QED BY <2>2, <2>3, ClimbGoesOn, ClimbIsSafe
<1>5. Fine(Steps(p) + 1)
  BY <1>1, <1>4
<1> QED BY <1>2, <1>5 DEF ClimbBy

\* Names that lead to elementary types.
LEMMA GroundedIsFound ==
  ASSUME NamesApart, NEW n, Grounded(n)
  PROVE  TypeObject(n) # Null
<1>1. CASE n \in DOMAIN Elementary
  BY <1>1, Parts DEF TypeObject
<1>2. CASE n \in TypeNames /\ n \notin DOMAIN Elementary
  <2>1. TypeObject(n).part = "derived"
    BY <1>2, Parts DEF TypeObject
  <2> QED BY <2>1, Parts
<1>3. CASE n \notin TypeNames
  BY <1>3, <1>1, ChainEnds DEF Grounded
<1> QED BY <1>1, <1>2, <1>3

LEMMA GroundedNext ==
  ASSUME NamesApart, NEW d \in AllTypes, Grounded(d.name)
  PROVE  Grounded(d.of)
<1>1. PICK e \in Chain(d.name) : e \in DOMAIN Elementary
  BY DEF Grounded
<1>2. e # d.name /\ e \in Chain(d.of)
  BY <1>1, DeclaredName, ChainStep
<1> QED BY <1>1, <1>2 DEF Grounded

\* Each call of a climb among grounded types has seen one more of them, and
\* all that were seen come before the next.
Climbing(p, n, c, i) ==
  /\ c.r = "climbing"
  /\ c.seen \subseteq DOMAIN p.ancestor /\ Cardinality(c.seen) = i + 1
  /\ \A x \in c.seen : x.part = "derived"
  /\ \E m \in Chain(n) :
       /\ Place(c.at, m)
       /\ c.at.part = "derived" => \A x \in c.seen : \E k \in units : \E t \in Declared(k) :
                                      x = Named(k, t) /\ m \in Chain(t.of)
ClimbsOn(p, n, c, i) ==
  /\ c = [at |-> c.at, seen |-> c.seen, r |-> c.r]
  /\ c.r = "ok" \/ Climbing(p, n, c, i)

LEMMA ClimbRises ==
  ASSUME Entering, NEW p, PointersInv(p), NEW n, Ready(p, n), \A d \in AllTypes : Grounded(d.name),
         NEW i \in Nat, NEW c, ClimbsOn(p, n, c, i)
  PROVE  ClimbsOn(p, n, Climb(p, c), i + 1)
<1>1. NamesApart /\ Steps(p) \in Nat
  BY StepsAreMany DEF Entering, PointersInv
<1>2. CASE c.r = "ok"
  BY <1>2 DEF Climb, ClimbsOn
<1>3. CASE Climbing(p, n, c, i)
  <2>1. PICK m \in Chain(n) :
          /\ Place(c.at, m)
          /\ c.at.part = "derived" => \A x \in c.seen : \E k \in units : \E t \in Declared(k) :
                                         x = Named(k, t) /\ m \in Chain(t.of)
    BY <1>3 DEF Climbing
  <2>2. c.at # Null /\ c.at.part \in {"elementary", "derived", "inline"} /\ c.r = "climbing"
    BY <1>1, <1>3, <2>1, PlaceParts DEF Climbing
  <2>3. Ready(p, m)
    BY ChainIncludes DEF Ready
  <2>4. Returns(p, c.at) /\ (c.at.part # "derived" => ~IsDerived(p, c.at))
    BY <2>1, <2>3, ReadyReturns
  <2>5. CASE c.at.part # "derived"
    <3>1. c.at \notin c.seen
      BY <1>3, <2>5 DEF Climbing
    <3>2. Climb(p, c) = [c EXCEPT !.r = "ok"]
      BY <2>2, <2>4, <2>5, <3>1 DEF Climb
    <3> QED BY <3>2 DEF ClimbsOn
  <2>6. CASE c.at.part = "derived"
    <3>1. PICK l \in units : \E t \in Declared(l) : m = t.name /\ c.at = Named(l, t)
      BY <1>1, <2>1, <2>6, PlaceParts
    <3>2. PICK t \in Declared(l) : m = t.name /\ c.at = Named(l, t)
      BY <3>1
    <3>3. PointersOf(p, l, t) /\ t \in AllTypes /\ t.of \in Chain(n)
      <4>1. t \in AllTypes
        BY <1>1, UnitOfDeclared
      <4> QED BY <4>1, <3>2, ChainIsClosed DEF PointersInv, Closed
    <3>4. c.at \notin c.seen
      <4> SUFFICES ASSUME c.at \in c.seen PROVE FALSE
        OBVIOUS
      <4>1. PICK k \in units : \E u \in Declared(k) : c.at = Named(k, u) /\ m \in Chain(u.of)
        BY <2>1, <2>6
      <4>2. PICK u \in Declared(k) : c.at = Named(k, u) /\ m \in Chain(u.of)
        BY <4>1
      <4>3. u.name = m
        BY <3>2, <4>2 DEF Named, Object
      <4>4. u \in AllTypes
        BY <1>1, UnitOfDeclared
      <4> QED BY <1>1, <4>2, <4>3, <4>4, GroundedIsAcyclic
    <3> DEFINE up == IF p.ancestor[c.at] # Null THEN p.ancestor[c.at] ELSE p.parent[c.at]
    <3>5. CASE ~IsDerived(p, c.at)
      <4>1. Climb(p, c) = [c EXCEPT !.r = "ok"]
        BY <2>2, <2>4, <3>4, <3>5 DEF Climb
      <4> QED BY <4>1 DEF ClimbsOn
    <3>6. CASE IsDerived(p, c.at)
      <4>1. Climb(p, c) = [c EXCEPT !.seen = @ \union {c.at}, !.at = up]
        BY <2>2, <2>4, <2>6, <3>4, <3>6 DEF Climb
      <4>2. \E k \in Chain(n) : Place(up, k) /\ (up.part = "derived" => k = t.of)
        <5>1. CASE t.k = "subrange"
          <6>1. up = Inline(l, t)
            BY <3>2, <3>3, <5>1, Parts DEF PointersOf, Inline
          <6>2. Place(up, m) /\ up.part # "derived"
            BY <3>2, <5>1, <6>1, Parts DEF Place, Inline
          <6> QED BY <6>2
        <5>2. CASE t.k # "subrange" /\ p.ancestor[c.at] # Null
          <6>1. EndsAt(t.of, up)
            BY <3>2, <3>3, <5>2 DEF PointersOf
          <6>2. PICK k \in Chain(t.of) : Place(up, k)
            BY <1>1, <6>1, EndPlace
          <6>3. k \in Chain(n) /\ up.part # "derived"
            BY <1>1, <3>3, <6>1, <6>2, ChainIncludes, EndIsBehind
          <6> QED BY <6>2, <6>3
        <5>3. CASE t.k # "subrange" /\ p.ancestor[c.at] = Null
          <6>1. KnownType(p, l, t)
            BY <2>3, <3>2, ChainBegins DEF Ready
          <6>2. up = TypeObject(t.of)
            BY <3>2, <5>3, <6>1 DEF KnownType
          <6>3. up # Null
            BY <1>1, <3>3, <6>2, GroundedNext, GroundedIsFound
          <6>4. Place(up, t.of)
            BY <1>1, <6>2, <6>3, TypeObjectPlace
          <6> QED BY <3>3, <6>4
        <5> QED BY <5>1, <5>2, <5>3
      <4>3. PICK k \in Chain(n) : Place(up, k) /\ (up.part = "derived" => k = t.of)
        BY <4>2
      <4> DEFINE seen == c.seen \union {c.at}
      <4>4. /\ Climb(p, c) = [at |-> up, seen |-> seen, r |-> "climbing"]
        BY <2>2, <4>1 DEF ClimbsOn
      <4>5. seen \subseteq DOMAIN p.ancestor /\ Cardinality(seen) = (i + 1) + 1
        <5>1. IsFiniteSet(c.seen)
          BY <1>3, FS_Subset DEF Climbing, PointersInv
        <5>2. Cardinality(seen) = Cardinality(c.seen) + 1
          BY <3>4, <5>1, FS_AddElement
        <5>3. c.at \in DOMAIN p.ancestor
          BY <3>2, <3>3 DEF PointersOf
        <5> QED BY <1>3, <5>2, <5>3 DEF Climbing
      <4>6. \A x \in seen : x.part = "derived"
        BY <1>3, <2>6 DEF Climbing
      <4>7. ASSUME up.part = "derived", NEW x \in seen
            PROVE  \E j \in units : \E u \in Declared(j) : x = Named(j, u) /\ k \in Chain(u.of)
        <5>1. k = t.of
          BY <4>3, <4>7
        <5>2. CASE x = c.at
          BY <3>2, <5>1, <5>2, ChainBegins
        <5>3. CASE x \in c.seen
          <6>1. PICK j \in units : \E u \in Declared(j) : x = Named(j, u) /\ m \in Chain(u.of)
            BY <2>1, <2>6, <5>3
          <6>2. PICK u \in Declared(j) : x = Named(j, u) /\ m \in Chain(u.of)
            BY <6>1
          <6>3. k \in Chain(u.of)
            BY <3>2, <3>3, <5>1, <6>2, ChainIsClosed DEF Closed
          <6> QED BY <6>2, <6>3
        <5> QED BY <5>2, <5>3
      <4> HIDE DEF up, seen
      <4>8. Climbing(p, n, Climb(p, c), i + 1)
        BY <4>3, <4>4, <4>5, <4>6, <4>7 DEF Climbing
      <4> QED BY <4>4, <4>8 DEF ClimbsOn
    <3> QED BY <3>5, <3>6
  <2> QED BY <2>5, <2>6
<1> QED BY <1>2, <1>3 DEF ClimbsOn

\* It comes to the ancestor: there are more calls than types to see.
LEMMA ResolveSucceeds ==
  ASSUME Entering, NEW p, PointersInv(p), NEW l \in units, NEW d \in Declared(l), Ready(p, d.of),
         \A t \in AllTypes : Grounded(t.name)
  PROVE  ResolveAncestor(p, Named(l, d), TypeObject(d.of)).r = "ok"
<1>1. NamesApart /\ Steps(p) \in Nat /\ Steps(p) + 1 \in Nat /\ d \in AllTypes
  BY StepsAreMany, UnitOfDeclared DEF Entering, PointersInv
<1> DEFINE o == Named(l, d)
<1>2. PICK f : ClimbBy(p, o, TypeObject(d.of), f)
  BY <1>1, ClimbUnfolds
<1>3. ClimbsOn(p, d.of, f[0], 0)
  <2>1. f[0] = [at |-> TypeObject(d.of), seen |-> {o}, r |-> "climbing"]
    BY <1>2 DEF ClimbBy
  <2>2. Place(TypeObject(d.of), d.of) /\ d.of \in Chain(d.of)
    BY <1>1, GroundedNext, GroundedIsFound, TypeObjectPlace, ChainBegins
  <2>3. {o} \subseteq DOMAIN p.ancestor /\ o.part = "derived"
    BY Parts DEF PointersInv, PointersOf, Named
  <2>4. Cardinality({o}) = 0 + 1
    <3>1. Cardinality({o}) = 1
      BY FS_Singleton, Zenon
    <3> QED BY <3>1
  <2>5. Climbing(p, d.of, f[0], 0)
    <3>1. f[0].r = "climbing" /\ f[0].seen = {o} /\ f[0].at = TypeObject(d.of)
      BY <2>1
    <3>2. \A x \in {o} : \E k \in units : \E t \in Declared(k) : x = Named(k, t) /\ d.of \in Chain(t.of)
      BY <2>2
    <3> HIDE DEF o
    <3> QED BY <2>2, <2>3, <2>4, <3>1, <3>2 DEF Climbing
  <2> QED BY <2>1, <2>5 DEF ClimbsOn
<1> DEFINE Bad == {i \in 0..Steps(p) + 1 : ~ClimbsOn(p, d.of, f[i], i)}
<1>4. Bad = {}
  <2> SUFFICES ASSUME Bad # {} PROVE FALSE
    OBVIOUS
  <2>1. PICK i \in Bad : i \in Nat /\ (i # 0 => i - 1 \in Nat /\ i - 1 \notin Bad)
    <3>1. Bad \subseteq Nat
      BY <1>1
    <3> HIDE DEF Bad
    <3> QED BY <3>1, Least
  <2>2. i \in 1..Steps(p) + 1 /\ i - 1 \in Nat /\ (i - 1) + 1 = i
    BY <1>1, <1>3, <2>1
  <2>3. ClimbsOn(p, d.of, f[i - 1], i - 1) /\ ~ClimbsOn(p, d.of, f[i], i)
    BY <1>1, <2>1, <2>2
  <2>4. f[i] = Climb(p, f[i - 1])
    BY <1>2, <2>2 DEF ClimbBy
  <2> HIDE DEF Bad
  <2>5. ClimbsOn(p, d.of, f[i], (i - 1) + 1)
    BY <2>2, <2>3, <2>4, ClimbRises
  <2> QED BY <2>2, <2>3, <2>5
<1>5. ClimbsOn(p, d.of, f[Steps(p) + 1], Steps(p) + 1)
  BY <1>1, <1>4
<1> DEFINE c == f[Steps(p) + 1]
<1> HIDE DEF c
<1>6. ~Climbing(p, d.of, c, Steps(p) + 1)
  <2> SUFFICES ASSUME Climbing(p, d.of, c, Steps(p) + 1) PROVE FALSE
    OBVIOUS
  <2>1. Cardinality(c.seen) <= Cardinality(DOMAIN p.ancestor) /\ Cardinality(DOMAIN p.ancestor) \in Nat
    BY FS_Subset, FS_CardinalityType DEF Climbing, PointersInv
  <2>2. Steps(p) > Cardinality(DOMAIN p.ancestor)
    BY StepsAreMany DEF PointersInv
  <2> QED BY <1>1, <2>1, <2>2 DEF Climbing
<1>7. c.r = "ok"
  BY <1>5, <1>6 DEF ClimbsOn, c
<1> QED BY <1>2, <1>7 DEF ClimbBy, c

-----------------------------------------------------------------------------
(* The references of a unit to types *)

\* The object that refers to what a type is of.
Referrer(l, d) == IF d.k = "subrange" THEN Inline(l, d) ELSE Named(l, d)
RefersTo(ref, l, d) == ref.id = d.of /\ ref.o = Referrer(l, d)
OfGlobal(ref, l) == ref.o.part = "global" /\ \E g \in DOMAIN loads[l].globals : ref.id = loads[l].globals[g].type

LEMMA ElementsOf ==
  ASSUME NEW S, NEW s \in Seq(S)
  PROVE  Len(s) \in Nat /\ DOMAIN s = 1..Len(s) /\ \A i \in DOMAIN s : s[i] \in S
OBVIOUS

LEMMA ConcatenationOf ==
  ASSUME NEW S, NEW s \in Seq(S), NEW t \in Seq(S)
  PROVE  /\ Len(s \o t) = Len(s) + Len(t) /\ DOMAIN (s \o t) = 1..(Len(s) + Len(t))
         /\ \A k \in 1..(Len(s) + Len(t)) : (s \o t)[k] = IF k <= Len(s) THEN s[k] ELSE t[k - Len(s)]
OBVIOUS

LEMMA ReferencesOf ==
  ASSUME Entering, NEW l \in units
  PROVE  LET refs == TypeReferences(l)
         IN /\ Len(refs) \in Nat /\ DOMAIN refs = 1..Len(refs)
            /\ \A k \in DOMAIN refs : OfGlobal(refs[k], l) \/ \E d \in Declared(l) : RefersTo(refs[k], l, d)
            /\ \A d \in Declared(l) : \E k \in DOMAIN refs : RefersTo(refs[k], l, d)
            /\ \A g \in DOMAIN loads[l].globals : \E k \in DOMAIN refs :
                 refs[k].o.part = "global" /\ refs[k].id = loads[l].globals[g].type
<1> DEFINE T == loads[l].types
<1> DEFINE G == loads[l].globals
<1> DEFINE types == [i \in DOMAIN T |-> [id |-> T[i].of, o |-> Object(l, T[i].name, IF T[i].k = "subrange" THEN "inline" ELSE "derived")]]
<1> DEFINE globals == [i \in DOMAIN G |-> [id |-> G[i].type, o |-> Object(l, G[i].name, "global")]]
<1> DEFINE R == {types[i] : i \in DOMAIN T} \union {globals[i] : i \in DOMAIN G}
<1>1. T \in Seq(TypeDeclarations) /\ G \in Seq(GlobalDeclarations) /\ l \in Nat
  BY DEF Entering
<1>2. TypeReferences(l) = types \o globals
  BY DEF TypeReferences
<1>3. Declared(l) = {T[i] : i \in DOMAIN T}
  BY DEF Declared
<1> HIDE DEF T, G
<1>4. \A i \in DOMAIN T : types[i].id = T[i].of /\ types[i].o = Referrer(l, T[i])
  BY DEF Referrer, Inline, Named
<1>5. \A i \in DOMAIN G : globals[i].id = G[i].type /\ globals[i].o.part = "global"
  BY Parts
<1>6. Len(T) \in Nat /\ DOMAIN T = 1..Len(T)
  BY <1>1, ElementsOf
<1>7. Len(G) \in Nat /\ DOMAIN G = 1..Len(G)
  BY <1>1, ElementsOf
<1>8. types \in Seq(R) /\ Len(types) = Len(T)
  <2>1. types \in [1..Len(T) -> R]
    BY <1>6
  <2> HIDE DEF types, R
  <2> QED BY <1>6, <2>1
<1>9. globals \in Seq(R) /\ Len(globals) = Len(G)
  <2>1. globals \in [1..Len(G) -> R]
    BY <1>7
  <2> HIDE DEF globals, R
  <2> QED BY <1>7, <2>1
<1> HIDE DEF types, globals, R
<1> DEFINE refs == types \o globals
<1>10. /\ Len(refs) = Len(T) + Len(G) /\ DOMAIN refs = 1..(Len(T) + Len(G))
       /\ \A k \in 1..(Len(T) + Len(G)) : refs[k] = IF k <= Len(T) THEN types[k] ELSE globals[k - Len(T)]
  <2>1. types \in Seq(R) /\ globals \in Seq(R)
    BY <1>8, <1>9
  <2>2. /\ Len(refs) = Len(types) + Len(globals) /\ DOMAIN refs = 1..(Len(types) + Len(globals))
        /\ \A k \in 1..(Len(types) + Len(globals)) : refs[k] = IF k <= Len(types) THEN types[k] ELSE globals[k - Len(types)]
    BY <2>1, ConcatenationOf, Zenon
  <2>3. Len(types) = Len(T) /\ Len(globals) = Len(G)
    BY <1>8, <1>9
  <2> HIDE DEF refs
  <2> QED BY <2>2, <2>3
<1> HIDE DEF refs
<1>11. ASSUME NEW i \in DOMAIN T PROVE i \in DOMAIN refs /\ refs[i] = types[i]
  BY <1>6, <1>7, <1>10
<1>12. ASSUME NEW i \in DOMAIN G PROVE i + Len(T) \in DOMAIN refs /\ refs[i + Len(T)] = globals[i]
  <2>1. i + Len(T) \in 1..(Len(T) + Len(G)) /\ ~ (i + Len(T) <= Len(T)) /\ (i + Len(T)) - Len(T) = i
    BY <1>6, <1>7
  <2> QED BY <1>10, <2>1
<1>13. ASSUME NEW k \in DOMAIN refs
       PROVE  OfGlobal(refs[k], l) \/ \E d \in Declared(l) : RefersTo(refs[k], l, d)
  <2>1. CASE k <= Len(T)
    <3>1. k \in DOMAIN T
      BY <1>6, <1>7, <1>10, <2>1
    <3> QED BY <1>3, <1>4, <1>11, <3>1 DEF RefersTo
  <2>2. CASE ~ (k <= Len(T))
    <3>1. k - Len(T) \in DOMAIN G /\ refs[k] = globals[k - Len(T)]
      BY <1>6, <1>7, <1>10, <2>2
    <3> QED BY <1>5, <3>1 DEF OfGlobal, G
  <2> QED BY <2>1, <2>2
<1>14. \A d \in Declared(l) : \E k \in DOMAIN refs : RefersTo(refs[k], l, d)
  BY <1>3, <1>4, <1>11 DEF RefersTo
<1>15. \A g \in DOMAIN G : \E k \in DOMAIN refs : refs[k].o.part = "global" /\ refs[k].id = G[g].type
  BY <1>5, <1>12
<1>16. Len(refs) \in Nat /\ DOMAIN refs = 1..Len(refs)
  BY <1>6, <1>7, <1>10
<1> QED BY <1>2, <1>13, <1>14, <1>15, <1>16 DEF refs, G

LEMMA ReferrerIsOne ==
  ASSUME NamesApart, NEW l \in units, NEW d \in Declared(l), NEW k \in units, NEW t \in Declared(k)
  PROVE  /\ Referrer(l, d) = Referrer(k, t) => l = k /\ d = t
         /\ Referrer(l, d) = Named(k, t) => l = k /\ d = t
         /\ Referrer(l, d) = Inline(k, t) => l = k /\ d = t
         /\ Referrer(l, d).part = IF d.k = "subrange" THEN "inline" ELSE "derived"
         /\ Named(l, d).part = "derived" /\ Inline(l, d).part = "inline"
<1>1. l = k /\ d.name = t.name => d = t
  BY OneDeclaration
<1> QED BY <1>1 DEF Referrer, Named, Inline, Object

\* g is f with v for o.
Extends(f, g, o, v) ==
  DOMAIN g = DOMAIN f \union {o} /\ g[o] = v /\ \A x \in DOMAIN f : x # o => g[x] = f[x]

LEMMA ExtendedBy ==
  ASSUME NEW f, NEW o, NEW v
  PROVE  Extends(f, Extended(f, [x \in {o} |-> v]), o, v)
BY DEF Extended, Extends

-----------------------------------------------------------------------------
(* The callbacks *)

\* What changes between p and q is of o.
OnlyAt(p, q, o) ==
  /\ q = [parent |-> q.parent, ancestor |-> q.ancestor, ranged |-> q.ranged]
  /\ IsFiniteSet(DOMAIN q.ancestor) /\ IsFiniteSet(DOMAIN q.ranged)
  /\ DOMAIN p.parent \subseteq DOMAIN q.parent /\ \A x \in DOMAIN p.parent : x # o => q.parent[x] = p.parent[x]
  /\ DOMAIN p.ancestor \subseteq DOMAIN q.ancestor
  /\ \A x \in DOMAIN p.ancestor : x # o => q.ancestor[x] = p.ancestor[x]
  /\ DOMAIN p.ranged \subseteq DOMAIN q.ranged /\ \A x \in DOMAIN p.ranged : x # o => q.ranged[x] = p.ranged[x]

SamePointers(p, q, k, t) ==
  /\ q.parent[Named(k, t)] = p.parent[Named(k, t)] /\ q.ancestor[Named(k, t)] = p.ancestor[Named(k, t)]
  /\ t.k = "subrange" => q.ranged[Inline(k, t)] = p.ranged[Inline(k, t)]

\* A callback for d leaves the other types alone.
LEMMA OthersStay ==
  ASSUME Entering, NEW p, PointersInv(p), NEW l \in units, NEW d \in Declared(l),
         NEW q, OnlyAt(p, q, Referrer(l, d)), PointersOf(q, l, d)
  PROVE  /\ PointersInv(q)
         /\ \A k \in units : \A t \in Declared(k) : k # l \/ t # d => SamePointers(p, q, k, t)
<1>1. ASSUME NEW k \in units, NEW t \in Declared(k), k # l \/ t # d
      PROVE  SamePointers(p, q, k, t) /\ PointersOf(q, k, t)
  <2>1. Named(k, t) # Referrer(l, d) /\ Inline(k, t) # Referrer(l, d)
    BY <1>1, ReferrerIsOne DEF Entering
  <2>2. PointersOf(p, k, t)
    BY DEF PointersInv
  <2>3. SamePointers(p, q, k, t)
    BY <2>1, <2>2 DEF OnlyAt, SamePointers, PointersOf
  <2>4. PointersOf(q, k, t)
    BY <2>1, <2>2, <2>3 DEF OnlyAt, SamePointers, PointersOf
  <2> QED BY <2>3, <2>4
<1>2. \A k \in units : \A t \in Declared(k) : PointersOf(q, k, t)
  BY <1>1
<1> QED BY <1>1, <1>2 DEF PointersInv, OnlyAt

LEMMA KnownIsOfPointers ==
  ASSUME NEW p, NEW q, NEW k, NEW t, SamePointers(p, q, k, t)
  PROVE  KnownType(q, k, t) <=> KnownType(p, k, t)
BY DEF SamePointers, KnownType

\* The pointers after a callback for the reference of d, or of a variable.
AfterOne(p, q, l, ref) ==
  /\ PointersInv(q)
  /\ \A k \in units : \A t \in Declared(k) : ~RefersTo(ref, k, t) => SamePointers(p, q, k, t)
  /\ \A k \in units : \A t \in Declared(k) : RefersTo(ref, k, t) => k = l

\* A subrange is told what it is of.
LEMMA SubrangedKnown ==
  ASSUME Entering, NEW p, PointersInv(p), NEW l \in units, NEW d \in Declared(l), d.k = "subrange",
         NEW ranged, Extends(p.ranged, ranged, Inline(l, d), TypeObject(d.of)),
         NEW q, q = [parent |-> p.parent, ancestor |-> p.ancestor, ranged |-> ranged]
  PROVE  OnlyAt(p, q, Referrer(l, d)) /\ PointersOf(q, l, d) /\ KnownType(q, l, d)
<1>1. IsFiniteSet(DOMAIN p.ranged \union {Inline(l, d)}) /\ IsFiniteSet(DOMAIN p.ancestor)
  BY FS_AddElement DEF PointersInv
<1>2. q.parent = p.parent /\ q.ancestor = p.ancestor /\ q.ranged = ranged
  OBVIOUS
<1>3. Inline(l, d) = Referrer(l, d) /\ PointersOf(p, l, d)
  BY DEF Referrer, PointersInv
<1>4. OnlyAt(p, q, Inline(l, d))
  BY <1>1, <1>2 DEF OnlyAt, Extends
<1>5. PointersOf(q, l, d) /\ KnownType(q, l, d)
  BY <1>2, <1>3 DEF PointersOf, KnownType, Extends
<1> QED BY <1>3, <1>4, <1>5

\* Another derived type is told its parent.
LEMMA ParentKnown ==
  ASSUME Entering, NEW p, PointersInv(p), NEW l \in units, NEW d \in Declared(l), d.k # "subrange",
         NEW parent, Extends(p.parent, parent, Named(l, d), TypeObject(d.of)),
         NEW ancestor, Extends(p.ancestor, ancestor, Named(l, d), Null),
         NEW q, q = [parent |-> parent, ancestor |-> ancestor, ranged |-> p.ranged]
  PROVE  OnlyAt(p, q, Referrer(l, d)) /\ PointersOf(q, l, d) /\ KnownType(q, l, d)
<1>1. IsFiniteSet(DOMAIN p.ancestor \union {Named(l, d)}) /\ IsFiniteSet(DOMAIN p.ranged)
  BY FS_AddElement DEF PointersInv
<1>2. q.parent = parent /\ q.ancestor = ancestor /\ q.ranged = p.ranged
  OBVIOUS
<1>3. Named(l, d) = Referrer(l, d) /\ PointersOf(p, l, d)
  BY DEF Referrer, PointersInv
<1>4. OnlyAt(p, q, Named(l, d))
  BY <1>1, <1>2 DEF OnlyAt, Extends
<1>5. PointersOf(q, l, d) /\ KnownType(q, l, d)
  BY <1>2, <1>3 DEF PointersOf, KnownType, Extends
<1> QED BY <1>3, <1>4, <1>5

\* First sweep: the name of a type is known, and that of a variable looked up.
LEMMA FirstCall ==
  ASSUME Entering, NEW l \in units, NEW ref, NEW p, PointersInv(p),
         OfGlobal(ref, l) \/ \E d \in Declared(l) : RefersTo(ref, l, d)
  PROVE  LET after == FirstSweep(p, ref.o, TypeObject(ref.id))
         IN /\ AfterOne(p, after.p, l, ref)
            /\ \A t \in Declared(l) : RefersTo(ref, l, t) => KnownType(after.p, l, t)
            /\ after = Result(after.r, after.p)
            /\ after.r = IF ref.o.part = "global" /\ TypeObject(ref.id) = Null THEN "error" ELSE "ok"
<1>1. NamesApart
  BY DEF Entering
<1> DEFINE after == FirstSweep(p, ref.o, TypeObject(ref.id))
<1>2. CASE OfGlobal(ref, l)
  <2>1. after = Result(IF TypeObject(ref.id) = Null THEN "error" ELSE "ok", p)
    BY <1>2 DEF FirstSweep, OfGlobal
  <2>2. \A k \in units : \A t \in Declared(k) : ~RefersTo(ref, k, t)
    BY <1>1, <1>2, ReferrerIsOne DEF RefersTo, OfGlobal
  <2>3. \A k \in units : \A t \in Declared(k) : SamePointers(p, p, k, t)
    BY DEF SamePointers
  <2> QED BY <1>2, <2>1, <2>2, <2>3 DEF AfterOne, Result, OfGlobal
<1>3. ASSUME NEW d \in Declared(l), RefersTo(ref, l, d)
      PROVE  /\ AfterOne(p, after.p, l, ref)
             /\ \A t \in Declared(l) : RefersTo(ref, l, t) => KnownType(after.p, l, t)
             /\ after = Result(after.r, after.p)
             /\ after.r = IF ref.o.part = "global" /\ TypeObject(ref.id) = Null THEN "error" ELSE "ok"
  <2>1. /\ ref.o = Referrer(l, d) /\ ref.id = d.of
        /\ ref.o.part = IF d.k = "subrange" THEN "inline" ELSE "derived"
    BY <1>1, <1>3, ReferrerIsOne DEF RefersTo
  <2>2. after.r = "ok" /\ after = Result("ok", after.p)
    BY <2>1 DEF FirstSweep, NameResolved, Result
  <2>3. OnlyAt(p, after.p, Referrer(l, d)) /\ PointersOf(after.p, l, d) /\ KnownType(after.p, l, d)
    <3>1. CASE d.k = "subrange"
      <4> DEFINE ranged == Extended(p.ranged, [x \in {Inline(l, d)} |-> TypeObject(d.of)])
      <4>1. after.p = [p EXCEPT !.ranged = ranged]
        BY <2>1, <3>1 DEF FirstSweep, NameResolved, Result, Referrer
      <4>2. Extends(p.ranged, ranged, Inline(l, d), TypeObject(d.of))
        BY ExtendedBy, Zenon
      <4> HIDE DEF after, ranged
      <4>3. after.p = [parent |-> p.parent, ancestor |-> p.ancestor, ranged |-> ranged]
        BY <4>1 DEF PointersInv
      <4> QED BY <3>1, <4>2, <4>3, SubrangedKnown
    <3>2. CASE d.k # "subrange"
      <4> DEFINE parent == Extended(p.parent, [x \in {Named(l, d)} |-> TypeObject(d.of)])
      <4> DEFINE ancestor == Extended(p.ancestor, [x \in {Named(l, d)} |-> Null])
      <4>1. after.p = [p EXCEPT !.parent = parent, !.ancestor = ancestor]
        BY <2>1, <3>2 DEF FirstSweep, NameResolved, Result, Referrer
      <4>2. Extends(p.parent, parent, Named(l, d), TypeObject(d.of))
        BY ExtendedBy, Zenon
      <4>3. Extends(p.ancestor, ancestor, Named(l, d), Null)
        BY ExtendedBy, Zenon
      <4> HIDE DEF after, parent, ancestor
      <4>4. after.p = [parent |-> parent, ancestor |-> ancestor, ranged |-> p.ranged]
        BY <4>1 DEF PointersInv
      <4> QED BY <3>2, <4>2, <4>3, <4>4, ParentKnown
    <3> QED BY <3>1, <3>2
  <2> HIDE DEF after
  <2>4. \A k \in units : \A t \in Declared(k) : RefersTo(ref, k, t) <=> k = l /\ t = d
    BY <1>1, <1>3, ReferrerIsOne DEF RefersTo
  <2>5. AfterOne(p, after.p, l, ref)
    BY <2>3, <2>4, OthersStay DEF AfterOne
  <2>6. ref.o.part # "global"
    BY <2>1
  <2> QED BY <2>2, <2>3, <2>4, <2>5, <2>6
<1> QED BY <1>2, <1>3

\* What the second sweep leaves of a type when it finds it in order.
Settled(p, l, d) ==
  IF d.k = "subrange"
  THEN TypeObject(d.of) # Null /\ p.ranged[Inline(l, d)] = TypeObject(d.of) /\ NumbersFit(d)
  ELSE EndsAt(d.of, p.ancestor[Named(l, d)])

LEMMA SettledIsOfPointers ==
  ASSUME NEW p, NEW q, NEW k, NEW t, SamePointers(p, q, k, t)
  PROVE  Settled(q, k, t) <=> Settled(p, k, t)
BY DEF SamePointers, Settled

KnownUpTo(p, l) == \A k \in units : \A t \in Declared(k) : k <= l => KnownType(p, k, t)

\* In files that keep to the order of the pools, the names of a type are in
\* units whose types are known.
LEMMA OrderedIsReady ==
  ASSUME Entering, Ordered, NEW l \in units, NEW d \in Declared(l), NEW p, KnownUpTo(p, l)
  PROVE  Ready(p, d.of)
<1>1. NamesApart /\ units \subseteq Nat /\ d \in AllTypes
  BY UnitOfDeclared DEF Entering
<1> DEFINE S == {n \in Mentioned : n \in TypeNames => UnitOf(n, "types") <= l}
<1>2. d.of \in S
  BY <1>1 DEF Ordered, Mentioned
<1>3. Closed(S)
  <2> SUFFICES ASSUME NEW e \in AllTypes, e.name \in S, e.of \in TypeNames
               PROVE  UnitOf(e.of, "types") <= l
    BY DEF Closed, Mentioned
  <2>1. PICK k \in units : e \in Declared(k)
    BY DEF AllTypes
  <2>2. UnitOf(e.name, "types") = k /\ e.name \in TypeNames
    BY <1>1, <2>1, UnitOfDeclared, DeclaredName
  <2>3. UnitOf(e.of, "types") <= k
    BY <2>1 DEF Ordered
  <2>4. UnitOf(e.of, "types") \in units
    BY <1>1, DeclarationOf
  <2>5. k <= l
    BY <2>2
  <2>6. k \in Nat /\ l \in Nat /\ UnitOf(e.of, "types") \in Nat
    BY <1>1, <2>4
  <2> DEFINE u == UnitOf(e.of, "types")
  <2> HIDE DEF S, u
  <2>7. u \in Nat /\ u <= k
    BY <2>3, <2>6 DEF u
  <2>8. u <= l
    BY <2>5, <2>6, <2>7
  <2> QED BY <2>8 DEF u
<1>4. Chain(d.of) \subseteq S
  <2> HIDE DEF S
  <2> QED BY <1>2, <1>3, ChainInduct
<1> SUFFICES ASSUME NEW k \in units, NEW t \in Declared(k), t.name \in Chain(d.of)
             PROVE  KnownType(p, k, t) /\ (t.k = "subrange" => t.of \in DOMAIN Elementary)
  BY DEF Ready
<1>5. t.name \in TypeNames /\ UnitOf(t.name, "types") = k
  BY <1>1, UnitOfDeclared, DeclaredName
<1>6. k <= l
  BY <1>4, <1>5
<1> QED BY <1>6 DEF KnownUpTo, Ordered

\* A derived type is told its ancestor.
LEMMA AncestorKnown ==
  ASSUME Entering, NEW p, PointersInv(p), NEW l \in units, NEW d \in Declared(l), d.k # "subrange",
         NEW x, EndsAt(d.of, x), NEW ancestor, Extends(p.ancestor, ancestor, Named(l, d), x),
         NEW q, q = [parent |-> p.parent, ancestor |-> ancestor, ranged |-> p.ranged]
  PROVE  OnlyAt(p, q, Referrer(l, d)) /\ PointersOf(q, l, d) /\ Settled(q, l, d)
<1>1. IsFiniteSet(DOMAIN p.ancestor \union {Named(l, d)}) /\ IsFiniteSet(DOMAIN p.ranged)
  BY FS_AddElement DEF PointersInv
<1>2. q.parent = p.parent /\ q.ancestor = ancestor /\ q.ranged = p.ranged
  OBVIOUS
<1>3. Named(l, d) = Referrer(l, d) /\ PointersOf(p, l, d)
  BY DEF Referrer, PointersInv
<1>4. OnlyAt(p, q, Named(l, d))
  BY <1>1, <1>2 DEF OnlyAt, Extends
<1>5. PointersOf(q, l, d) /\ Settled(q, l, d)
  BY <1>2, <1>3 DEF PointersOf, Settled, Extends
<1> QED BY <1>3, <1>4, <1>5

TypesMean == \A d \in AllTypes : Grounded(d.name) /\ (d.k = "subrange" => d.range \subseteq Numbers(d.of))

\* A call on an elementary type stays there.
LEMMA ElementaryHolds ==
  ASSUME NamesApart, NEW p, Steps(p) \in Nat, NEW e \in DOMAIN Elementary
  PROVE  /\ Returns(p, TypeObject(e))
         /\ \A v \in Numbers(e) : Holds(p, TypeObject(e), v)
<1> DEFINE o == TypeObject(e)
<1>1. o = ElementaryTypes[e] /\ o.part = "elementary" /\ o.name = e
  BY Parts DEF TypeObject
<1> HIDE DEF o
<1>2. 0 \in 0..Steps(p) /\ Steps(p) \in 0..Steps(p) /\ Walk(p, o)[0] = o
  BY WalkSteps
<1>3. \A j \in 0..Steps(p) : Walk(p, o)[j] = o
  BY <1>1, <1>2, WalkRests
<1>4. Returns(p, o)
  BY <1>1, <1>2, <1>3 DEF Returns
<1>5. \A v \in Numbers(e) : v \in Elementary[e]
  <2>1. e = CHOOSE f \in Chain(e) : f \in DOMAIN Elementary
    BY ElementaryChain
  <2> QED BY <2>1 DEF Numbers
<1>6. ASSUME NEW v \in Numbers(e) PROVE Holds(p, o, v)
  BY <1>1, <1>2, <1>3, <1>5 DEF Holds
<1> QED BY <1>4, <1>6 DEF o

\* The second sweep of a unit whose types are known.
SecondAfter(p, l, ref, after) ==
  /\ after = Result(after.r, after.p)
  /\ AfterOne(p, after.p, l, ref)
  /\ after.p.parent = p.parent /\ after.p.ranged = p.ranged
  /\ after.r = "ok" => \A t \in Declared(l) : RefersTo(ref, l, t) => Settled(after.p, l, t)
  /\ Ordered /\ KnownUpTo(p, l) => after.r # "crash"
  /\ Ordered /\ KnownUpTo(p, l) /\ TypesMean => after.r = "ok"

LEMMA NothingAfter ==
  ASSUME Entering, NEW l \in units, NEW ref, NEW p, PointersInv(p),
         OfGlobal(ref, l) \/ \E d \in Declared(l) : RefersTo(ref, l, d)
  PROVE  AfterOne(p, p, l, ref)
<1>1. \A k \in units : \A t \in Declared(k) : RefersTo(ref, k, t) => k = l
  BY ReferrerIsOne DEF RefersTo, OfGlobal, Entering
<1>2. \A k \in units : \A t \in Declared(k) : SamePointers(p, p, k, t)
  BY DEF SamePointers
<1> QED BY <1>1, <1>2 DEF AfterOne

LEMMA SecondOfSubrange ==
  ASSUME Entering, NEW l \in units, NEW p, PointersInv(p), NEW d \in Declared(l), d.k = "subrange",
         NEW ref, RefersTo(ref, l, d), KnownType(p, l, d)
  PROVE  SecondAfter(p, l, ref, SecondSweep(p, ref.o, TypeObject(ref.id)))
<1> DEFINE o == Inline(l, d)
<1> DEFINE after == RangeChecked(p, o)
<1>1. NamesApart /\ Steps(p) \in Nat /\ d \in AllTypes
  BY StepsAreMany, UnitOfDeclared DEF Entering, PointersInv
<1>2. ref.o = o /\ o.part = "inline"
  BY Parts DEF RefersTo, Referrer, Inline
<1>3. SecondSweep(p, ref.o, TypeObject(ref.id)) = after
  <2> HIDE DEF after, o
  <2> QED BY <1>2 DEF SecondSweep, after
<1>4. p.ranged[o] = TypeObject(d.of) /\ Declaration(o) = d
  BY <1>1, PlaceIsOne DEF KnownType
<1> HIDE DEF o
<1>5. after = Result(after.r, p) /\ after.p = p
  BY DEF RangeChecked, Result
<1>6. AfterOne(p, p, l, ref)
  BY NothingAfter
<1>7. ASSUME after.r = "ok" PROVE \A t \in Declared(l) : RefersTo(ref, l, t) => Settled(p, l, t)
  <2>1. TypeObject(d.of) # Null /\ Returns(p, TypeObject(d.of)) /\ \A v \in d.range : Holds(p, TypeObject(d.of), v)
    BY <1>4, <1>7 DEF RangeChecked, Result
  <2>2. NumbersFit(d)
    BY <2>1, RangeFits
  <2>3. Settled(p, l, d)
    BY <1>4, <2>1, <2>2 DEF Settled, o
  <2>4. ASSUME NEW t \in Declared(l), RefersTo(ref, l, t) PROVE t = d
    <3>1. Referrer(l, t) = Referrer(l, d)
      BY <2>4 DEF RefersTo
    <3> QED BY <1>1, <3>1, ReferrerIsOne
  <2> QED BY <2>3, <2>4
<1>8. ASSUME Ordered PROVE after.r # "crash" /\ (TypesMean => after.r = "ok")
  <2>1. d.of \in DOMAIN Elementary
    BY <1>8 DEF Ordered
  <2>2. TypeObject(d.of) # Null
    BY <2>1, Parts DEF TypeObject
  <2>3. Returns(p, TypeObject(d.of)) /\ \A v \in Numbers(d.of) : Holds(p, TypeObject(d.of), v)
    BY <1>1, <2>1, ElementaryHolds
  <2>4. TypesMean => d.range \subseteq Numbers(d.of)
    BY <1>1 DEF TypesMean
  <2> QED BY <1>4, <2>2, <2>3, <2>4 DEF RangeChecked, Result
<1> HIDE DEF after
<1> QED BY <1>3, <1>5, <1>6, <1>7, <1>8 DEF SecondAfter

LEMMA SecondOfDerived ==
  ASSUME Entering, NEW l \in units, NEW p, PointersInv(p), NEW d \in Declared(l), d.k # "subrange",
         NEW ref, RefersTo(ref, l, d)
  PROVE  SecondAfter(p, l, ref, SecondSweep(p, ref.o, TypeObject(ref.id)))
<1> DEFINE o == Named(l, d)
<1> DEFINE c == ResolveAncestor(p, o, TypeObject(d.of))
<1> DEFINE after == AncestorResolved(p, o, TypeObject(d.of))
<1> DEFINE ancestor == Extended(p.ancestor, [x \in {o} |-> c.at])
<1>1. NamesApart /\ Steps(p) \in Nat
  BY StepsAreMany DEF Entering, PointersInv
<1>2. ref.o = o /\ o.part = "derived" /\ ref.id = d.of
  BY Parts DEF RefersTo, Referrer, Named
<1>3. SecondSweep(p, ref.o, TypeObject(ref.id)) = after
  <2> HIDE DEF after, o
  <2> QED BY <1>2 DEF SecondSweep, after
<1>4. c.r = "ok" => EndsAt(d.of, c.at)
  BY ClimbFinds
<1>5. Extends(p.ancestor, ancestor, o, c.at)
  <2> HIDE DEF o, c
  <2> QED BY ExtendedBy, Zenon
<1>6. Ordered /\ KnownUpTo(p, l) => c.r # "crash" /\ (TypesMean => c.r = "ok")
  <2> SUFFICES ASSUME Ordered, KnownUpTo(p, l) PROVE c.r # "crash" /\ (TypesMean => c.r = "ok")
    OBVIOUS
  <2>1. Ready(p, d.of)
    BY OrderedIsReady
  <2>2. c.r # "crash"
    BY <2>1, ResolveIsSafe
  <2>3. TypesMean => c.r = "ok"
    BY <2>1, ResolveSucceeds DEF TypesMean
  <2> QED BY <2>2, <2>3
<1>7. after = IF c.r = "ok" THEN Result("ok", [p EXCEPT !.ancestor = ancestor]) ELSE Result(c.r, p)
  BY DEF AncestorResolved
<1> HIDE DEF after, c, ancestor
<1>8. CASE c.r = "ok"
  <2>1. after.r = "ok" /\ after.p = [parent |-> p.parent, ancestor |-> ancestor, ranged |-> p.ranged]
    BY <1>7, <1>8 DEF Result, PointersInv
  <2>2. OnlyAt(p, after.p, Referrer(l, d)) /\ PointersOf(after.p, l, d) /\ Settled(after.p, l, d)
    BY <1>4, <1>5, <1>8, <2>1, AncestorKnown
  <2>3. \A k \in units : \A t \in Declared(k) : RefersTo(ref, k, t) <=> k = l /\ t = d
    BY <1>1, ReferrerIsOne DEF RefersTo
  <2>4. AfterOne(p, after.p, l, ref)
    BY <2>2, <2>3, OthersStay DEF AfterOne
  <2>5. after = Result(after.r, after.p) /\ after.p.parent = p.parent /\ after.p.ranged = p.ranged
    BY <1>7, <1>8, <2>1 DEF Result
  <2> QED BY <1>3, <2>1, <2>2, <2>3, <2>4, <2>5 DEF SecondAfter
<1>9. CASE c.r # "ok"
  <2>1. after = Result(after.r, after.p) /\ after.r = c.r /\ after.p = p
    BY <1>7, <1>9 DEF Result
  <2>2. AfterOne(p, p, l, ref)
    BY NothingAfter
  <2> QED BY <1>3, <1>6, <1>9, <2>1, <2>2 DEF SecondAfter
<1> QED BY <1>8, <1>9

LEMMA SecondCall ==
  ASSUME Entering, NEW l \in units, NEW ref, NEW p, PointersInv(p),
         OfGlobal(ref, l) \/ \E d \in Declared(l) : RefersTo(ref, l, d),
         \A t \in Declared(l) : KnownType(p, l, t)
  PROVE  SecondAfter(p, l, ref, SecondSweep(p, ref.o, TypeObject(ref.id)))
<1>1. CASE OfGlobal(ref, l)
  <2>1. SecondSweep(p, ref.o, TypeObject(ref.id)) = Result("ok", p)
    BY <1>1 DEF SecondSweep, OfGlobal
  <2>2. \A t \in Declared(l) : ~RefersTo(ref, l, t)
    BY <1>1, ReferrerIsOne DEF RefersTo, OfGlobal, Entering
  <2>3. AfterOne(p, p, l, ref)
    BY NothingAfter
  <2> QED BY <2>1, <2>2, <2>3 DEF SecondAfter, Result
<1>2. ASSUME NEW d \in Declared(l), RefersTo(ref, l, d)
      PROVE  SecondAfter(p, l, ref, SecondSweep(p, ref.o, TypeObject(ref.id)))
  BY <1>2, SecondOfSubrange, SecondOfDerived
<1> QED BY <1>1, <1>2

-----------------------------------------------------------------------------
(* The sweeps *)

LEMMA FirstOfIsLeft ==
  ASSUME NEW refs, Len(refs) \in Nat, DOMAIN refs = 1..Len(refs),
         NEW left, left \subseteq DOMAIN refs, left # {}
  PROVE  FirstOf(refs, left) \in left
<1>1. ASSUME NEW k \in left PROVE Entry(refs, k) \in Nat
  <2> DEFINE E == {j \in DOMAIN refs : refs[j].id = refs[k].id}
  <2>1. E \subseteq Nat /\ E # {}
    OBVIOUS
  <2> HIDE DEF E
  <2>2. Min(E) \in E
    BY <2>1, MinIsLeast
  <2> QED BY <2>1, <2>2 DEF Entry, E
<1> DEFINE Entries == {Entry(refs, k) : k \in left}
<1>2. Min(Entries) \in Entries
  <2>1. Entries \subseteq Nat /\ Entries # {}
    BY <1>1
  <2> HIDE DEF Entries
  <2> QED BY <2>1, MinIsLeast
<1> DEFINE least == Min(Entries)
<1> DEFINE F == {k \in left : Entry(refs, k) = least}
<1>3. F \subseteq Nat /\ F # {} /\ F \subseteq left
  <2>1. \E k \in left : Entry(refs, k) = least
    BY <1>2
  <2> HIDE DEF least
  <2> QED BY <2>1
<1>4. FirstOf(refs, left) = Min(F)
  BY DEF FirstOf
<1> HIDE DEF F
<1> QED BY <1>3, <1>4, MinIsLeast

\* What is left after n calls, and the call that is next.
LeftAfter(refs, v, n) ==
  /\ v[n] = [left |-> v[n].left, done |-> v[n].done]
  /\ v[n].left \subseteq DOMAIN refs /\ Cardinality(v[n].left) = Len(refs) - n
CallAt(sweep, refs, v, n) ==
  \E k \in v[n - 1].left :
    v[n].left = v[n - 1].left \ {k} /\ v[n].done = CalledBack(v[n - 1].done, sweep, refs[k])

\* Every referrer is called, and called once.
LEMMA SweepCovers ==
  ASSUME NEW from, NEW sweep, NEW refs, Len(refs) \in Nat, DOMAIN refs = 1..Len(refs),
         NEW v, VisitBy(from, sweep, refs, v)
  PROVE  /\ \A n \in 1..Len(refs) : CallAt(sweep, refs, v, n)
         /\ v[0].left = DOMAIN refs /\ v[0].done = from
         /\ v[Len(refs)].left = {} /\ Swept(from, sweep, refs) = v[Len(refs)].done
<1> DEFINE N == Len(refs)
<1>1. v[0] = [left |-> DOMAIN refs, done |-> from]
  BY DEF VisitBy
<1>2. IsFiniteSet(DOMAIN refs) /\ Cardinality(DOMAIN refs) = N
  <2>1. IsFiniteSet(1..N) /\ Cardinality(1..N) = IF 1 > N THEN 0 ELSE N - 1 + 1
    <3>1. 1 \in Int /\ N \in Int
      OBVIOUS
    <3> HIDE DEF N
    <3> QED BY <3>1, FS_Interval
  <2>2. (IF 1 > N THEN 0 ELSE N - 1 + 1) = N
    OBVIOUS
  <2> QED BY <2>1, <2>2
<1>3. LeftAfter(refs, v, 0)
  BY <1>1, <1>2 DEF LeftAfter
<1>4. ASSUME NEW n \in 1..N, LeftAfter(refs, v, n - 1)
      PROVE  LeftAfter(refs, v, n) /\ CallAt(sweep, refs, v, n)
  <2> DEFINE left == v[n - 1].left
  <2> DEFINE k == FirstOf(refs, left)
  <2>1. IsFiniteSet(left) /\ left \subseteq DOMAIN refs /\ Cardinality(left) = N - (n - 1)
    BY <1>2, <1>4, FS_Subset DEF LeftAfter
  <2>2. left # {}
    <3> SUFFICES ASSUME left = {} PROVE FALSE
      OBVIOUS
    <3>1. Cardinality(left) = 0
      BY FS_EmptySet
    <3> QED BY <2>1, <3>1
  <2>3. v[n] = Visit(v[n - 1], sweep, refs)
    BY DEF VisitBy
  <2>4. v[n] = [left |-> left \ {k}, done |-> CalledBack(v[n - 1].done, sweep, refs[k])]
    BY <2>3 DEF Visit
  <2> HIDE DEF left, k
  <2>5. k \in left
    BY <2>1, <2>2, FirstOfIsLeft DEF k
  <2>6. Cardinality(left \ {k}) = N - n
    <3>1. Cardinality(left \ {k}) = Cardinality(left) - 1
      BY <2>1, <2>5, FS_RemoveElement
    <3> QED BY <2>1, <3>1
  <2>7. v[n].left = left \ {k} /\ v[n].done = CalledBack(v[n - 1].done, sweep, refs[k])
    BY <2>4
  <2>8. CallAt(sweep, refs, v, n)
    BY <2>5, <2>7 DEF CallAt, left
  <2> QED BY <2>1, <2>4, <2>6, <2>7, <2>8 DEF LeftAfter
<1> DEFINE Bad == {n \in 0..N : ~LeftAfter(refs, v, n)}
<1>5. Bad = {}
  <2> SUFFICES ASSUME Bad # {} PROVE FALSE
    OBVIOUS
  <2>1. PICK n \in Bad : n \in Nat /\ (n # 0 => n - 1 \in Nat /\ n - 1 \notin Bad)
    <3>1. Bad \subseteq Nat
      OBVIOUS
    <3> HIDE DEF Bad
    <3> QED BY <3>1, Least
  <2>2. n \in 1..N /\ LeftAfter(refs, v, n - 1) /\ ~LeftAfter(refs, v, n)
    BY <1>3, <2>1
  <2> QED BY <1>4, <2>2
<1>6. \A n \in 0..N : LeftAfter(refs, v, n)
  BY <1>5
<1>7. \A n \in 1..N : CallAt(sweep, refs, v, n)
  <2> SUFFICES ASSUME NEW n \in 1..N PROVE CallAt(sweep, refs, v, n)
    OBVIOUS
  <2>1. n - 1 \in 0..N
    OBVIOUS
  <2> QED BY <1>4, <1>6, <2>1
<1>8. v[N].left = {}
  <2>1. v[N].left \subseteq DOMAIN refs /\ Cardinality(v[N].left) = 0
    <3>1. LeftAfter(refs, v, N) /\ N - N = 0
      BY <1>6
    <3> QED BY <3>1 DEF LeftAfter
  <2> QED BY <1>2, <2>1, FS_Subset, FS_EmptySet
<1> QED BY <1>1, <1>7, <1>8 DEF VisitBy

\* A sweep of a unit leaves the types of others alone.
Keeps(p, q, l) ==
  PointersInv(q) /\ \A k \in units : k # l => \A t \in Declared(k) : SamePointers(p, q, k, t)

LEMMA KeepsStep ==
  ASSUME NEW p, NEW q, NEW l, Keeps(p, q, l), NEW s, NEW ref, AfterOne(q, s, l, ref)
  PROVE  Keeps(p, s, l)
<1>1. ASSUME NEW k \in units, k # l, NEW t \in Declared(k)
      PROVE  SamePointers(p, s, k, t)
  <2>1. SamePointers(p, q, k, t) /\ SamePointers(q, s, k, t)
    BY <1>1 DEF Keeps, AfterOne
  <2> QED BY <2>1 DEF SamePointers
<1> QED BY <1>1 DEF Keeps, AfterOne

LEMMA CalledBackIs ==
  ASSUME Entering, NEW done, done.r # "crash", NEW ref
  PROVE  /\ CalledBack(done, 1, ref) =
              LET after == FirstSweep(done.p, ref.o, TypeObject(ref.id))
              IN IF after.r = "ok" THEN Result(done.r, after.p) ELSE after
         /\ CalledBack(done, 2, ref) =
              LET after == SecondSweep(done.p, ref.o, TypeObject(ref.id))
              IN IF after.r = "ok" THEN Result(done.r, after.p) ELSE after
<1>1. Target(tables.types, ref.id) = TypeObject(ref.id)
  BY TargetIs
<1> QED BY <1>1 DEF CalledBack

\* While a unit is swept first.
FirstSweeping(from, l, refs, v) ==
  /\ v.done = Result(v.done.r, v.done.p) /\ v.done.r # "crash"
  /\ Keeps(from.p, v.done.p, l)
  /\ \A j \in DOMAIN refs \ v.left : \A t \in Declared(l) :
       RefersTo(refs[j], l, t) => KnownType(v.done.p, l, t)
  /\ v.done.r = "ok" <=>
       /\ from.r = "ok"
       /\ \A j \in DOMAIN refs \ v.left : refs[j].o.part = "global" => TypeObject(refs[j].id) # Null

LEMMA FirstSweepStep ==
  ASSUME Entering, NEW l \in units, NEW refs,
         \A k \in DOMAIN refs : OfGlobal(refs[k], l) \/ \E d \in Declared(l) : RefersTo(refs[k], l, d),
         NEW from, NEW v, FirstSweeping(from, l, refs, v), v.left \subseteq DOMAIN refs,
         NEW k \in v.left, NEW w, w.left = v.left \ {k}, w.done = CalledBack(v.done, 1, refs[k])
  PROVE  FirstSweeping(from, l, refs, w)
<1> DEFINE ref == refs[k]
<1> DEFINE after == FirstSweep(v.done.p, ref.o, TypeObject(ref.id))
<1>1. PointersInv(v.done.p)
  BY DEF FirstSweeping, Keeps
<1>2. /\ AfterOne(v.done.p, after.p, l, ref)
      /\ \A t \in Declared(l) : RefersTo(ref, l, t) => KnownType(after.p, l, t)
      /\ after = Result(after.r, after.p)
      /\ after.r = IF ref.o.part = "global" /\ TypeObject(ref.id) = Null THEN "error" ELSE "ok"
  BY <1>1, FirstCall
<1>3. w.done = IF after.r = "ok" THEN Result(v.done.r, after.p) ELSE after
  BY CalledBackIs DEF FirstSweeping
<1>4. DOMAIN refs \ w.left = (DOMAIN refs \ v.left) \union {k}
  OBVIOUS
<1> HIDE DEF after
<1>5. w.done.p = after.p /\ w.done.r = (IF after.r = "ok" THEN v.done.r ELSE after.r) /\ w.done = Result(w.done.r, w.done.p)
  BY <1>2, <1>3 DEF Result
<1>6. w.done.r # "crash"
  BY <1>2, <1>5 DEF FirstSweeping
<1>7. Keeps(from.p, w.done.p, l)
  BY <1>2, <1>5, KeepsStep DEF FirstSweeping
<1>8. ASSUME NEW j \in DOMAIN refs \ w.left, NEW t \in Declared(l), RefersTo(refs[j], l, t)
      PROVE  KnownType(w.done.p, l, t)
  <2>1. CASE RefersTo(ref, l, t)
    BY <1>2, <1>5, <2>1
  <2>2. CASE ~RefersTo(ref, l, t)
    <3>1. j # k
      BY <1>8, <2>2
    <3>2. KnownType(v.done.p, l, t)
      BY <1>4, <1>8, <3>1 DEF FirstSweeping
    <3>3. SamePointers(v.done.p, after.p, l, t)
      BY <1>2, <2>2 DEF AfterOne
    <3> QED BY <1>5, <3>2, <3>3, KnownIsOfPointers
  <2> QED BY <2>1, <2>2
<1>9. w.done.r = "ok" <=>
        /\ from.r = "ok"
        /\ \A j \in DOMAIN refs \ w.left : refs[j].o.part = "global" => TypeObject(refs[j].id) # Null
  <2>1. w.done.r = "ok" <=> v.done.r = "ok" /\ (ref.o.part = "global" => TypeObject(ref.id) # Null)
    BY <1>2, <1>5
  <2> QED BY <1>4, <2>1 DEF FirstSweeping
<1> QED BY <1>5, <1>6, <1>7, <1>8, <1>9 DEF FirstSweeping

\* The types of a unit are known after it, and its variables looked up.
LEMMA FirstSweepOf ==
  ASSUME Entering, NEW l \in units, NEW from, from = Result(from.r, from.p), from.r # "crash", PointersInv(from.p)
  PROVE  LET to == Swept(from, 1, TypeReferences(l))
         IN /\ to = Result(to.r, to.p) /\ to.r # "crash"
            /\ Keeps(from.p, to.p, l)
            /\ \A t \in Declared(l) : KnownType(to.p, l, t)
            /\ to.r = "ok" <=>
                 /\ from.r = "ok"
                 /\ \A g \in DOMAIN loads[l].globals : TypeObject(loads[l].globals[g].type) # Null
<1> DEFINE refs == TypeReferences(l)
<1> DEFINE N == Len(refs)
<1>1. /\ N \in Nat /\ DOMAIN refs = 1..N
      /\ \A k \in DOMAIN refs : OfGlobal(refs[k], l) \/ \E d \in Declared(l) : RefersTo(refs[k], l, d)
      /\ \A d \in Declared(l) : \E k \in DOMAIN refs : RefersTo(refs[k], l, d)
      /\ \A g \in DOMAIN loads[l].globals : \E k \in DOMAIN refs :
           refs[k].o.part = "global" /\ refs[k].id = loads[l].globals[g].type
  BY ReferencesOf
<1> HIDE DEF refs
<1>2. PICK v : VisitBy(from, 1, refs, v)
  BY <1>1, VisitUnfolds
<1>3. /\ \A n \in 1..N : CallAt(1, refs, v, n)
      /\ v[0].left = DOMAIN refs /\ v[0].done = from
      /\ v[N].left = {} /\ Swept(from, 1, refs) = v[N].done
  BY <1>1, <1>2, SweepCovers
<1> DEFINE Fine(n) == FirstSweeping(from, l, refs, v[n]) /\ v[n].left \subseteq DOMAIN refs
<1>4. Fine(0)
  <2>1. Keeps(from.p, from.p, l)
    BY DEF Keeps, SamePointers
  <2> QED BY <1>3, <2>1 DEF FirstSweeping
<1>5. ASSUME NEW n \in 1..N, Fine(n - 1) PROVE Fine(n)
  <2>1. PICK k \in v[n - 1].left :
          v[n].left = v[n - 1].left \ {k} /\ v[n].done = CalledBack(v[n - 1].done, 1, refs[k])
    BY <1>3 DEF CallAt
  <2>2. FirstSweeping(from, l, refs, v[n])
    BY <1>1, <1>5, <2>1, FirstSweepStep
  <2> QED BY <1>5, <2>1, <2>2
<1> DEFINE Bad == {n \in 0..N : ~Fine(n)}
<1>6. Bad = {}
  <2> SUFFICES ASSUME Bad # {} PROVE FALSE
    OBVIOUS
  <2>1. PICK n \in Bad : n \in Nat /\ (n # 0 => n - 1 \in Nat /\ n - 1 \notin Bad)
    <3>1. Bad \subseteq Nat
      BY <1>1
    <3> HIDE DEF Bad
    <3> QED BY <3>1, Least
  <2>2. n \in 0..N /\ ~Fine(n)
    OBVIOUS
  <2> HIDE DEF Fine
  <2>3. n \in 1..N /\ Fine(n - 1)
    BY <1>1, <1>4, <2>1, <2>2
  <2> QED BY <1>5, <2>2, <2>3
<1>7. FirstSweeping(from, l, refs, v[N])
  BY <1>1, <1>6
<1> DEFINE to == v[N].done
<1>8. DOMAIN refs \ v[N].left = DOMAIN refs
  BY <1>3
<1>9. to = Result(to.r, to.p) /\ to.r # "crash" /\ Keeps(from.p, to.p, l)
  BY <1>7 DEF FirstSweeping
<1>10. \A t \in Declared(l) : KnownType(to.p, l, t)
  BY <1>1, <1>7, <1>8 DEF FirstSweeping
<1>11. to.r = "ok" <=> from.r = "ok" /\ \A j \in DOMAIN refs : refs[j].o.part = "global" => TypeObject(refs[j].id) # Null
  BY <1>7, <1>8 DEF FirstSweeping
<1>12. (\A j \in DOMAIN refs : refs[j].o.part = "global" => TypeObject(refs[j].id) # Null)
         <=> \A g \in DOMAIN loads[l].globals : TypeObject(loads[l].globals[g].type) # Null
  <2>1. ASSUME NEW j \in DOMAIN refs, refs[j].o.part = "global"
        PROVE  \E g \in DOMAIN loads[l].globals : refs[j].id = loads[l].globals[g].type
    <3>1. \A d \in Declared(l) : ~RefersTo(refs[j], l, d)
      BY <2>1, ReferrerIsOne DEF RefersTo, Entering
    <3> QED BY <1>1, <3>1 DEF OfGlobal
  <2> QED BY <1>1, <2>1
<1> HIDE DEF to
<1>13. Swept(from, 1, refs) = to
  BY <1>3 DEF to
<1> QED BY <1>9, <1>10, <1>11, <1>12, <1>13 DEF refs

LEMMA KnownIsOfNames ==
  ASSUME NEW p, NEW q, q.parent = p.parent, q.ranged = p.ranged, NEW k, NEW t
  PROVE  KnownType(q, k, t) <=> KnownType(p, k, t)
BY DEF KnownType

\* While a unit is swept again.
SecondSweeping(from, l, refs, v) ==
  /\ v.done = Result(v.done.r, v.done.p)
  /\ Keeps(from.p, v.done.p, l) /\ v.done.p.parent = from.p.parent /\ v.done.p.ranged = from.p.ranged
  /\ v.done.r = "ok" =>
       /\ from.r = "ok"
       /\ \A j \in DOMAIN refs \ v.left : \A t \in Declared(l) : RefersTo(refs[j], l, t) => Settled(v.done.p, l, t)
  /\ Ordered /\ KnownUpTo(from.p, l) => v.done.r # "crash"
  /\ Ordered /\ KnownUpTo(from.p, l) /\ TypesMean /\ from.r = "ok" => v.done.r = "ok"

LEMMA SecondSweepStep ==
  ASSUME Entering, NEW l \in units, NEW refs,
         \A k \in DOMAIN refs : OfGlobal(refs[k], l) \/ \E d \in Declared(l) : RefersTo(refs[k], l, d),
         NEW from, \A t \in Declared(l) : KnownType(from.p, l, t),
         NEW v, SecondSweeping(from, l, refs, v), v.left \subseteq DOMAIN refs,
         NEW k \in v.left, NEW w, w.left = v.left \ {k}, w.done = CalledBack(v.done, 2, refs[k])
  PROVE  SecondSweeping(from, l, refs, w)
<1>1. DOMAIN refs \ w.left = (DOMAIN refs \ v.left) \union {k}
  OBVIOUS
<1>2. CASE v.done.r = "crash"
  <2>1. w.done = v.done
    BY <1>2 DEF CalledBack
  <2> QED BY <1>2, <2>1 DEF SecondSweeping
<1>3. CASE v.done.r # "crash"
  <2> DEFINE ref == refs[k]
  <2> DEFINE p == v.done.p
  <2> DEFINE after == SecondSweep(p, ref.o, TypeObject(ref.id))
  <2>1. PointersInv(p) /\ p.parent = from.p.parent /\ p.ranged = from.p.ranged
    BY DEF SecondSweeping, Keeps
  <2>2. \A t \in Declared(l) : KnownType(p, l, t)
    BY <2>1, KnownIsOfNames
  <2>3. KnownUpTo(from.p, l) => KnownUpTo(p, l)
    BY <2>1, KnownIsOfNames DEF KnownUpTo
  <2>4. SecondAfter(p, l, ref, after)
    <3> HIDE DEF p, after
    <3> QED BY <2>1, <2>2, SecondCall DEF after
  <2>5. w.done = IF after.r = "ok" THEN Result(v.done.r, after.p) ELSE after
    BY <1>3, CalledBackIs
  <2> HIDE DEF after
  <2>6. /\ w.done.p = after.p /\ w.done.r = (IF after.r = "ok" THEN v.done.r ELSE after.r)
        /\ w.done = Result(w.done.r, w.done.p)
    BY <2>4, <2>5 DEF Result, SecondAfter
  <2>7. Keeps(from.p, w.done.p, l) /\ w.done.p.parent = from.p.parent /\ w.done.p.ranged = from.p.ranged
    BY <2>1, <2>4, <2>6, KeepsStep DEF SecondSweeping, SecondAfter
  <2>8. ASSUME w.done.r = "ok"
        PROVE  /\ from.r = "ok"
               /\ \A j \in DOMAIN refs \ w.left : \A t \in Declared(l) :
                    RefersTo(refs[j], l, t) => Settled(w.done.p, l, t)
    <3>1. after.r = "ok" /\ v.done.r = "ok"
      BY <2>6, <2>8
    <3>2. ASSUME NEW j \in DOMAIN refs \ w.left, NEW t \in Declared(l), RefersTo(refs[j], l, t)
          PROVE  Settled(w.done.p, l, t)
      <4>1. CASE RefersTo(ref, l, t)
        BY <2>4, <2>6, <3>1, <4>1 DEF SecondAfter
      <4>2. CASE ~RefersTo(ref, l, t)
        <5>1. j # k
          BY <3>2, <4>2
        <5>2. Settled(p, l, t)
          BY <1>1, <3>1, <3>2, <5>1 DEF SecondSweeping
        <5>3. SamePointers(p, after.p, l, t)
          BY <2>4, <4>2 DEF SecondAfter, AfterOne
        <5> HIDE DEF p
        <5> QED BY <2>6, <5>2, <5>3, SettledIsOfPointers
      <4> QED BY <4>1, <4>2
    <3> QED BY <3>1, <3>2 DEF SecondSweeping
  <2>9. Ordered /\ KnownUpTo(from.p, l) => w.done.r # "crash"
    BY <1>3, <2>3, <2>4, <2>6 DEF SecondAfter
  <2>10. Ordered /\ KnownUpTo(from.p, l) /\ TypesMean /\ from.r = "ok" => w.done.r = "ok"
    BY <2>3, <2>4, <2>6 DEF SecondAfter, SecondSweeping
  <2> HIDE DEF p
  <2> QED BY <2>6, <2>7, <2>8, <2>9, <2>10 DEF SecondSweeping
<1> QED BY <1>2, <1>3

\* The types of a unit that are known are settled after it, or there is an
\* error; files that mean something and keep to the order have none.
LEMMA SecondSweepOf ==
  ASSUME Entering, NEW l \in units, NEW from, from = Result(from.r, from.p), PointersInv(from.p),
         from.r # "crash", \A t \in Declared(l) : KnownType(from.p, l, t)
  PROVE  LET to == Swept(from, 2, TypeReferences(l))
         IN /\ to = Result(to.r, to.p)
            /\ Keeps(from.p, to.p, l) /\ to.p.parent = from.p.parent /\ to.p.ranged = from.p.ranged
            /\ to.r = "ok" => from.r = "ok" /\ \A t \in Declared(l) : Settled(to.p, l, t)
            /\ Ordered /\ KnownUpTo(from.p, l) => to.r # "crash"
            /\ Ordered /\ KnownUpTo(from.p, l) /\ TypesMean /\ from.r = "ok" => to.r = "ok"
<1> DEFINE refs == TypeReferences(l)
<1> DEFINE N == Len(refs)
<1>1. /\ N \in Nat /\ DOMAIN refs = 1..N
      /\ \A k \in DOMAIN refs : OfGlobal(refs[k], l) \/ \E d \in Declared(l) : RefersTo(refs[k], l, d)
      /\ \A d \in Declared(l) : \E k \in DOMAIN refs : RefersTo(refs[k], l, d)
  BY ReferencesOf
<1> HIDE DEF refs
<1>2. PICK v : VisitBy(from, 2, refs, v)
  BY <1>1, VisitUnfolds
<1>3. /\ \A n \in 1..N : CallAt(2, refs, v, n)
      /\ v[0].left = DOMAIN refs /\ v[0].done = from
      /\ v[N].left = {} /\ Swept(from, 2, refs) = v[N].done
  BY <1>1, <1>2, SweepCovers
<1> DEFINE Fine(n) == SecondSweeping(from, l, refs, v[n]) /\ v[n].left \subseteq DOMAIN refs
<1>4. Fine(0)
  <2>1. Keeps(from.p, from.p, l)
    BY DEF Keeps, SamePointers
  <2> QED BY <1>3, <2>1 DEF SecondSweeping
<1>5. ASSUME NEW n \in 1..N, Fine(n - 1) PROVE Fine(n)
  <2>1. PICK k \in v[n - 1].left :
          v[n].left = v[n - 1].left \ {k} /\ v[n].done = CalledBack(v[n - 1].done, 2, refs[k])
    BY <1>3 DEF CallAt
  <2>2. SecondSweeping(from, l, refs, v[n])
    BY <1>1, <1>5, <2>1, SecondSweepStep
  <2> QED BY <1>5, <2>1, <2>2
<1> DEFINE Bad == {n \in 0..N : ~Fine(n)}
<1>6. Bad = {}
  <2> SUFFICES ASSUME Bad # {} PROVE FALSE
    OBVIOUS
  <2>1. PICK n \in Bad : n \in Nat /\ (n # 0 => n - 1 \in Nat /\ n - 1 \notin Bad)
    <3>1. Bad \subseteq Nat
      BY <1>1
    <3> HIDE DEF Bad
    <3> QED BY <3>1, Least
  <2>2. n \in 0..N /\ ~Fine(n)
    OBVIOUS
  <2> HIDE DEF Fine
  <2>3. n \in 1..N /\ Fine(n - 1)
    BY <1>1, <1>4, <2>1, <2>2
  <2> QED BY <1>5, <2>2, <2>3
<1>7. SecondSweeping(from, l, refs, v[N])
  BY <1>1, <1>6
<1> DEFINE to == v[N].done
<1>8. DOMAIN refs \ v[N].left = DOMAIN refs
  BY <1>3
<1>9. /\ to = Result(to.r, to.p)
      /\ Keeps(from.p, to.p, l) /\ to.p.parent = from.p.parent /\ to.p.ranged = from.p.ranged
      /\ Ordered /\ KnownUpTo(from.p, l) => to.r # "crash"
      /\ Ordered /\ KnownUpTo(from.p, l) /\ TypesMean /\ from.r = "ok" => to.r = "ok"
  BY <1>7 DEF SecondSweeping
<1>10. to.r = "ok" => from.r = "ok" /\ \A t \in Declared(l) : Settled(to.p, l, t)
  BY <1>1, <1>7, <1>8 DEF SecondSweeping
<1> HIDE DEF to
<1>11. Swept(from, 2, refs) = to
  BY <1>3 DEF to
<1> QED BY <1>9, <1>10, <1>11 DEF refs

-----------------------------------------------------------------------------
(* The units, one after the other *)

GlobalTypesFound(l) == \A g \in DOMAIN loads[l].globals : TypeObject(loads[l].globals[g].type) # Null

GlobalsGrounded == \A l \in units : \A g \in DOMAIN loads[l].globals : Grounded(loads[l].globals[g].type)

\* The pools of the units up to n are triggered.
TriggeredTo(n, done) ==
  /\ done = Result(done.r, done.p) /\ PointersInv(done.p)
  /\ done.r = "crash" => ~Ordered
  /\ done.r # "crash" => KnownUpTo(done.p, n)
  /\ done.r = "ok" => \A k \in units : k <= n =>
       GlobalTypesFound(k) /\ \A t \in Declared(k) : Settled(done.p, k, t)
  /\ Ordered /\ TypesMean /\ GlobalsGrounded => done.r = "ok"

LEMMA TriggerStep ==
  ASSUME Entering, NEW n \in 1..Len(loads), NEW from, TriggeredTo(n - 1, from)
  PROVE  TriggeredTo(n, TriggerUnit(from, n))
<1>1. NamesApart /\ \A k \in units : k \in Nat /\ (k <= n => k <= n - 1 \/ k = n)
  BY DEF Entering
<1>2. CASE n \notin units
  <2>1. TriggerUnit(from, n) = from
    BY <1>2 DEF TriggerUnit
  <2>2. \A k \in units : k <= n => k <= n - 1
    BY <1>1, <1>2
  <2> QED BY <2>1, <2>2 DEF TriggeredTo, KnownUpTo
<1>3. CASE n \in units /\ from.r = "crash"
  <2>1. \A sweep \in {1, 2} : Swept(from, sweep, TypeReferences(n)) = from
    <3> SUFFICES ASSUME NEW sweep \in {1, 2} PROVE Swept(from, sweep, TypeReferences(n)) = from
      OBVIOUS
    <3> DEFINE refs == TypeReferences(n)
    <3> DEFINE N == Len(refs)
    <3>1. N \in Nat /\ DOMAIN refs = 1..N
      BY <1>3, ReferencesOf
    <3> HIDE DEF refs
    <3>2. PICK v : VisitBy(from, sweep, refs, v)
      BY <3>1, VisitUnfolds
    <3>3. /\ \A m \in 1..N : CallAt(sweep, refs, v, m)
          /\ v[0].done = from /\ Swept(from, sweep, refs) = v[N].done
      BY <3>1, <3>2, SweepCovers
    <3> DEFINE Bad == {m \in 0..N : v[m].done # from}
    <3>4. Bad = {}
      <4> SUFFICES ASSUME Bad # {} PROVE FALSE
        OBVIOUS
      <4>1. PICK m \in Bad : m \in Nat /\ (m # 0 => m - 1 \in Nat /\ m - 1 \notin Bad)
        <5>1. Bad \subseteq Nat
          BY <3>1
        <5> HIDE DEF Bad
        <5> QED BY <5>1, Least
      <4>2. m \in 1..N /\ v[m - 1].done = from /\ v[m].done # from
        BY <3>1, <3>3, <4>1
      <4>3. \A ref : CalledBack(from, sweep, ref) = from
        BY <1>3 DEF CalledBack
      <4> QED BY <3>3, <4>2, <4>3 DEF CallAt
    <3> QED BY <3>1, <3>3, <3>4 DEF refs
  <2>2. TriggerUnit(from, n) = from
    BY <1>3, <2>1 DEF TriggerUnit, TriggerTypes
  <2> QED BY <1>3, <2>2 DEF TriggeredTo
<1>4. CASE n \in units /\ from.r # "crash"
  <2> DEFINE mid == Swept(from, 1, TypeReferences(n))
  <2> DEFINE to == Swept(mid, 2, TypeReferences(n))
  <2>1. TriggerUnit(from, n) = to
    BY <1>4 DEF TriggerUnit, TriggerTypes
  <2>2. from = Result(from.r, from.p) /\ PointersInv(from.p) /\ KnownUpTo(from.p, n - 1)
    BY <1>4 DEF TriggeredTo
  <2>3. /\ mid = Result(mid.r, mid.p) /\ mid.r # "crash" /\ Keeps(from.p, mid.p, n)
        /\ \A t \in Declared(n) : KnownType(mid.p, n, t)
        /\ mid.r = "ok" <=> from.r = "ok" /\ GlobalTypesFound(n)
    BY <1>4, <2>2, FirstSweepOf DEF GlobalTypesFound
  <2> HIDE DEF mid
  <2>4. /\ to = Result(to.r, to.p)
        /\ Keeps(mid.p, to.p, n) /\ to.p.parent = mid.p.parent /\ to.p.ranged = mid.p.ranged
        /\ to.r = "ok" => mid.r = "ok" /\ \A t \in Declared(n) : Settled(to.p, n, t)
        /\ Ordered /\ KnownUpTo(mid.p, n) => to.r # "crash"
        /\ Ordered /\ KnownUpTo(mid.p, n) /\ TypesMean /\ mid.r = "ok" => to.r = "ok"
    BY <1>4, <2>3, SecondSweepOf DEF Keeps
  <2> HIDE DEF to
  <2>5. KnownUpTo(mid.p, n)
    <3> SUFFICES ASSUME NEW k \in units, NEW t \in Declared(k), k <= n PROVE KnownType(mid.p, k, t)
      BY DEF KnownUpTo
    <3>1. CASE k = n
      BY <2>3, <3>1
    <3>2. CASE k # n
      <4>1. KnownType(from.p, k, t) /\ SamePointers(from.p, mid.p, k, t)
        BY <1>1, <2>2, <2>3, <3>2 DEF KnownUpTo, Keeps
      <4> QED BY <4>1, KnownIsOfPointers
    <3> QED BY <3>1, <3>2
  <2>6. KnownUpTo(to.p, n)
    BY <2>4, <2>5, KnownIsOfNames DEF KnownUpTo
  <2>7. ASSUME to.r = "ok", NEW k \in units, k <= n
        PROVE  GlobalTypesFound(k) /\ \A t \in Declared(k) : Settled(to.p, k, t)
    <3>1. mid.r = "ok" /\ from.r = "ok" /\ GlobalTypesFound(n)
      BY <2>3, <2>4, <2>7
    <3>2. CASE k = n
      BY <2>4, <2>7, <3>1, <3>2
    <3>3. CASE k # n
      <4>1. k <= n - 1
        BY <1>1, <2>7, <3>3
      <4>2. GlobalTypesFound(k) /\ \A t \in Declared(k) : Settled(from.p, k, t)
        BY <3>1, <4>1 DEF TriggeredTo
      <4>3. ASSUME NEW t \in Declared(k) PROVE Settled(to.p, k, t)
        <5>1. SamePointers(from.p, mid.p, k, t) /\ SamePointers(mid.p, to.p, k, t)
          BY <2>3, <2>4, <3>3 DEF Keeps
        <5>2. Settled(mid.p, k, t)
          BY <4>2, <5>1, SettledIsOfPointers
        <5> QED BY <5>1, <5>2, SettledIsOfPointers
      <4> QED BY <4>2, <4>3
    <3> QED BY <3>2, <3>3
  <2>8. ASSUME Ordered, TypesMean, GlobalsGrounded PROVE to.r = "ok"
    <3>1. from.r = "ok"
      BY <2>8 DEF TriggeredTo
    <3>2. GlobalTypesFound(n)
      BY <1>1, <1>4, <2>8, GroundedIsFound DEF GlobalTypesFound, GlobalsGrounded
    <3> QED BY <2>3, <2>4, <2>5, <2>8, <3>1, <3>2
  <2>9. PointersInv(to.p)
    BY <2>4 DEF Keeps
  <2> QED BY <2>1, <2>4, <2>5, <2>6, <2>7, <2>8, <2>9 DEF TriggeredTo
<1> QED BY <1>2, <1>3, <1>4

\* All units.
LEMMA TriggeredIs ==
  ASSUME Entering, PointersInv(pointers)
  PROVE  TriggeredTo(Len(loads), Triggered)
<1> DEFINE N == Len(loads)
<1>1. N \in Nat /\ units \subseteq 1..N
  BY DEF Entering
<1>2. PICK f : TriggerBy(f)
  BY <1>1, TriggerUnfolds
<1>3. TriggeredTo(0, f[0])
  <2>1. f[0].r = "ok" /\ f[0].p = pointers /\ f[0] = Result("ok", pointers)
    BY <1>2 DEF TriggerBy, Result
  <2>2. \A k \in units : ~ (k <= 0)
    BY <1>1
  <2> QED BY <2>1, <2>2 DEF TriggeredTo, KnownUpTo
<1> DEFINE Bad == {n \in 0..N : ~TriggeredTo(n, f[n])}
<1>4. Bad = {}
  <2> SUFFICES ASSUME Bad # {} PROVE FALSE
    OBVIOUS
  <2>1. PICK n \in Bad : n \in Nat /\ (n # 0 => n - 1 \in Nat /\ n - 1 \notin Bad)
    <3>1. Bad \subseteq Nat
      BY <1>1
    <3> HIDE DEF Bad
    <3> QED BY <3>1, Least
  <2>2. n \in 1..N /\ TriggeredTo(n - 1, f[n - 1]) /\ ~TriggeredTo(n, f[n])
    BY <1>1, <1>3, <2>1
  <2>3. f[n] = TriggerUnit(f[n - 1], n)
    BY <1>2, <2>2 DEF TriggerBy
  <2> QED BY <2>2, <2>3, TriggerStep
<1>5. TriggeredTo(N, f[N])
  BY <1>1, <1>4
<1> QED BY <1>2, <1>5 DEF TriggerBy

\* What the types of the units are when st_link goes on to the variables.
TypesLinkedBy(q) ==
  /\ TypesMean /\ GlobalsGrounded
  /\ \A l \in units : \A d \in Declared(l) :
       /\ tables.types[d.name] = Named(l, d)
       /\ q.ancestor[Named(l, d)] = IF d.k = "subrange" THEN Inline(l, d) ELSE Behind(d.of)
       /\ d.k = "subrange" => q.ranged[Inline(l, d)] = tables.types[d.of]
TypesLinked == TypesLinkedBy(pointers)

LEMMA OkIsLinked ==
  ASSUME Entering, NEW done, TriggeredTo(Len(loads), done), done.r = "ok"
  PROVE  TypesLinkedBy(done.p)
<1>1. NamesApart
  BY DEF Entering
<1>2. ASSUME NEW l \in units
      PROVE  GlobalTypesFound(l) /\ \A t \in Declared(l) : Settled(done.p, l, t)
  <2>1. l <= Len(loads)
    BY DEF Entering
  <2> QED BY <2>1 DEF TriggeredTo
<1>3. ASSUME NEW l \in units, NEW d \in Declared(l), d.k # "subrange"
      PROVE  Grounded(d.name) /\ done.p.ancestor[Named(l, d)] = Behind(d.of)
  <2>1. EndsAt(d.of, done.p.ancestor[Named(l, d)])
    BY <1>2, <1>3 DEF Settled
  <2>2. Grounded(d.of) /\ Behind(d.of) = done.p.ancestor[Named(l, d)]
    BY <1>1, <2>1, EndIsBehind
  <2>3. Chain(d.of) \subseteq Chain(d.name)
    BY <1>1, UnitOfDeclared, ChainStep
  <2> QED BY <2>2, <2>3 DEF Grounded
<1>4. \A t \in AllTypes : t.k # "subrange" => Grounded(t.name)
  BY <1>3 DEF AllTypes
<1>5. ASSUME NEW l \in units, NEW d \in Declared(l), d.k = "subrange"
      PROVE  /\ Grounded(d.name) /\ d.range \subseteq Numbers(d.of)
             /\ TypeObject(d.of) # Null /\ done.p.ranged[Inline(l, d)] = TypeObject(d.of)
             /\ done.p.ancestor[Named(l, d)] = Inline(l, d)
  <2>1. NumbersFit(d) /\ TypeObject(d.of) # Null /\ done.p.ranged[Inline(l, d)] = TypeObject(d.of)
    BY <1>2, <1>5 DEF Settled
  <2>2. Grounded(d.of) /\ d.range \subseteq Numbers(d.of)
    BY <1>4, <2>1 DEF NumbersFit
  <2>3. Chain(d.of) \subseteq Chain(d.name)
    BY <1>1, UnitOfDeclared, ChainStep
  <2>4. done.p.ancestor[Named(l, d)] = Inline(l, d)
    BY <1>5 DEF TriggeredTo, PointersInv, PointersOf
  <2> QED BY <2>1, <2>2, <2>3, <2>4 DEF Grounded
<1>6. TypesMean
  BY <1>3, <1>5 DEF TypesMean, AllTypes
<1>7. ASSUME NEW n, TypeObject(n) # Null PROVE tables.types[n] = TypeObject(n)
  BY <1>7, TargetIs DEF Target
<1>8. ASSUME NEW l \in units, NEW d \in Declared(l) PROVE tables.types[d.name] = Named(l, d)
  <2>1. TypeObject(d.name) = Named(l, d) /\ Named(l, d) # Null
    BY <1>1, UnitOfDeclared, Parts DEF Named
  <2> QED BY <1>7, <2>1
<1>9. ASSUME NEW n, TypeObject(n) # Null PROVE Grounded(n)
  <2>1. n \in DOMAIN Elementary \/ n \in TypeNames
    BY <1>9 DEF TypeObject
  <2>2. CASE n \in DOMAIN Elementary
    BY <2>2, ChainBegins DEF Grounded
  <2>3. CASE n \in TypeNames
    <3>1. PICK t \in AllTypes : t.name = n
      BY <2>3 DEF TypeNames
    <3> QED BY <1>6, <3>1 DEF TypesMean
  <2> QED BY <2>1, <2>2, <2>3
<1>10. GlobalsGrounded
  BY <1>2, <1>9 DEF GlobalsGrounded, GlobalTypesFound
<1> QED BY <1>3, <1>5, <1>6, <1>7, <1>8, <1>10 DEF TypesLinkedBy

-----------------------------------------------------------------------------
(* The instance, from one step to the next *)

FilesInv ==
  /\ files \in Directories
  /\ loads \in Seq({files[path] : path \in DOMAIN files})
  /\ units \subseteq DOMAIN loads
  /\ \A l \in DOMAIN loads : \E u \in units : loads[u] = loads[l]
  /\ \A u \in units : \A v \in units : loads[u].path = loads[v].path => u = v

StagesInv ==
  /\ errors \in BOOLEAN /\ needsLinking \in BOOLEAN /\ crashed \in BOOLEAN
  /\ stage # "idle" => ~crashed /\ ~errors /\ needsLinking /\ answer # "ok"

\* Every name in the tables is of a file that was loaded.
TablesInv ==
  /\ \A n \in DOMAIN Elementary : n \in DOMAIN tables.types /\ tables.types[n] = ElementaryTypes[n]
  /\ \A n \in DOMAIN tables.types : n \in DOMAIN Elementary \/ \E l \in DOMAIN loads : n \in NamesOf(l, "types")
  /\ \A n \in DOMAIN tables.globals : \E l \in DOMAIN loads : n \in NamesOf(l, "globals")
  /\ \A n \in DOMAIN tables.functions : \E l \in DOMAIN loads : n \in NamesOf(l, "functions")
  /\ globalsHead = Null \/ (globalsHead.load \in DOMAIN loads /\ DOMAIN tables.globals # {})

\* After the names are entered the tables have what the units define.
Defines(table, field, part) ==
  /\ DOMAIN table = UNION {NamesOf(l, field) : l \in units}
  /\ \A n \in DOMAIN table : table[n] = Object(UnitOf(n, field), n, part)
NamesEntered ==
  /\ Unique("types") /\ Unique("globals") /\ Unique("functions") /\ Unique("programs")
  /\ TypeNames \intersect DOMAIN Elementary = {}
  /\ tables.types = Entered(ElementaryTypes, "types", "derived")
  /\ Defines(tables.globals, "globals", "global") /\ Defines(tables.functions, "functions", "function")
  /\ globalsHead = IF WithGlobals = {} THEN Null ELSE FirstGlobal
EnteredInv == stage # "idle" \/ ~needsLinking => NamesEntered

\* The variables that are not of the first unit are of another file.
GlobalsKept ==
  \A n \in DOMAIN tables.globals : \E l \in DOMAIN loads :
    /\ tables.globals[n] = Object(l, n, "global") /\ n \in NamesOf(l, "globals")
    /\ globalsHead # Null /\ loads[globalsHead.load].globals # <<>>
    /\ loads[l].path = loads[globalsHead.load].path => l = globalsHead.load
GlobalsInv ==
  /\ stage # "idle" \/ ~needsLinking \/ answer = "ok" => GlobalsKept
  /\ answer = "ok" \/ ~needsLinking \/ stage \in {"externals", "functions", "finalize"}
       => GlobalsOf(globalsHead) \subseteq created

\* The references that were resolved keep what they were resolved to.
ExternalsResolved ==
  \A r \in AllReferences(Externals, "global") :
    r \in DOMAIN aliases /\ r.name \in DOMAIN tables.globals /\ aliases[r] = tables.globals[r.name]
CallsResolved ==
  \A r \in AllReferences(Calls, "function") :
    r \in DOMAIN aliases /\ r.name \in DOMAIN tables.functions /\ aliases[r] = tables.functions[r.name]
AliasesInv ==
  /\ stage \in {"functions", "finalize"} \/ ~needsLinking => ExternalsResolved
  /\ stage = "finalize" \/ ~needsLinking => CallsResolved

\* A type that was never resolved, in a file that declares each of its types
\* once.
OnceIn(types) == \A a, b \in DOMAIN types : types[a].name = types[b].name => a = b
OnceNamed(l) == OnceIn(loads[l].types)
Unresolved(l, d) ==
  /\ Named(l, d) \in DOMAIN pointers.parent /\ Named(l, d) \in DOMAIN pointers.ancestor
  /\ IF d.k = "subrange"
     THEN /\ pointers.parent[Named(l, d)] = Inline(l, d) /\ pointers.ancestor[Named(l, d)] = Inline(l, d)
          /\ Inline(l, d) \in DOMAIN pointers.ranged /\ pointers.ranged[Inline(l, d)] = Null
     ELSE pointers.parent[Named(l, d)] = Null /\ pointers.ancestor[Named(l, d)] = Null
TypesInv ==
  /\ pointers = [parent |-> pointers.parent, ancestor |-> pointers.ancestor, ranged |-> pointers.ranged]
  /\ IsFiniteSet(DOMAIN pointers.ancestor) /\ IsFiniteSet(DOMAIN pointers.ranged)
  /\ ~errors /\ (stage = "types" \/ DOMAIN tables.types = DOMAIN Elementary) =>
       \A l \in units : OnceNamed(l) => \A d \in Declared(l) : Unresolved(l, d)
  /\ stage \in {"globals", "externals", "functions", "finalize"} \/ ~needsLinking => TypesLinked

LinkInv ==
  /\ FilesInv /\ StagesInv /\ TablesInv /\ EnteredInv /\ GlobalsInv /\ AliasesInv /\ TypesInv
  /\ crashed => ~Ordered

-----------------------------------------------------------------------------
(* What only depends on the files *)

\* Behind with its subranges by name.
FirstSubrange(n) == CHOOSE m \in SubrangesOf(n) : SubrangesOf(n) \subseteq Chain(m)
ElementaryOf(n) == CHOOSE e \in Chain(n) : e \in DOMAIN Elementary
BehindBy(n) ==
  IF n \in DOMAIN Elementary THEN ElementaryTypes[n]
  ELSE IF SubrangesOf(n) = {} THEN ElementaryTypes[ElementaryOf(n)]
  ELSE Object(UnitOf(FirstSubrange(n), "types"), FirstSubrange(n), "inline")

LEMMA SameTypes ==
  ASSUME UNCHANGED <<loads, units>>
  PROVE  /\ AllTypes' = AllTypes /\ TypeNames' = TypeNames /\ Mentioned' = Mentioned
         /\ \A l : Declared(l)' = Declared(l)
         /\ \A n : TypeNamed(n)' = TypeNamed(n) 
         /\ \A n : Chain(n)' = Chain(n)
         /\ \A n : Grounded(n)' <=> Grounded(n) 
         /\ \A n : Numbers(n)' = Numbers(n) 
         /\ \A n : UnitOf(n, "types")' = UnitOf(n, "types") 
         /\ \A n : Behind(n)' = Behind(n) 
<1>1. \A l : Declared(l)' = Declared(l)
  BY DEF Declared
<1>2. AllTypes' = AllTypes
  BY <1>1 DEF AllTypes
<1>3. TypeNames' = TypeNames /\ Mentioned' = Mentioned
  BY <1>2 DEF TypeNames, Mentioned
<1>4. \A n : TypeNamed(n)' = TypeNamed(n)
  BY <1>2 DEF TypeNamed
<1>5. \A S : Closed(S)' <=> Closed(S)
  BY <1>2 DEF Closed
<1>6. \A n : Chain(n)' = Chain(n)
  BY <1>3, <1>5 DEF Chain
<1>7. \A n : Grounded(n)' <=> Grounded(n)
  BY <1>6 DEF Grounded
<1>8. \A n : Numbers(n)' = Numbers(n)
  BY <1>3, <1>4, <1>6 DEF Numbers
<1>9. \A n : UnitOf(n, "types")' = UnitOf(n, "types")
  BY DEF UnitOf, NamesOf
<1>10. \A n : Behind(n)' = Behind(n)
  <2>1. \A n : SubrangesOf(n)' = SubrangesOf(n)
    BY <1>3, <1>4, <1>6 DEF SubrangesOf
  <2>2. \A n : FirstSubrange(n)' = FirstSubrange(n)
    BY <1>6, <2>1 DEF FirstSubrange
  <2>3. \A n : ElementaryOf(n)' = ElementaryOf(n)
    BY <1>6 DEF ElementaryOf
  <2>4. \A n : BehindBy(n)' = BehindBy(n)
    BY <1>9, <2>1, <2>2, <2>3 DEF BehindBy
  <2>5. \A n : Behind(n) = BehindBy(n)
    BY Zenon DEF Behind, BehindBy, FirstSubrange, ElementaryOf, SubrangesOf
  <2>6. \A n : Behind(n)' = BehindBy(n)'
    BY Zenon DEF Behind, BehindBy, FirstSubrange, ElementaryOf, SubrangesOf
  <2> QED BY <2>4, <2>5, <2>6
<1> QED BY <1>1, <1>2, <1>3, <1>4, <1>6, <1>7, <1>8, <1>9, <1>10

LEMMA SameNames ==
  ASSUME UNCHANGED <<loads, units>>
  PROVE  /\ \A l, field : NamesOf(l, field)' = NamesOf(l, field)
         /\ \A field : Unique(field)' <=> Unique(field)
         /\ \A n, field : UnitOf(n, field)' = UnitOf(n, field)
         /\ WithGlobals' = WithGlobals /\ FirstGlobal' = FirstGlobal
         /\ AllReferences(Externals, "global")' = AllReferences(Externals, "global")
         /\ AllReferences(Calls, "function")' = AllReferences(Calls, "function")
         /\ Ordered' <=> Ordered
<1>1. \A l, field : NamesOf(l, field)' = NamesOf(l, field)
  BY DEF NamesOf
<1>2. \A field : Unique(field)' <=> Unique(field)
  BY DEF Unique
<1>3. \A n, field : UnitOf(n, field)' = UnitOf(n, field)
  BY <1>1 DEF UnitOf
<1>4. WithGlobals' = WithGlobals
  BY DEF WithGlobals
<1>5. FirstGlobal' = FirstGlobal
  BY <1>4 DEF FirstGlobal
<1>6. \A l : ProgramsOf(l)' = ProgramsOf(l)
  BY DEF ProgramsOf
<1>7. AllReferences(Externals, "global")' = AllReferences(Externals, "global")
  BY <1>6 DEF AllReferences, References, Externals
<1>8. AllReferences(Calls, "function")' = AllReferences(Calls, "function")
  BY <1>6 DEF AllReferences, References, Calls
<1>9. Ordered' <=> Ordered
  BY <1>3, <1>4, SameTypes DEF Ordered
<1> QED BY <1>1, <1>2, <1>3, <1>4, <1>5, <1>7, <1>8, <1>9

LEMMA SameMeaning ==
  ASSUME UNCHANGED <<loads, units>>
  PROVE  (TypesMean' <=> TypesMean) /\ (GlobalsGrounded' <=> GlobalsGrounded)
<1>1. TypesMean' <=> TypesMean
  BY SameTypes DEF TypesMean
<1>2. GlobalsGrounded' <=> GlobalsGrounded
  BY SameTypes DEF GlobalsGrounded
<1> QED BY <1>1, <1>2

-----------------------------------------------------------------------------
(* The steps of an instance *)

\* The parts of the invariant that depend on the definitions only.
LEMMA SameDefinitions ==
  ASSUME UNCHANGED <<files, loads, units, tables, globalsHead>>
  PROVE  /\ FilesInv' <=> FilesInv
         /\ TablesInv' <=> TablesInv
         /\ NamesEntered' <=> NamesEntered
         /\ GlobalsKept' <=> GlobalsKept
         /\ GlobalsOf(globalsHead)' = GlobalsOf(globalsHead)
<1>1. FilesInv' <=> FilesInv
  BY DEF FilesInv
<1>2. TablesInv' <=> TablesInv
  BY SameNames DEF TablesInv
<1>3. Defines(tables.globals, "globals", "global")' <=> Defines(tables.globals, "globals", "global")
  BY SameNames DEF Defines
<1>4. Defines(tables.functions, "functions", "function")' <=> Defines(tables.functions, "functions", "function")
  BY SameNames DEF Defines
<1>5. \A n, field : FirstWith(n, field)' = FirstWith(n, field)
  BY SameNames DEF FirstWith
<1>6. Entered(ElementaryTypes, "types", "derived")' = Entered(ElementaryTypes, "types", "derived")
  BY <1>5, SameNames DEF Entered
<1>7. NamesEntered' <=> NamesEntered
  BY <1>3, <1>4, <1>6, SameNames, SameTypes DEF NamesEntered
<1>8. GlobalsKept' <=> GlobalsKept
  BY SameNames DEF GlobalsKept
<1>9. GlobalsOf(globalsHead)' = GlobalsOf(globalsHead)
  BY DEF GlobalsOf
<1> QED BY <1>1, <1>2, <1>7, <1>8, <1>9

LEMMA SamePointersInv ==
  ASSUME UNCHANGED <<loads, units, tables, pointers>>
  PROVE  /\ TypesLinked' <=> TypesLinked
         /\ \A l, d : Unresolved(l, d)' <=> Unresolved(l, d)
         /\ \A l : OnceNamed(l)' <=> OnceNamed(l)
<1>1. TypesLinked' <=> TypesLinked
  BY SameTypes, SameMeaning DEF TypesLinked, TypesLinkedBy
<1>2. \A l, d : Unresolved(l, d)' <=> Unresolved(l, d)
  BY DEF Unresolved
<1>3. \A l : OnceNamed(l)' <=> OnceNamed(l)
  BY DEF OnceNamed, OnceIn
<1> QED BY <1>1, <1>2, <1>3

\* Steps that leave the definitions and the types alone, and get no further
\* than they are allowed to.
Quiet ==
  /\ UNCHANGED <<files, loads, units, tables, globalsHead, pointers>>
  /\ created \subseteq created'
  /\ errors => errors'
  /\ stage' # "idle" \/ ~needsLinking' => stage # "idle" \/ ~needsLinking
  /\ stage' = "types" => stage = "types"
  /\ stage' \in {"globals", "externals", "functions", "finalize"} \/ ~needsLinking'
       => stage \in {"globals", "externals", "functions", "finalize"} \/ ~needsLinking
  /\ answer' = "ok" => answer = "ok" \/ stage = "finalize" \/ ~needsLinking
  /\ stage' \in {"externals", "functions", "finalize"} \/ ~needsLinking'
       => \/ stage \in {"externals", "functions", "finalize"} \/ ~needsLinking
          \/ GlobalsOf(globalsHead) \subseteq created'

LEMMA QuietKeeps ==
  ASSUME LinkInv, Quiet
  PROVE  FilesInv' /\ TablesInv' /\ EnteredInv' /\ GlobalsInv' /\ TypesInv'
<1>1. /\ FilesInv' /\ TablesInv'
      /\ NamesEntered' <=> NamesEntered
      /\ GlobalsKept' <=> GlobalsKept
      /\ GlobalsOf(globalsHead)' = GlobalsOf(globalsHead)
  BY SameDefinitions DEF LinkInv, Quiet
<1>2. EnteredInv'
  BY <1>1 DEF LinkInv, Quiet, EnteredInv
<1>3. GlobalsInv'
  <2>1. ASSUME stage' # "idle" \/ ~needsLinking' \/ answer' = "ok" PROVE GlobalsKept'
    <3>1. stage # "idle" \/ ~needsLinking \/ answer = "ok"
      BY <2>1 DEF Quiet
    <3> QED BY <1>1, <3>1 DEF LinkInv, GlobalsInv
  <2>2. ASSUME answer' = "ok" \/ ~needsLinking' \/ stage' \in {"externals", "functions", "finalize"}
        PROVE  GlobalsOf(globalsHead)' \subseteq created'
    <3>1. \/ answer = "ok" \/ ~needsLinking \/ stage \in {"externals", "functions", "finalize"}
          \/ GlobalsOf(globalsHead) \subseteq created'
      BY <2>2 DEF Quiet
    <3> QED BY <1>1, <3>1 DEF LinkInv, GlobalsInv, Quiet
  <2> QED BY <2>1, <2>2 DEF GlobalsInv
<1>4. TypesInv'
  <2>1. /\ TypesLinked' <=> TypesLinked
        /\ \A l, d : Unresolved(l, d)' <=> Unresolved(l, d)
        /\ \A l : OnceNamed(l)' <=> OnceNamed(l)
    BY SamePointersInv DEF Quiet
  <2>2. units' = units /\ \A l : Declared(l)' = Declared(l)
    BY SameTypes DEF Quiet
  <2>3. /\ pointers' = [parent |-> pointers'.parent, ancestor |-> pointers'.ancestor, ranged |-> pointers'.ranged]
        /\ IsFiniteSet(DOMAIN pointers'.ancestor) /\ IsFiniteSet(DOMAIN pointers'.ranged)
    BY DEF LinkInv, Quiet, TypesInv
  <2>4. ASSUME ~errors', stage' = "types" \/ DOMAIN tables'.types = DOMAIN Elementary
        PROVE  \A l \in units : OnceNamed(l) => \A d \in Declared(l) : Unresolved(l, d)
    <3>1. ~errors /\ (stage = "types" \/ DOMAIN tables.types = DOMAIN Elementary)
      BY <2>4 DEF Quiet
    <3> QED BY <3>1 DEF LinkInv, TypesInv
  <2>5. ASSUME stage' \in {"globals", "externals", "functions", "finalize"} \/ ~needsLinking'
        PROVE  TypesLinked
    BY <2>5 DEF LinkInv, TypesInv, Quiet
  <2> QED BY <2>1, <2>2, <2>3, <2>4, <2>5 DEF TypesInv
<1> QED BY <1>1, <1>2, <1>3, <1>4

\* In files that keep to the order every variable of the table has a value
\* once those of the first unit are created.
LEMMA OrderedHaveValues ==
  ASSUME FilesInv, TablesInv, GlobalsKept, GlobalsOf(globalsHead) \subseteq created, Ordered,
         NEW n \in DOMAIN tables.globals
  PROVE  HasValue(n)
<1>1. PICK l \in DOMAIN loads :
        /\ tables.globals[n] = Object(l, n, "global") /\ n \in NamesOf(l, "globals")
        /\ globalsHead # Null /\ loads[globalsHead.load].globals # <<>>
        /\ loads[l].path = loads[globalsHead.load].path => l = globalsHead.load
  BY DEF GlobalsKept
<1> DEFINE h == globalsHead.load
<1>2. PICK i \in DOMAIN loads[l].globals : loads[l].globals[i].name = n
  BY <1>1 DEF NamesOf
<1>3. h \in DOMAIN loads
  BY <1>1 DEF TablesInv
<1>4. loads[l].globals # <<>> /\ loads[h].globals # <<>>
  BY <1>1, <1>2
<1>5. PICK u \in units : loads[u] = loads[l]
  BY DEF FilesInv
<1>6. PICK w \in units : loads[w] = loads[h]
  BY <1>3 DEF FilesInv
<1>7. u \in WithGlobals /\ w \in WithGlobals
  BY <1>4, <1>5, <1>6 DEF WithGlobals
<1>8. u = w
  BY <1>7 DEF Ordered
<1>9. l = h
  BY <1>1, <1>5, <1>6, <1>8
<1>10. Object(l, n, "global") \in GlobalsOf(globalsHead)
  BY <1>1, <1>2, <1>9 DEF GlobalsOf
<1> QED BY <1>1, <1>10 DEF HasValue

\* What a file is.
LEMMA LoadedFiles ==
  ASSUME FilesInv, NEW l \in DOMAIN loads
  PROVE  /\ loads[l].types \in Seq(TypeDeclarations) /\ loads[l].globals \in Seq(GlobalDeclarations)
         /\ loads[l].path \in DOMAIN files /\ loads[l] = files[loads[l].path]
<1>1. loads[l] \in {files[path] : path \in DOMAIN files}
  BY DEF FilesInv
<1>2. PICK path \in DOMAIN files : loads[l] = files[path]
  BY <1>1
<1> QED BY <1>2, DirectoriesAssumption DEF FilesInv

LEMMA NamesAreEntered ==
  ASSUME FilesInv, NamesEntered
  PROVE  Entering
<1>1. Len(loads) \in Nat /\ DOMAIN loads = 1..Len(loads)
  BY DEF FilesInv
<1>2. units \subseteq DOMAIN loads
  BY DEF FilesInv
<1> QED BY <1>1, <1>2, LoadedFiles DEF NamesEntered, Entering, NamesApart

LEMMA UnresolvedPointers ==
  ASSUME TypesInv, NamesEntered, ~errors, stage = "types" \/ DOMAIN tables.types = DOMAIN Elementary
  PROVE  PointersInv(pointers)
<1>1. \A l \in units : OnceNamed(l)
  BY DEF NamesEntered, Unique, OnceNamed, OnceIn
<1>2. \A l \in units : \A d \in Declared(l) : Unresolved(l, d)
  BY <1>1 DEF TypesInv
<1>3. \A l \in units : \A d \in Declared(l) : PointersOf(pointers, l, d)
  BY <1>2 DEF Unresolved, PointersOf
<1> QED BY <1>3 DEF TypesInv, PointersInv

LEMMA SameAliases ==
  ASSUME UNCHANGED <<loads, units, tables, aliases>>
  PROVE  (ExternalsResolved' <=> ExternalsResolved) /\ (CallsResolved' <=> CallsResolved)
<1>1. ExternalsResolved' <=> ExternalsResolved
  BY SameNames DEF ExternalsResolved
<1>2. CallsResolved' <=> CallsResolved
  BY SameNames DEF CallsResolved
<1> QED BY <1>1, <1>2

LEMMA QuietStep ==
  ASSUME LinkInv, Quiet, StagesInv', AliasesInv', crashed' => ~Ordered
  PROVE  LinkInv'
<1>1. Ordered' <=> Ordered
  BY SameNames DEF Quiet
<1> QED BY <1>1, QuietKeeps DEF LinkInv

\* The types: what the pools leave, from no type resolved.
LEMMA TypesResolved ==
  ASSUME LinkInv, ResolveTypes
  PROVE  /\ Entering
         /\ TriggeredTo(Len(loads), Triggered)
<1>1. NamesEntered /\ ~errors
  BY DEF LinkInv, ResolveTypes, EnteredInv, StagesInv
<1>2. Entering
  BY <1>1, NamesAreEntered DEF LinkInv
<1>3. PointersInv(pointers)
  BY <1>1, UnresolvedPointers DEF LinkInv, ResolveTypes
<1> QED BY <1>2, <1>3, TriggeredIs

LEMMA ResolveTypesKeeps ==
  ASSUME LinkInv, ResolveTypes
  PROVE  LinkInv'
<1> DEFINE done == Triggered
<1>1. /\ Entering /\ TriggeredTo(Len(loads), done)
  BY TypesResolved
<1>2. /\ stage = "types" /\ ~crashed /\ ~errors /\ needsLinking
      /\ NamesEntered /\ GlobalsKept
  BY DEF LinkInv, ResolveTypes, EnteredInv, StagesInv, GlobalsInv
<1>3. /\ pointers' = done.p /\ crashed' = (done.r = "crash") /\ Reached("globals", done.r # "ok")
      /\ UNCHANGED <<files, loads, units, tables, globalsHead, created, aliases, needsLinking, main>>
  BY DEF ResolveTypes
<1> HIDE DEF done
<1>4. /\ errors' = (done.r # "ok")
      /\ stage' = IF done.r # "ok" THEN "idle" ELSE "globals"
      /\ answer' = IF done.r # "ok" THEN "error" ELSE "none"
  BY <1>2, <1>3 DEF Reached, Stops
<1>5. StagesInv'
  BY <1>2, <1>3, <1>4 DEF StagesInv
<1>6. FilesInv' /\ TablesInv' /\ NamesEntered' /\ GlobalsKept'
  BY <1>2, <1>3, SameDefinitions DEF LinkInv
<1>7. EnteredInv' /\ GlobalsInv' /\ AliasesInv'
  BY <1>2, <1>3, <1>4, <1>6 DEF EnteredInv, GlobalsInv, AliasesInv
<1>8. crashed' => ~Ordered'
  BY <1>1, <1>3, SameNames DEF TriggeredTo
<1>9. /\ pointers' = [parent |-> pointers'.parent, ancestor |-> pointers'.ancestor, ranged |-> pointers'.ranged]
      /\ IsFiniteSet(DOMAIN pointers'.ancestor) /\ IsFiniteSet(DOMAIN pointers'.ranged)
  BY <1>1, <1>3 DEF TriggeredTo, PointersInv
<1>10. ASSUME DOMAIN tables.types = DOMAIN Elementary PROVE \A l \in units : Declared(l) = {}
  <2>1. DOMAIN tables.types = DOMAIN Elementary \union UNION {NamesOf(l, "types") : l \in units}
    BY <1>2 DEF NamesEntered, Entered, ElementaryTypes
  <2>2. UNION {NamesOf(l, "types") : l \in units} = TypeNames
    BY DEF NamesOf, TypeNames, AllTypes, Declared
  <2>3. TypeNames = {}
    BY <1>2, <1>10, <2>1, <2>2 DEF NamesEntered
  <2> QED BY <2>3 DEF TypeNames, AllTypes
<1>11. TypesLinked' <=> TypesLinkedBy(done.p)
  BY <1>3, SameTypes, SameMeaning DEF TypesLinked, TypesLinkedBy
<1>12. TypesInv'
  <2>1. ASSUME ~errors', stage' = "types" \/ DOMAIN tables'.types = DOMAIN Elementary
        PROVE  \A l \in units' : Declared(l)' = {}
    BY <1>3, <1>4, <1>10, <2>1, SameTypes
  <2>2. ASSUME stage' \in {"globals", "externals", "functions", "finalize"} \/ ~needsLinking'
        PROVE  TypesLinked'
    <3>1. done.r = "ok"
      BY <1>2, <1>3, <1>4, <2>2
    <3> QED BY <1>1, <1>11, <3>1, OkIsLinked
  <2> QED BY <1>9, <2>1, <2>2 DEF TypesInv
<1> QED BY <1>5, <1>6, <1>7, <1>8, <1>12 DEF LinkInv

\* The names: without a clash the tables had no definitions yet.
LEMMA NoClash ==
  ASSUME FilesInv, TablesInv,
         ~Clashes(tables.types, "types"), ~Clashes(tables.globals, "globals"),
         ~Clashes(tables.functions, "functions")
  PROVE  /\ DOMAIN tables.types = DOMAIN Elementary /\ TypeNames \intersect DOMAIN Elementary = {}
         /\ DOMAIN tables.globals = {} /\ DOMAIN tables.functions = {} /\ globalsHead = Null
<1>1. \A l \in DOMAIN loads : \E u \in units : loads[u] = loads[l]
  BY DEF FilesInv
<1>2. \A l \in DOMAIN loads : \A field : \E u \in units : NamesOf(u, field) = NamesOf(l, field)
  BY <1>1 DEF NamesOf
<1>3. ASSUME NEW n \in DOMAIN tables.types PROVE n \in DOMAIN Elementary
  <2>1. \A l \in units : n \notin NamesOf(l, "types")
    BY DEF Clashes
  <2> QED BY <1>2, <2>1 DEF TablesInv
<1>4. \A n \in DOMAIN Elementary : n \in DOMAIN tables.types
  BY DEF TablesInv
<1>5. UNION {NamesOf(l, "types") : l \in units} = TypeNames
  BY DEF NamesOf, TypeNames, AllTypes, Declared
<1>6. TypeNames \intersect DOMAIN Elementary = {}
  BY <1>4, <1>5 DEF Clashes
<1>7. ASSUME NEW n \in DOMAIN tables.globals PROVE FALSE
  <2>1. \A l \in units : n \notin NamesOf(l, "globals")
    BY DEF Clashes
  <2> QED BY <1>2, <2>1 DEF TablesInv
<1>8. ASSUME NEW n \in DOMAIN tables.functions PROVE FALSE
  <2>1. \A l \in units : n \notin NamesOf(l, "functions")
    BY DEF Clashes
  <2> QED BY <1>2, <2>1 DEF TablesInv
<1>9. globalsHead = Null
  BY <1>7 DEF TablesInv
<1> QED BY <1>3, <1>4, <1>6, <1>7, <1>8, <1>9

\* A name of the units is of one of them.
LEMMA FirstIsUnit ==
  ASSUME FilesInv, NEW field, NEW l \in units, NEW n \in NamesOf(l, field)
  PROVE  /\ FirstWith(n, field) \in units /\ n \in NamesOf(FirstWith(n, field), field)
         /\ Unique(field) => UnitOf(n, field) = FirstWith(n, field)
<1> DEFINE T == {k \in units : n \in NamesOf(k, field)}
<1>1. T \subseteq Nat /\ T # {}
  BY DEF FilesInv
<1>2. Min(T) \in T
  BY <1>1, MinIsLeast
<1>3. FirstWith(n, field) = Min(T)
  BY DEF FirstWith
<1>4. FirstWith(n, field) \in T
  BY <1>2, <1>3
<1>5. ASSUME Unique(field), NEW k \in T PROVE k = l
  BY <1>5 DEF Unique, NamesOf
<1>6. ASSUME Unique(field) PROVE UnitOf(n, field) = FirstWith(n, field)
  <2>1. FirstWith(n, field) = l
    BY <1>4, <1>5, <1>6
  <2>2. UnitOf(n, field) = CHOOSE k \in units : n \in NamesOf(k, field)
    BY DEF UnitOf
  <2>3. UnitOf(n, field) \in T
    BY <2>2
  <2> QED BY <1>5, <1>6, <2>1, <2>3
<1> QED BY <1>4, <1>6

\* What is entered in a table without definitions.
LEMMA EnteredDefines ==
  ASSUME FilesInv, NEW table, DOMAIN table = {}, NEW field, Unique(field), NEW part
  PROVE  Defines(Entered(table, field, part), field, part)
<1> DEFINE t == Entered(table, field, part)
<1> DEFINE D == UNION {NamesOf(l, field) : l \in units}
<1>1. t = [n \in D |-> Object(FirstWith(n, field), n, part)]
  BY DEF Entered
<1>2. DOMAIN t = D
  BY <1>1
<1>3. ASSUME NEW n \in D PROVE t[n] = Object(UnitOf(n, field), n, part)
  <2>1. PICK l \in units : n \in NamesOf(l, field)
    OBVIOUS
  <2>2. UnitOf(n, field) = FirstWith(n, field)
    BY <2>1, FirstIsUnit
  <2> QED BY <1>1, <2>2
<1> QED BY <1>2, <1>3 DEF Defines

\* The first of the units with global variables.
LEMMA FirstHasGlobals ==
  ASSUME FilesInv, WithGlobals # {}
  PROVE  /\ FirstGlobal # Null /\ FirstGlobal.load \in units
         /\ loads[FirstGlobal.load].globals # <<>> /\ NamesOf(FirstGlobal.load, "globals") # {}
<1> DEFINE m == Min(WithGlobals)
<1>1. WithGlobals \subseteq Nat
  BY DEF FilesInv, WithGlobals
<1>2. m \in WithGlobals
  BY <1>1, MinIsLeast
<1> HIDE DEF m
<1>3. FirstGlobal = Object(m, loads[m].globals[1].name, "global")
  BY DEF FirstGlobal, m
<1>4. FirstGlobal.load = m /\ FirstGlobal # Null
  BY <1>3, Parts DEF Object
<1>5. m \in units /\ loads[m].globals # <<>>
  BY <1>2 DEF WithGlobals
<1>6. loads[m].globals \in Seq(GlobalDeclarations)
  BY <1>5, LoadedFiles DEF FilesInv
<1>7. 1 \in DOMAIN loads[m].globals
  BY <1>5, <1>6
<1>8. NamesOf(m, "globals") # {}
  BY <1>7 DEF NamesOf
<1> QED BY <1>4, <1>5, <1>8

\* The tables with the names of all units, and the variables of the first.
LEMMA NamesPut ==
  ASSUME FilesInv, TablesInv, NEW new, NEW head,
         new = [types |-> Entered(tables.types, "types", "derived"),
                globals |-> Entered(tables.globals, "globals", "global"),
                functions |-> Entered(tables.functions, "functions", "function"),
                programs |-> Entered(tables.programs, "programs", "program")],
         head = IF globalsHead = Null /\ WithGlobals # {} THEN FirstGlobal ELSE globalsHead
  PROVE  /\ \A n \in DOMAIN Elementary : n \in DOMAIN new.types /\ new.types[n] = ElementaryTypes[n]
         /\ \A n \in DOMAIN new.types :
              n \in DOMAIN Elementary \/ \E l \in DOMAIN loads : n \in NamesOf(l, "types")
         /\ \A n \in DOMAIN new.globals : \E l \in DOMAIN loads : n \in NamesOf(l, "globals")
         /\ \A n \in DOMAIN new.functions : \E l \in DOMAIN loads : n \in NamesOf(l, "functions")
         /\ head = Null \/ (head.load \in DOMAIN loads /\ DOMAIN new.globals # {})
<1>1. units \subseteq DOMAIN loads
  BY DEF FilesInv
<1>2. /\ DOMAIN new.types = DOMAIN tables.types \union UNION {NamesOf(l, "types") : l \in units}
      /\ \A n \in DOMAIN tables.types : new.types[n] = tables.types[n]
  BY DEF Entered
<1>3. DOMAIN new.globals = DOMAIN tables.globals \union UNION {NamesOf(l, "globals") : l \in units}
  BY DEF Entered
<1>4. DOMAIN new.functions = DOMAIN tables.functions \union UNION {NamesOf(l, "functions") : l \in units}
  BY DEF Entered
<1>5. \A n \in DOMAIN Elementary : n \in DOMAIN new.types /\ new.types[n] = ElementaryTypes[n]
  BY <1>2 DEF TablesInv
<1>6. \A n \in DOMAIN new.types :
        n \in DOMAIN Elementary \/ \E l \in DOMAIN loads : n \in NamesOf(l, "types")
  BY <1>1, <1>2 DEF TablesInv
<1>7. \A n \in DOMAIN new.globals : \E l \in DOMAIN loads : n \in NamesOf(l, "globals")
  BY <1>1, <1>3 DEF TablesInv
<1>8. \A n \in DOMAIN new.functions : \E l \in DOMAIN loads : n \in NamesOf(l, "functions")
  BY <1>1, <1>4 DEF TablesInv
<1>9. ASSUME globalsHead = Null /\ WithGlobals # {}
      PROVE  head.load \in DOMAIN loads /\ DOMAIN new.globals # {}
  <2>1. FirstGlobal.load \in units /\ NamesOf(FirstGlobal.load, "globals") # {}
    BY <1>9, FirstHasGlobals
  <2> QED BY <1>1, <1>3, <1>9, <2>1
<1>10. ASSUME ~(globalsHead = Null /\ WithGlobals # {})
       PROVE  head = Null \/ (head.load \in DOMAIN loads /\ DOMAIN new.globals # {})
  BY <1>3, <1>10 DEF TablesInv
<1> QED BY <1>5, <1>6, <1>7, <1>8, <1>9, <1>10

\* Every variable that was entered is of the first unit or of another file.
LEMMA GlobalsAreKept ==
  ASSUME FilesInv, NEW table, Defines(table, "globals", "global"), Unique("globals")
  PROVE  \A n \in DOMAIN table : \E l \in DOMAIN loads :
           /\ table[n] = Object(l, n, "global") /\ n \in NamesOf(l, "globals")
           /\ WithGlobals # {} /\ FirstGlobal # Null /\ loads[FirstGlobal.load].globals # <<>>
           /\ loads[l].path = loads[FirstGlobal.load].path => l = FirstGlobal.load
<1> SUFFICES ASSUME NEW n \in DOMAIN table
             PROVE  \E l \in DOMAIN loads :
                      /\ table[n] = Object(l, n, "global") /\ n \in NamesOf(l, "globals")
                      /\ WithGlobals # {} /\ FirstGlobal # Null /\ loads[FirstGlobal.load].globals # <<>>
                      /\ loads[l].path = loads[FirstGlobal.load].path => l = FirstGlobal.load
  OBVIOUS
<1>1. PICK k \in units : n \in NamesOf(k, "globals")
  BY DEF Defines
<1> DEFINE l == FirstWith(n, "globals")
<1>2. l \in units /\ n \in NamesOf(l, "globals") /\ UnitOf(n, "globals") = l
  BY <1>1, FirstIsUnit
<1>3. table[n] = Object(l, n, "global")
  BY <1>2 DEF Defines
<1> HIDE DEF l
<1>4. loads[l].globals # <<>>
  BY <1>2 DEF NamesOf
<1>5. WithGlobals # {}
  BY <1>2, <1>4 DEF WithGlobals
<1>6. FirstGlobal # Null /\ FirstGlobal.load \in units /\ loads[FirstGlobal.load].globals # <<>>
  BY <1>5, FirstHasGlobals
<1>7. loads[l].path = loads[FirstGlobal.load].path => l = FirstGlobal.load
  BY <1>2, <1>6 DEF FilesInv
<1>8. l \in DOMAIN loads
  BY <1>2 DEF FilesInv
<1> QED BY <1>2, <1>3, <1>5, <1>6, <1>7, <1>8

LEMMA LinkNamesKeeps ==
  ASSUME LinkInv, LinkNames
  PROVE  LinkInv'
<1> DEFINE clash == Clashes(tables.types, "types") \/ Clashes(tables.globals, "globals")
                    \/ Clashes(tables.functions, "functions") \/ Clashes(tables.programs, "programs")
<1> DEFINE new == [types |-> Entered(tables.types, "types", "derived"),
                   globals |-> Entered(tables.globals, "globals", "global"),
                   functions |-> Entered(tables.functions, "functions", "function"),
                   programs |-> Entered(tables.programs, "programs", "program")]
<1> DEFINE head == IF globalsHead = Null /\ WithGlobals # {} THEN FirstGlobal ELSE globalsHead
<1>1. /\ FilesInv /\ TablesInv /\ TypesInv
      /\ errors \in BOOLEAN /\ crashed = FALSE /\ stage = "idle" /\ needsLinking = TRUE
  BY DEF LinkInv, StagesInv, LinkNames, Idle
<1>2. /\ UNCHANGED <<files, loads, units, pointers, created, aliases, needsLinking, main, crashed>>
      /\ tables' = new /\ globalsHead' = head /\ Reached("types", clash)
  BY Zenon DEF LinkNames
<1>3. clash \in BOOLEAN
  BY DEF Clashes, Unique
<1>4. clash = FALSE => /\ Unique("types") /\ Unique("globals") /\ Unique("functions") /\ Unique("programs")
                       /\ DOMAIN tables.types = DOMAIN Elementary /\ TypeNames \intersect DOMAIN Elementary = {}
                       /\ DOMAIN tables.globals = {} /\ DOMAIN tables.functions = {} /\ globalsHead = Null
  <2> SUFFICES ASSUME ~clash
               PROVE  /\ Unique("types") /\ Unique("globals") /\ Unique("functions") /\ Unique("programs")
                      /\ DOMAIN tables.types = DOMAIN Elementary /\ TypeNames \intersect DOMAIN Elementary = {}
                      /\ DOMAIN tables.globals = {} /\ DOMAIN tables.functions = {} /\ globalsHead = Null
    OBVIOUS
  <2>1. Unique("types") /\ Unique("globals") /\ Unique("functions") /\ Unique("programs")
    BY DEF Clashes
  <2> QED BY <1>1, <2>1, NoClash
<1>5. /\ errors' \in BOOLEAN
      /\ stage' \in {"idle", "types"} /\ answer' \in {"error", "none"}
      /\ stage' = "types" => answer' = "none"
      /\ stage' = "types" \/ errors' = FALSE => errors' = FALSE /\ errors = FALSE /\ clash = FALSE
  <2> HIDE DEF clash
  <2> QED BY <1>1, <1>2, <1>3 DEF Reached, Stops
<1>6. /\ \A n \in DOMAIN Elementary : n \in DOMAIN new.types /\ new.types[n] = ElementaryTypes[n]
      /\ \A n \in DOMAIN new.types :
           n \in DOMAIN Elementary \/ \E l \in DOMAIN loads : n \in NamesOf(l, "types")
      /\ \A n \in DOMAIN new.globals : \E l \in DOMAIN loads : n \in NamesOf(l, "globals")
      /\ \A n \in DOMAIN new.functions : \E l \in DOMAIN loads : n \in NamesOf(l, "functions")
      /\ head = Null \/ (head.load \in DOMAIN loads /\ DOMAIN new.globals # {})
  <2> HIDE DEF head
  <2>1. head = IF globalsHead = Null /\ WithGlobals # {} THEN FirstGlobal ELSE globalsHead
    BY DEF head
  <2> QED BY <1>1, <2>1, NamesPut
<1>7. ASSUME clash = FALSE
      PROVE  /\ new.types = Entered(ElementaryTypes, "types", "derived")
             /\ Defines(new.globals, "globals", "global") /\ Defines(new.functions, "functions", "function")
             /\ head = IF WithGlobals = {} THEN Null ELSE FirstGlobal
  <2> HIDE DEF clash
  <2>1. new.types = Entered(ElementaryTypes, "types", "derived")
    <3>1. DOMAIN tables.types = DOMAIN ElementaryTypes
      BY <1>4, <1>7 DEF ElementaryTypes
    <3>2. \A n \in DOMAIN ElementaryTypes : tables.types[n] = ElementaryTypes[n]
      BY <1>1 DEF TablesInv, ElementaryTypes
    <3> QED BY <3>1, <3>2 DEF Entered
  <2>2. Defines(new.globals, "globals", "global") /\ Defines(new.functions, "functions", "function")
    BY <1>1, <1>4, <1>7, EnteredDefines
  <2>3. head = IF WithGlobals = {} THEN Null ELSE FirstGlobal
    BY <1>4, <1>7
  <2> QED BY <2>1, <2>2, <2>3
<1> HIDE DEF clash, new, head
<1>8. FilesInv'
  BY <1>1, <1>2 DEF FilesInv
<1>9. StagesInv'
  BY <1>1, <1>2, <1>5 DEF StagesInv
<1>10. TablesInv'
  BY <1>2, <1>6, SameNames DEF TablesInv
<1>11. ASSUME clash = FALSE PROVE NamesEntered'
  <2>1. Entered(ElementaryTypes, "types", "derived")' = Entered(ElementaryTypes, "types", "derived")
    BY <1>2 DEF Entered, NamesOf, FirstWith
  <2>2. Defines(tables.globals, "globals", "global")' /\ Defines(tables.functions, "functions", "function")'
    <3>1. /\ \A f : UNION {NamesOf(l, f) : l \in units}' = UNION {NamesOf(l, f) : l \in units}
          /\ \A n, f : UnitOf(n, f)' = UnitOf(n, f)
      BY <1>2 DEF NamesOf, UnitOf
    <3>2. tables'.globals = new.globals /\ tables'.functions = new.functions
      BY <1>2
    <3>3. Defines(new.globals, "globals", "global") /\ Defines(new.functions, "functions", "function")
      BY <1>7, <1>11
    <3>4. Defines(tables.globals, "globals", "global")'
      BY <3>1, <3>2, <3>3 DEF Defines
    <3>5. Defines(tables.functions, "functions", "function")'
      BY <3>1, <3>2, <3>3 DEF Defines
    <3> QED BY <3>4, <3>5
  <2> QED BY <1>2, <1>4, <1>7, <1>11, <2>1, <2>2, SameNames, SameTypes DEF NamesEntered
<1>12. ASSUME clash = FALSE PROVE GlobalsKept'
  <2>1. \A n \in DOMAIN new.globals : \E l \in DOMAIN loads :
           /\ new.globals[n] = Object(l, n, "global") /\ n \in NamesOf(l, "globals")
           /\ WithGlobals # {} /\ FirstGlobal # Null /\ loads[FirstGlobal.load].globals # <<>>
           /\ loads[l].path = loads[FirstGlobal.load].path => l = FirstGlobal.load
    BY <1>1, <1>4, <1>7, <1>12, GlobalsAreKept
  <2>2. WithGlobals # {} => head = FirstGlobal
    BY <1>7, <1>12
  <2> QED BY <1>2, <2>1, <2>2, SameNames DEF GlobalsKept
<1>13. EnteredInv' /\ GlobalsInv' /\ AliasesInv'
  BY <1>1, <1>2, <1>5, <1>11, <1>12 DEF EnteredInv, GlobalsInv, AliasesInv
<1>14. TypesInv'
  <2>1. /\ pointers' = [parent |-> pointers'.parent, ancestor |-> pointers'.ancestor, ranged |-> pointers'.ranged]
        /\ IsFiniteSet(DOMAIN pointers'.ancestor) /\ IsFiniteSet(DOMAIN pointers'.ranged)
    BY <1>1, <1>2 DEF TypesInv
  <2>2. ASSUME ~errors'
        PROVE  \A l \in units' : OnceNamed(l)' => \A d \in Declared(l)' : Unresolved(l, d)'
    <3>1. ~errors /\ DOMAIN tables.types = DOMAIN Elementary
      BY <1>1, <1>4, <1>5, <2>2
    <3>2. \A l \in units : OnceNamed(l) => \A d \in Declared(l) : Unresolved(l, d)
      BY <1>1, <3>1 DEF TypesInv
    <3>3. \A l : OnceNamed(l)' <=> OnceNamed(l)
      BY <1>2 DEF OnceNamed, OnceIn
    <3>4. \A l, d : Unresolved(l, d)' <=> Unresolved(l, d)
      BY <1>2 DEF Unresolved
    <3> QED BY <1>2, <3>2, <3>3, <3>4, SameTypes
  <2>3. ~(stage' \in {"globals", "externals", "functions", "finalize"} \/ ~needsLinking')
    BY <1>1, <1>2, <1>5
  <2> QED BY <2>1, <2>2, <2>3 DEF TypesInv
<1> QED BY <1>1, <1>2, <1>8, <1>9, <1>10, <1>13, <1>14 DEF LinkInv

\* The objects of the types of a file are finitely many.
LEMMA ObjectsAreFinite ==
  ASSUME NEW declarations \in Seq(TypeDeclarations), NEW l, NEW part,
         NEW T, T \subseteq {Object(l, declarations[i].name, part) : i \in DOMAIN declarations}
  PROVE  IsFiniteSet(T)
<1> DEFINE image(n) == {Object(l, declarations[i].name, part) : i \in 1..n}
<1> DEFINE Bad == {n \in Nat : ~IsFiniteSet(image(n))}
<1>1. ASSUME Bad # {} PROVE FALSE
  <2>1. Bad \subseteq Nat
    OBVIOUS
  <2> HIDE DEF Bad
  <2>2. PICK m \in Bad : m \in Nat /\ (m # 0 => m - 1 \in Nat /\ m - 1 \notin Bad)
    BY <1>1, <2>1, Least
  <2>3. CASE m = 0
    <3>1. image(m) = {}
      BY <2>3
    <3> QED BY <2>2, <3>1, FS_EmptySet DEF Bad
  <2>4. CASE m # 0
    <3>1. IsFiniteSet(image(m - 1))
      BY <2>2, <2>4 DEF Bad
    <3>2. 1..m = (1..(m - 1)) \union {m}
      BY <2>2, <2>4
    <3>3. image(m) = image(m - 1) \union {Object(l, declarations[m].name, part)}
      BY <3>2
    <3> HIDE DEF image
    <3>4. IsFiniteSet(image(m))
      BY <3>1, <3>3, FS_AddElement
    <3> QED BY <2>2, <3>4 DEF Bad
  <2> QED BY <2>3, <2>4
<1>2. Len(declarations) \in Nat /\ DOMAIN declarations = 1..Len(declarations)
  OBVIOUS
<1>3. IsFiniteSet(image(Len(declarations)))
  BY <1>1, <1>2
<1>4. T \in SUBSET image(Len(declarations))
  BY <1>2
<1> HIDE DEF image
<1> QED BY <1>3, <1>4, FS_Subset

\* What a parse leaves of the types of a file.
LEMMA ParsedTypes ==
  ASSUME NEW content, content.types \in Seq(TypeDeclarations), NEW l, NEW more, more = Parsed(l, content)
  PROVE  /\ DOMAIN more.parent = DOMAIN more.ancestor
         /\ IsFiniteSet(DOMAIN more.ancestor) /\ IsFiniteSet(DOMAIN more.ranged)
         /\ \A o \in DOMAIN more.ancestor : o.load = l
         /\ \A o \in DOMAIN more.ranged : o.load = l /\ more.ranged[o] = Null
         /\ \A i \in DOMAIN content.types :
              LET named == Object(l, content.types[i].name, "derived")
                  inline == Object(l, content.types[i].name, "inline")
              IN /\ named \in DOMAIN more.ancestor
                 /\ more.parent[named] = more.ancestor[named]
                 /\ content.types[i].k = "subrange" =>
                      inline \in DOMAIN more.ranged /\ more.ancestor[named] = inline
                 /\ content.types[i].k # "subrange" /\ OnceIn(content.types) => more.ancestor[named] = Null
<1> DEFINE declared == {content.types[i] : i \in DOMAIN content.types}
<1> DEFINE names == {Object(l, d.name, "derived") : d \in declared}
<1> DEFINE inlines == {Object(l, d.name, "inline") : d \in {x \in declared : x.k = "subrange"}}
<1> DEFINE Inner(o) == IF Object(l, o.name, "inline") \in inlines THEN Object(l, o.name, "inline") ELSE Null
<1>1. more = [parent |-> [o \in names |-> Inner(o)], ancestor |-> [o \in names |-> Inner(o)],
              ranged |-> [o \in inlines |-> Null]]
  BY Zenon DEF Parsed
<1>2. DOMAIN more.parent = names /\ DOMAIN more.ancestor = names /\ DOMAIN more.ranged = inlines
  BY <1>1
<1>3. names \subseteq {Object(l, content.types[i].name, "derived") : i \in DOMAIN content.types}
  OBVIOUS
<1>4. inlines \subseteq {Object(l, content.types[i].name, "inline") : i \in DOMAIN content.types}
  OBVIOUS
<1>5. IsFiniteSet(names) /\ IsFiniteSet(inlines)
  <2> HIDE DEF names, inlines
  <2>1. IsFiniteSet(names)
    BY <1>3, ObjectsAreFinite
  <2>2. IsFiniteSet(inlines)
    BY <1>4, ObjectsAreFinite
  <2> QED BY <2>1, <2>2
<1>6. (\A o \in names : o.load = l) /\ \A o \in inlines : o.load = l /\ more.ranged[o] = Null
  BY <1>1, Parts
<1>7. ASSUME NEW i \in DOMAIN content.types
      PROVE  LET named == Object(l, content.types[i].name, "derived")
                 inline == Object(l, content.types[i].name, "inline")
             IN /\ named \in names
                /\ more.parent[named] = more.ancestor[named]
                /\ content.types[i].k = "subrange" => inline \in inlines /\ more.ancestor[named] = inline
                /\ content.types[i].k # "subrange" /\ OnceIn(content.types) => more.ancestor[named] = Null
  <2> DEFINE d == content.types[i]
  <2> DEFINE named == Object(l, d.name, "derived")
  <2> DEFINE inline == Object(l, d.name, "inline")
  <2>1. named \in names /\ named.name = d.name
    BY Parts
  <2>2. more.parent[named] = Inner(named) /\ more.ancestor[named] = Inner(named)
    BY <1>1, <2>1
  <2>3. Inner(named) = IF inline \in inlines THEN inline ELSE Null
    BY <2>1
  <2>4. d.k = "subrange" => inline \in inlines
    OBVIOUS
  <2>5. ASSUME d.k # "subrange", OnceIn(content.types) PROVE inline \notin inlines
    <3>1. SUFFICES ASSUME inline \in inlines PROVE FALSE
      OBVIOUS
    <3>2. PICK j \in DOMAIN content.types :
            content.types[j].k = "subrange" /\ Object(l, content.types[j].name, "inline") = inline
      BY <3>1
    <3>3. content.types[j].name = d.name
      BY <3>2, Parts
    <3>4. i = j
      BY <2>5, <3>3 DEF OnceIn
    <3> QED BY <2>5, <3>2, <3>4
  <2> HIDE DEF names, inlines, Inner
  <2> QED BY <2>1, <2>2, <2>3, <2>4, <2>5
<1> HIDE DEF names, inlines
<1> QED BY <1>1, <1>2, <1>5, <1>6, <1>7

\* A file more among those that were loaded.
LEMMA FilesLoaded ==
  ASSUME FilesInv, NEW path \in DOMAIN files, UNCHANGED files,
         loads' = Append(loads, files[path]),
         units' = {u \in units : loads[u].path # path} \union {Len(loads) + 1}
  PROVE  /\ FilesInv'
         /\ Len(loads) + 1 \notin DOMAIN loads /\ loads'[Len(loads) + 1] = files[path]
         /\ \A l \in DOMAIN loads : l \in DOMAIN loads' /\ loads'[l] = loads[l]
         /\ files[path].types \in Seq(TypeDeclarations)
<1> DEFINE N == Len(loads) + 1
<1> DEFINE Files == {files[p] : p \in DOMAIN files}
<1>1. loads \in Seq(Files) /\ files[path] \in Files
  BY DEF FilesInv
<1> HIDE DEF Files
<1>2. /\ Len(loads) \in Nat /\ DOMAIN loads = 1..Len(loads)
      /\ loads' \in Seq(Files) /\ DOMAIN loads' = 1..N /\ loads'[N] = files[path]
      /\ \A l \in DOMAIN loads : loads'[l] = loads[l]
  BY <1>1
<1>3. DOMAIN loads' = DOMAIN loads \union {N} /\ N \notin DOMAIN loads
  BY <1>2
<1>4. files \in Directories /\ units \subseteq DOMAIN loads
  BY DEF FilesInv
<1>5. files[path].path = path /\ files[path].types \in Seq(TypeDeclarations)
  BY <1>4, DirectoriesAssumption
<1> HIDE DEF N
<1>6. units' = {u \in units : loads[u].path # path} \union {N}
  BY DEF N
<1>7. ASSUME NEW l \in DOMAIN loads' PROVE \E u \in units' : loads'[u] = loads'[l]
  <2>1. CASE l = N
    BY <1>6, <2>1
  <2>2. CASE l \in DOMAIN loads
    <3>1. PICK u \in units : loads[u] = loads[l]
      BY <2>2 DEF FilesInv
    <3>2. CASE loads[u].path # path
      BY <1>2, <1>4, <1>6, <2>2, <3>1, <3>2
    <3>3. CASE loads[u].path = path
      <4>1. loads[l] = files[path]
        BY <2>2, <3>1, <3>3, LoadedFiles
      <4> QED BY <1>2, <1>6, <2>2, <4>1
    <3> QED BY <3>2, <3>3
  <2> QED BY <1>3, <2>1, <2>2
<1>8. ASSUME NEW u \in units', NEW v \in units', loads'[u].path = loads'[v].path PROVE u = v
  <2>1. ASSUME NEW w \in units', w # N PROVE w \in units /\ loads'[w].path # path /\ loads'[w] = loads[w]
    BY <1>2, <1>4, <1>6, <2>1
  <2>2. loads'[N].path = path
    BY <1>2, <1>5
  <2>3. CASE u # N /\ v # N
    <3>1. u \in units /\ v \in units /\ loads'[u] = loads[u] /\ loads'[v] = loads[v]
      BY <2>1, <2>3
    <3>2. loads[u].path = loads[v].path
      BY <1>8, <3>1
    <3>3. \A a \in units : \A b \in units : loads[a].path = loads[b].path => a = b
      BY DEF FilesInv
    <3> QED BY <3>1, <3>2, <3>3
  <2>4. CASE u = N \/ v = N
    BY <1>8, <2>1, <2>2, <2>4
  <2> QED BY <2>3, <2>4
<1>9. units' \subseteq DOMAIN loads'
  BY <1>3, <1>4, <1>6
<1>10. loads' \in Seq({files'[p] : p \in DOMAIN files'})
  BY <1>2 DEF Files
<1>11. FilesInv'
  BY <1>4, <1>7, <1>8, <1>9, <1>10 DEF FilesInv
<1>12. N \notin DOMAIN loads /\ loads'[N] = files[path] /\ \A l \in DOMAIN loads : l \in DOMAIN loads' /\ loads'[l] = loads[l]
  BY <1>2, <1>3
<1> QED BY <1>5, <1>11, <1>12 DEF N

\* The types of a new file are unresolved, and the others as they were.
LEMMA TypesLoaded ==
  ASSUME FilesInv, TypesInv, ~errors, DOMAIN tables.types = DOMAIN Elementary,
         NEW content, content.types \in Seq(TypeDeclarations), NEW N, N \notin DOMAIN loads,
         NEW more, more = Parsed(N, content),
         pointers' = [parent |-> Extended(pointers.parent, more.parent),
                      ancestor |-> Extended(pointers.ancestor, more.ancestor),
                      ranged |-> Extended(pointers.ranged, more.ranged)],
         loads'[N] = content, \A l \in DOMAIN loads : loads'[l] = loads[l],
         NEW l \in units', l \in units \/ l = N, OnceNamed(l)',
         NEW d \in Declared(l)'
  PROVE  Unresolved(l, d)'
<1>1. /\ DOMAIN more.parent = DOMAIN more.ancestor
      /\ \A o \in DOMAIN more.ancestor : o.load = N
      /\ \A o \in DOMAIN more.ranged : o.load = N /\ more.ranged[o] = Null
  BY ParsedTypes
<1>2. /\ DOMAIN pointers'.parent = DOMAIN pointers.parent \union DOMAIN more.parent
      /\ DOMAIN pointers'.ancestor = DOMAIN pointers.ancestor \union DOMAIN more.ancestor
      /\ DOMAIN pointers'.ranged = DOMAIN pointers.ranged \union DOMAIN more.ranged
      /\ \A o \in DOMAIN pointers'.parent :
           pointers'.parent[o] = IF o \in DOMAIN more.parent THEN more.parent[o] ELSE pointers.parent[o]
      /\ \A o \in DOMAIN pointers'.ancestor :
           pointers'.ancestor[o] = IF o \in DOMAIN more.ancestor THEN more.ancestor[o] ELSE pointers.ancestor[o]
      /\ \A o \in DOMAIN pointers'.ranged :
           pointers'.ranged[o] = IF o \in DOMAIN more.ranged THEN more.ranged[o] ELSE pointers.ranged[o]
  BY DEF Extended
<1>3. Named(l, d).load = l /\ Inline(l, d).load = l
  BY Parts DEF Named, Inline
<1>4. CASE l = N
  <2>1. PICK i \in DOMAIN content.types : d = content.types[i]
    BY <1>4 DEF Declared
  <2>2. OnceIn(content.types)
    BY <1>4 DEF OnceNamed, OnceIn
  <2>3. /\ Named(l, d) \in DOMAIN more.ancestor
        /\ more.parent[Named(l, d)] = more.ancestor[Named(l, d)]
        /\ d.k = "subrange" => Inline(l, d) \in DOMAIN more.ranged /\ more.ancestor[Named(l, d)] = Inline(l, d)
        /\ d.k # "subrange" => more.ancestor[Named(l, d)] = Null
    BY <1>4, <2>1, <2>2, ParsedTypes DEF Named, Inline
  <2>4. Named(l, d)' = Named(l, d) /\ Inline(l, d)' = Inline(l, d)
    BY DEF Named, Inline
  <2> QED BY <1>1, <1>2, <2>3, <2>4 DEF Unresolved
<1>5. CASE l # N /\ l \in units
  <2>1. loads'[l] = loads[l]
    BY <1>5 DEF FilesInv
  <2>2. d \in Declared(l) /\ OnceNamed(l)
    BY <2>1 DEF Declared, OnceNamed, OnceIn
  <2>3. Unresolved(l, d)
    BY <1>5, <2>2 DEF TypesInv
  <2>4. Named(l, d) \notin DOMAIN more.ancestor /\ Inline(l, d) \notin DOMAIN more.ranged
    BY <1>1, <1>3, <1>5
  <2>5. Named(l, d)' = Named(l, d) /\ Inline(l, d)' = Inline(l, d)
    BY DEF Named, Inline
  <2> QED BY <1>1, <1>2, <2>3, <2>4, <2>5 DEF Unresolved
<1> QED BY <1>4, <1>5

LEMMA LoadKeeps ==
  ASSUME LinkInv, NEW path \in DOMAIN files, Load(path)
  PROVE  LinkInv'
<1> DEFINE N == Len(loads) + 1
<1> DEFINE more == Parsed(N, files[path])
<1>1. /\ FilesInv /\ TablesInv /\ GlobalsInv /\ TypesInv
      /\ errors \in BOOLEAN /\ crashed = FALSE /\ stage = "idle"
  BY DEF LinkInv, StagesInv, Load, Idle
<1>2. /\ loads' = Append(loads, files[path])
      /\ units' = {u \in units : loads[u].path # path} \union {N}
      /\ pointers' = [parent |-> Extended(pointers.parent, more.parent),
                      ancestor |-> Extended(pointers.ancestor, more.ancestor),
                      ranged |-> Extended(pointers.ranged, more.ranged)]
      /\ needsLinking' = TRUE
      /\ UNCHANGED <<files, tables, globalsHead, created, aliases, errors, stage, answer, main, crashed>>
  BY Zenon DEF Load
<1>3. /\ FilesInv' /\ N \notin DOMAIN loads /\ loads'[N] = files[path]
      /\ \A l \in DOMAIN loads : l \in DOMAIN loads' /\ loads'[l] = loads[l]
      /\ files[path].types \in Seq(TypeDeclarations)
  BY <1>1, <1>2, FilesLoaded
<1> HIDE DEF N, more
<1>4. StagesInv'
  BY <1>1, <1>2 DEF StagesInv
<1>5. \A l \in DOMAIN loads : \A field : NamesOf(l, field)' = NamesOf(l, field)
  BY <1>3 DEF NamesOf
<1>6. TablesInv'
  BY <1>1, <1>2, <1>3, <1>5 DEF TablesInv
<1>7. GlobalsInv'
  <2>1. GlobalsKept => GlobalsKept'
    <3>1. globalsHead # Null => loads'[globalsHead.load] = loads[globalsHead.load]
      BY <1>1, <1>3 DEF TablesInv
    <3>2. UNCHANGED <<tables, globalsHead>>
      BY <1>2
    <3> SUFFICES ASSUME GlobalsKept, NEW n \in DOMAIN tables.globals
                 PROVE  \E l \in DOMAIN loads' :
                          /\ tables.globals[n] = Object(l, n, "global") /\ n \in NamesOf(l, "globals")'
                          /\ globalsHead # Null /\ loads'[globalsHead.load].globals # <<>>
                          /\ loads'[l].path = loads'[globalsHead.load].path => l = globalsHead.load
      BY <3>2 DEF GlobalsKept
    <3>3. PICK l \in DOMAIN loads :
            /\ tables.globals[n] = Object(l, n, "global") /\ n \in NamesOf(l, "globals")
            /\ globalsHead # Null /\ loads[globalsHead.load].globals # <<>>
            /\ loads[l].path = loads[globalsHead.load].path => l = globalsHead.load
      BY DEF GlobalsKept
    <3>4. l \in DOMAIN loads' /\ loads'[l] = loads[l] /\ NamesOf(l, "globals")' = NamesOf(l, "globals")
      BY <1>3, <1>5
    <3> QED BY <3>1, <3>3, <3>4
  <2>2. GlobalsOf(globalsHead)' = GlobalsOf(globalsHead)
    <3>1. globalsHead # Null => loads'[globalsHead.load] = loads[globalsHead.load]
      BY <1>1, <1>3 DEF TablesInv
    <3> QED BY <1>2, <3>1 DEF GlobalsOf
  <2> QED BY <1>1, <1>2, <2>1, <2>2 DEF GlobalsInv
<1>8. EnteredInv' /\ AliasesInv'
  BY <1>1, <1>2 DEF EnteredInv, AliasesInv
<1>9. TypesInv'
  <2>1. pointers' = [parent |-> pointers'.parent, ancestor |-> pointers'.ancestor, ranged |-> pointers'.ranged]
    BY <1>2
  <2>2. IsFiniteSet(DOMAIN pointers'.ancestor) /\ IsFiniteSet(DOMAIN pointers'.ranged)
    <3>1. IsFiniteSet(DOMAIN more.ancestor) /\ IsFiniteSet(DOMAIN more.ranged)
      BY <1>3, ParsedTypes DEF more
    <3>2. /\ DOMAIN pointers'.ancestor = DOMAIN pointers.ancestor \union DOMAIN more.ancestor
          /\ DOMAIN pointers'.ranged = DOMAIN pointers.ranged \union DOMAIN more.ranged
      BY <1>2 DEF Extended
    <3>3. IsFiniteSet(DOMAIN pointers.ancestor) /\ IsFiniteSet(DOMAIN pointers.ranged)
      BY <1>1 DEF TypesInv
    <3>4. IsFiniteSet(DOMAIN pointers.ancestor \union DOMAIN more.ancestor)
      BY <3>1, <3>3, FS_Union, Zenon
    <3>5. IsFiniteSet(DOMAIN pointers.ranged \union DOMAIN more.ranged)
      BY <3>1, <3>3, FS_Union, Zenon
    <3> QED BY <3>2, <3>4, <3>5
  <2>3. ASSUME ~errors', DOMAIN tables'.types = DOMAIN Elementary,
               NEW l \in units', OnceNamed(l)', NEW d \in Declared(l)'
        PROVE  Unresolved(l, d)'
    <3>1. ~errors /\ DOMAIN tables.types = DOMAIN Elementary
      BY <1>2, <2>3
    <3>2. l \in units \/ l = N
      BY <1>2
    <3>3. more = Parsed(N, files[path])
      BY DEF more
    <3> QED BY <1>1, <1>2, <1>3, <2>3, <3>1, <3>2, <3>3, TypesLoaded
  <2> QED BY <1>1, <1>2, <2>1, <2>2, <2>3 DEF TypesInv
<1>10. ~crashed'
  BY <1>1, <1>2
<1> QED BY <1>3, <1>4, <1>6, <1>7, <1>8, <1>9, <1>10 DEF LinkInv

\* Where a stage that is not the last goes.
LEMMA ReachedNext ==
  ASSUME LinkInv, stage # "idle", NEW next \in {"externals", "functions", "finalize"},
         NEW new \in BOOLEAN, Reached(next, new)
  PROVE  /\ errors = FALSE /\ needsLinking = TRUE /\ crashed = FALSE /\ answer # "ok"
         /\ errors' = new /\ stage' = IF new THEN "idle" ELSE next
         /\ answer' = IF new THEN "error" ELSE "none"
BY DEF LinkInv, StagesInv, Reached, Stops

LEMMA CreateGlobalsKeeps ==
  ASSUME LinkInv, CreateGlobals
  PROVE  LinkInv' /\ ~errors' /\ ~crashed'
<1>1. /\ stage = "globals" /\ Reached("externals", FALSE)
      /\ created' = created \union GlobalsOf(globalsHead)
      /\ UNCHANGED <<files, loads, units, pointers, tables, globalsHead, aliases, needsLinking, main, crashed>>
  BY Zenon DEF CreateGlobals
<1>2. /\ errors = FALSE /\ needsLinking = TRUE /\ crashed = FALSE /\ answer # "ok"
      /\ errors' = FALSE /\ stage' = "externals" /\ answer' = "none"
  BY <1>1, ReachedNext
<1>3. Quiet
  BY <1>1, <1>2 DEF Quiet
<1>4. StagesInv' /\ AliasesInv'
  BY <1>1, <1>2 DEF StagesInv, AliasesInv
<1>5. crashed' => ~Ordered
  BY <1>1, <1>2
<1> QED BY <1>1, <1>2, <1>3, <1>4, <1>5, QuietStep

\* A name of a table has an object in it.
LEMMA TargetsFound ==
  ASSUME NEW table, NEW n, Target(table, n) # Null
  PROVE  n \in DOMAIN table /\ Target(table, n) = table[n]
BY DEF Target

LEMMA ResolveExternalsKeeps ==
  ASSUME LinkInv, ResolveExternals
  PROVE  LinkInv'
<1> DEFINE references == AllReferences(Externals, "global")
<1> DEFINE missing == \E r \in references : Target(tables.globals, r.name) = Null
<1>1. /\ stage = "externals" /\ Reached("functions", missing)
      /\ aliases' = Extended(aliases, [r \in references |-> Target(tables.globals, r.name)])
      /\ UNCHANGED <<files, loads, units, pointers, tables, globalsHead, created, needsLinking, main, crashed>>
  BY Zenon DEF ResolveExternals, Resolve
<1>2. missing \in BOOLEAN
  OBVIOUS
<1>3. missing = FALSE => \A r \in references : Target(tables.globals, r.name) # Null
  OBVIOUS
<1> HIDE DEF missing
<1>4. /\ errors = FALSE /\ needsLinking = TRUE /\ crashed = FALSE /\ answer # "ok"
      /\ errors' = missing /\ stage' = IF missing THEN "idle" ELSE "functions"
      /\ answer' = IF missing THEN "error" ELSE "none"
  BY <1>1, <1>2, ReachedNext
<1>5. Quiet
  BY <1>1, <1>4 DEF Quiet
<1>6. StagesInv'
  BY <1>1, <1>2, <1>4 DEF StagesInv
<1>7. ASSUME missing = FALSE PROVE ExternalsResolved'
  <2>1. AllReferences(Externals, "global")' = references
    BY <1>1, SameNames
  <2> HIDE DEF references
  <2>2. ASSUME NEW r \in references
        PROVE  /\ r \in DOMAIN aliases' /\ r.name \in DOMAIN tables.globals
               /\ aliases'[r] = tables.globals[r.name]
    <3>1. r \in DOMAIN aliases' /\ aliases'[r] = Target(tables.globals, r.name)
      BY <1>1 DEF Extended
    <3> QED BY <1>3, <1>7, <3>1, TargetsFound
  <2> QED BY <1>1, <2>1, <2>2 DEF ExternalsResolved
<1>8. AliasesInv'
  BY <1>1, <1>2, <1>4, <1>7 DEF AliasesInv
<1>9. crashed' => ~Ordered
  BY <1>1, <1>4
<1> QED BY <1>5, <1>6, <1>8, <1>9, QuietStep

LEMMA ResolveFunctionsKeeps ==
  ASSUME LinkInv, ResolveFunctions
  PROVE  LinkInv'
<1> DEFINE references == AllReferences(Calls, "function")
<1> DEFINE missing == \E r \in references : Target(tables.functions, r.name) = Null
<1>1. /\ stage = "functions" /\ Reached("finalize", missing)
      /\ aliases' = Extended(aliases, [r \in references |-> Target(tables.functions, r.name)])
      /\ UNCHANGED <<files, loads, units, pointers, tables, globalsHead, created, needsLinking, main, crashed>>
  BY Zenon DEF ResolveFunctions, Resolve
<1>2. missing \in BOOLEAN
  OBVIOUS
<1>3. missing = FALSE => \A r \in references : Target(tables.functions, r.name) # Null
  OBVIOUS
<1> HIDE DEF missing
<1>4. /\ errors = FALSE /\ needsLinking = TRUE /\ crashed = FALSE /\ answer # "ok"
      /\ errors' = missing /\ stage' = IF missing THEN "idle" ELSE "finalize"
      /\ answer' = IF missing THEN "error" ELSE "none"
  BY <1>1, <1>2, ReachedNext
<1>5. Quiet
  BY <1>1, <1>4 DEF Quiet
<1>6. StagesInv'
  BY <1>1, <1>2, <1>4 DEF StagesInv
<1>7. ASSUME missing = FALSE PROVE CallsResolved'
  <2>1. AllReferences(Calls, "function")' = references
    BY <1>1, SameNames
  <2> HIDE DEF references
  <2>2. ASSUME NEW r \in references
        PROVE  /\ r \in DOMAIN aliases' /\ r.name \in DOMAIN tables.functions
               /\ aliases'[r] = tables.functions[r.name]
    <3>1. r \in DOMAIN aliases' /\ aliases'[r] = Target(tables.functions, r.name)
      BY <1>1 DEF Extended
    <3> QED BY <1>3, <1>7, <3>1, TargetsFound
  <2> QED BY <1>1, <2>1, <2>2 DEF CallsResolved
<1>8. ExternalsResolved'
  <2>1. AllReferences(Externals, "global")' = AllReferences(Externals, "global")
    BY <1>1, SameNames
  <2>2. \A r \in references : r.part = "function"
    BY DEF AllReferences, References
  <2>3. \A r \in AllReferences(Externals, "global") : r.part = "global"
    BY DEF AllReferences, References
  <2> HIDE DEF references
  <2>4. ASSUME NEW r \in AllReferences(Externals, "global")
        PROVE  r \in DOMAIN aliases' /\ r.name \in DOMAIN tables.globals /\ aliases'[r] = tables.globals[r.name]
    <3>1. r \in DOMAIN aliases /\ r.name \in DOMAIN tables.globals /\ aliases[r] = tables.globals[r.name]
      BY <1>1 DEF LinkInv, AliasesInv, ExternalsResolved
    <3>2. r \notin references
      BY <2>2, <2>3
    <3>3. r \in DOMAIN aliases' /\ aliases'[r] = aliases[r]
      BY <1>1, <3>1, <3>2 DEF Extended
    <3> QED BY <3>1, <3>3
  <2> QED BY <1>1, <2>1, <2>4 DEF ExternalsResolved
<1>9. AliasesInv'
  BY <1>1, <1>2, <1>4, <1>7, <1>8 DEF AliasesInv
<1>10. crashed' => ~Ordered
  BY <1>1, <1>4
<1> QED BY <1>5, <1>6, <1>9, <1>10, QuietStep

\* Statements are verified in files that keep to the order.
LEMMA OrderedAreVerified ==
  ASSUME LinkInv, stage = "finalize", Ordered, NEW l \in units, NEW d \in ProgramsOf(l)
  PROVE  Verified(d) = "ok"
<1>1. FilesInv /\ TablesInv /\ GlobalsKept /\ GlobalsOf(globalsHead) \subseteq created /\ ExternalsResolved
  BY DEF LinkInv, GlobalsInv, AliasesInv
<1>2. ASSUME NEW n \in d.writes \union d.reads PROVE HasValue(n)
  <2> DEFINE r == [unit |-> l, program |-> d.name, name |-> n, part |-> "global"]
  <2>1. r \in AllReferences(Externals, "global")
    BY DEF AllReferences, References, Externals
  <2>2. r.name = n
    OBVIOUS
  <2>3. n \in DOMAIN tables.globals
    BY <1>1, <2>1, <2>2 DEF ExternalsResolved
  <2> QED BY <1>1, <2>3, OrderedHaveValues
<1> QED BY <1>2 DEF Verified

LEMMA FinalizeKeeps ==
  ASSUME LinkInv, Finalize
  PROVE  LinkInv' /\ (Ordered => ~errors' /\ ~crashed')
<1> DEFINE results == {Verified(d) : d \in UNION {ProgramsOf(l) : l \in units}}
<1>1. /\ stage = "finalize" /\ Reached("idle", results \ {"ok"} # {})
      /\ crashed' = ("crash" \in results) /\ needsLinking' = (results \ {"ok"} # {})
      /\ UNCHANGED <<files, loads, units, pointers, tables, globalsHead, created, aliases, main>>
  BY Zenon DEF Finalize
<1>2. Ordered => results \ {"ok"} = {}
  BY <1>1, OrderedAreVerified
<1>3. "crash" \in results => results \ {"ok"} # {}
  OBVIOUS
<1> HIDE DEF results
<1>4. errors = FALSE /\ needsLinking = TRUE /\ crashed = FALSE /\ answer # "ok"
  BY <1>1 DEF LinkInv, StagesInv
<1>5. /\ errors' = (results \ {"ok"} # {}) /\ stage' = "idle"
      /\ answer' = IF results \ {"ok"} # {} THEN "error" ELSE "ok"
  BY <1>1, <1>4 DEF Reached, Stops
<1>6. Quiet
  BY <1>1, <1>4, <1>5 DEF Quiet
<1>7. StagesInv'
  BY <1>1, <1>5 DEF StagesInv
<1>8. ExternalsResolved' /\ CallsResolved'
  BY <1>1, SameAliases DEF LinkInv, AliasesInv
<1>9. AliasesInv'
  BY <1>8 DEF AliasesInv
<1>10. crashed' => ~Ordered
  BY <1>1, <1>2, <1>3
<1>11. Ordered => ~errors' /\ ~crashed'
  BY <1>2, <1>5, <1>10
<1> QED BY <1>6, <1>7, <1>9, <1>10, <1>11, QuietStep

\* Steps outside of st_link, once it is not at work.
LEMMA IdleKeeps ==
  ASSUME LinkInv, stage = "idle",
         UNCHANGED <<files, loads, units, pointers, tables, globalsHead, created, aliases, needsLinking, stage>>,
         errors' \in BOOLEAN, errors => errors',
         answer' = "ok" => answer = "ok" \/ ~needsLinking,
         crashed' \in BOOLEAN, crashed' => ~Ordered
  PROVE  LinkInv'
<1>1. Quiet
  BY DEF Quiet
<1>2. StagesInv'
  BY DEF LinkInv, StagesInv
<1>3. AliasesInv'
  BY SameAliases DEF LinkInv, AliasesInv
<1> QED BY <1>1, <1>2, <1>3, QuietStep

LEMMA AnsweredKeeps ==
  ASSUME LinkInv, NEW outcome, Answered(outcome), outcome = "crash" => ~Ordered
  PROVE  LinkInv'
<1>1. /\ stage = "idle" /\ errors' = (errors \/ outcome = "error") /\ crashed' = (outcome = "crash")
      /\ UNCHANGED <<files, loads, units, pointers, tables, globalsHead, created, aliases,
                     needsLinking, stage, answer>>
  BY DEF Answered, Idle
<1>2. errors \in BOOLEAN
  BY DEF LinkInv, StagesInv
<1> QED BY <1>1, <1>2, IdleKeeps

LEMMA OutcomesExplained ==
  ASSUME LinkInv, Idle, answer = "ok"
  PROVE  /\ GlobalsOf(globalsHead) \subseteq created
         /\ \A n \in DOMAIN tables.globals : Ordered => HasValue(n)
<1>1. FilesInv /\ TablesInv /\ GlobalsKept /\ GlobalsOf(globalsHead) \subseteq created
  BY DEF LinkInv, GlobalsInv
<1> QED BY <1>1, OrderedHaveValues

LEMMA CallsKeep ==
  ASSUME LinkInv
  PROVE  /\ \A name : Start(name) => LinkInv'
         /\ RunCycle => LinkInv'
         /\ \A name : Query(name) => LinkInv'
<1>1. ASSUME NEW name, Start(name) PROVE LinkInv'
  <2> DEFINE outcome == IF name \notin DOMAIN tables.programs THEN "error"
                        ELSE IF GlobalsOf(globalsHead) \subseteq created THEN "ok" ELSE "crash"
  <2>1. Answered(outcome)
    BY <1>1, Zenon DEF Start
  <2>2. GlobalsOf(globalsHead) \subseteq created
    BY <2>1, OutcomesExplained DEF Answered
  <2>3. outcome # "crash"
    BY <2>2
  <2> HIDE DEF outcome
  <2> QED BY <2>1, <2>3, AnsweredKeeps
<1>2. ASSUME RunCycle PROVE LinkInv'
  <2>1. Answered("error")
    BY <1>2 DEF RunCycle
  <2> QED BY <2>1, AnsweredKeeps
<1>3. ASSUME NEW name, Query(name) PROVE LinkInv'
  <2> DEFINE outcome == IF name \notin DOMAIN tables.globals THEN "error"
                        ELSE IF HasValue(name) THEN "ok" ELSE "crash"
  <2>1. Answered(outcome)
    BY <1>3, Zenon DEF Query
  <2>2. \A n \in DOMAIN tables.globals : Ordered => HasValue(n)
    BY <2>1, OutcomesExplained DEF Answered
  <2>3. outcome = "crash" => ~Ordered
    BY <2>2
  <2> HIDE DEF outcome
  <2> QED BY <2>1, <2>3, AnsweredKeeps
<1> QED BY <1>1, <1>2, <1>3

LEMMA LoadFailsKeeps ==
  ASSUME LinkInv, NEW path, LoadFails(path)
  PROVE  LinkInv'
<1>1. /\ stage = "idle" /\ ~crashed /\ errors' = TRUE
      /\ UNCHANGED <<files, loads, units, pointers, tables, globalsHead, created, aliases,
                     needsLinking, stage, answer, main, crashed>>
  BY DEF LoadFails, Idle
<1>2. crashed \in BOOLEAN
  BY DEF LinkInv, StagesInv
<1> QED BY <1>1, <1>2, IdleKeeps

LEMMA LinkNotNeededKeeps ==
  ASSUME LinkInv, LinkNotNeeded
  PROVE  LinkInv'
<1>1. /\ stage = "idle" /\ ~crashed /\ ~needsLinking
      /\ UNCHANGED <<files, loads, units, pointers, tables, globalsHead, created, aliases, errors,
                     needsLinking, stage, main, crashed>>
  BY DEF LinkNotNeeded, Idle
<1>2. crashed \in BOOLEAN /\ errors \in BOOLEAN
  BY DEF LinkInv, StagesInv
<1> QED BY <1>1, <1>2, IdleKeeps

LEMMA LinkInvBegins ==
  ASSUME Init
  PROVE  LinkInv
<1>1. /\ files \in Directories /\ loads = <<>> /\ units = {}
      /\ pointers = [parent |-> <<>>, ancestor |-> <<>>, ranged |-> <<>>]
      /\ tables = NoDefinitions /\ globalsHead = Null /\ created = {} /\ aliases = <<>>
      /\ errors = FALSE /\ needsLinking \in BOOLEAN
      /\ stage = "idle" /\ answer = "none" /\ crashed = FALSE
  BY DEF Init
<1>2. DOMAIN <<>> = {}
  OBVIOUS
<1>3. /\ DOMAIN tables.types = DOMAIN Elementary /\ tables.types = ElementaryTypes
      /\ DOMAIN tables.globals = {} /\ DOMAIN tables.functions = {}
  BY <1>1, <1>2 DEF NoDefinitions, ElementaryTypes
<1>4. FilesInv /\ StagesInv
  <2>1. \A S : <<>> \in Seq(S)
    OBVIOUS
  <2>2. loads \in Seq({files[path] : path \in DOMAIN files})
    BY <1>1, <2>1
  <2>3. DOMAIN loads = {}
    BY <1>1, <1>2
  <2>4. FilesInv
    BY <1>1, <2>2, <2>3 DEF FilesInv
  <2>5. StagesInv
    BY <1>1 DEF StagesInv
  <2> QED BY <2>4, <2>5
<1>5. TablesInv
  BY <1>1, <1>3 DEF TablesInv
<1>6. NamesEntered
  <2>1. Unique("types") /\ Unique("globals") /\ Unique("functions") /\ Unique("programs")
    BY <1>1 DEF Unique
  <2>2. AllTypes = {}
    BY <1>1 DEF AllTypes
  <2>3. TypeNames = {}
    BY <2>2 DEF TypeNames
  <2>4. tables.types = Entered(ElementaryTypes, "types", "derived")
    <3>1. Entered(ElementaryTypes, "types", "derived") = [n \in DOMAIN ElementaryTypes |-> ElementaryTypes[n]]
      BY <1>1 DEF Entered
    <3> QED BY <1>3, <3>1 DEF ElementaryTypes
  <2>5. Defines(tables.globals, "globals", "global") /\ Defines(tables.functions, "functions", "function")
    BY <1>1, <1>3 DEF Defines
  <2>6. WithGlobals = {}
    BY <1>1 DEF WithGlobals
  <2> QED BY <1>1, <2>1, <2>3, <2>4, <2>5, <2>6 DEF NamesEntered
<1>7. EnteredInv
  BY <1>6 DEF EnteredInv
<1>8. GlobalsInv
  <2>1. GlobalsKept
    BY <1>3 DEF GlobalsKept
  <2>2. GlobalsOf(globalsHead) \subseteq created
    BY <1>1 DEF GlobalsOf
  <2> QED BY <2>1, <2>2 DEF GlobalsInv
<1>9. AliasesInv
  <2>1. AllReferences(Externals, "global") = {} /\ AllReferences(Calls, "function") = {}
    BY <1>1 DEF AllReferences
  <2> QED BY <2>1 DEF AliasesInv, ExternalsResolved, CallsResolved
<1>10. TypesInv
  <2>1. TypesMean /\ GlobalsGrounded
    BY <1>1 DEF TypesMean, GlobalsGrounded, AllTypes
  <2>2. TypesLinked
    BY <1>1, <2>1 DEF TypesLinked, TypesLinkedBy
  <2>3. IsFiniteSet(DOMAIN pointers.ancestor) /\ IsFiniteSet(DOMAIN pointers.ranged)
    BY <1>1, <1>2, FS_EmptySet
  <2> QED BY <1>1, <2>2, <2>3 DEF TypesInv
<1> QED BY <1>1, <1>4, <1>5, <1>7, <1>8, <1>9, <1>10 DEF LinkInv

LEMMA LinkInvKept ==
  ASSUME LinkInv, [Next]_vars
  PROVE  LinkInv'
<1>1. CASE \E path \in DOMAIN files : LoadFails(path)
  BY <1>1, LoadFailsKeeps
<1>2. CASE \E path \in DOMAIN files : Load(path)
  BY <1>2, LoadKeeps
<1>3. CASE LinkNotNeeded
  BY <1>3, LinkNotNeededKeeps
<1>4. CASE LinkNames
  BY <1>4, LinkNamesKeeps
<1>5. CASE ResolveTypes
  BY <1>5, ResolveTypesKeeps
<1>6. CASE CreateGlobals
  BY <1>6, CreateGlobalsKeeps
<1>7. CASE ResolveExternals
  BY <1>7, ResolveExternalsKeeps
<1>8. CASE ResolveFunctions
  BY <1>8, ResolveFunctionsKeeps
<1>9. CASE Finalize
  BY <1>9, FinalizeKeeps
<1>10. CASE \E name \in Names : Start(name)
  BY <1>10, CallsKeep
<1>11. CASE RunCycle
  BY <1>11, CallsKeep
<1>12. CASE \E name \in Names : Query(name)
  BY <1>12, CallsKeep
<1>13. CASE UNCHANGED vars
  <2>1. Quiet
    BY <1>13 DEF vars, Quiet
  <2>2. StagesInv'
    BY <1>13 DEF vars, LinkInv, StagesInv
  <2>3. AliasesInv'
    BY <1>13, SameAliases DEF vars, LinkInv, AliasesInv
  <2>4. crashed' => ~Ordered
    BY <1>13 DEF vars, LinkInv
  <2> QED BY <2>1, <2>2, <2>3, <2>4, QuietStep
<1> QED BY <1>1, <1>2, <1>3, <1>4, <1>5, <1>6, <1>7, <1>8, <1>9, <1>10, <1>11, <1>12, <1>13 DEF Next

\* A first link of files that mean something finds no name twice.
LEMMA GoodNames ==
  ASSUME LinkInv, LinkNames, tables = NoDefinitions, ~errors, Meaningful
  PROVE  ~errors' /\ ~crashed'
<1>1. DOMAIN <<>> = {}
  OBVIOUS
<1>2. /\ DOMAIN tables.types = DOMAIN Elementary /\ DOMAIN tables.globals = {}
      /\ DOMAIN tables.functions = {} /\ DOMAIN tables.programs = {}
  BY <1>1 DEF NoDefinitions, ElementaryTypes
<1>3. UNION {NamesOf(l, "types") : l \in units} = TypeNames
  BY DEF NamesOf, TypeNames, AllTypes, Declared
<1>4. \A l \in units : NamesOf(l, "types") \intersect DOMAIN tables.types = {}
  BY <1>2, <1>3 DEF Meaningful
<1>5. ~Clashes(tables.types, "types")
  BY <1>4 DEF Clashes, Meaningful
<1>6. ~Clashes(tables.globals, "globals") /\ ~Clashes(tables.functions, "functions")
  BY <1>2 DEF Clashes, Meaningful
<1>7. ~Clashes(tables.programs, "programs")
  BY <1>2 DEF Clashes, Meaningful
<1>8. crashed' = crashed /\ ~crashed
  BY DEF LinkNames, Idle
<1>9. Reached("types", Clashes(tables.types, "types") \/ Clashes(tables.globals, "globals")
                       \/ Clashes(tables.functions, "functions") \/ Clashes(tables.programs, "programs"))
  BY Zenon DEF LinkNames
<1>10. ~errors'
  BY <1>5, <1>6, <1>7, <1>9 DEF Reached
<1> QED BY <1>8, <1>10

LEMMA GoodTypes ==
  ASSUME LinkInv, ResolveTypes, Meaningful, Ordered
  PROVE  ~errors' /\ ~crashed'
<1>1. TypesMean /\ GlobalsGrounded
  BY DEF Meaningful, TypesMean, GlobalsGrounded
<1>2. Triggered.r = "ok"
  BY <1>1, TypesResolved DEF TriggeredTo
<1>3. ~errors
  BY DEF LinkInv, StagesInv, ResolveTypes
<1>4. crashed' = (Triggered.r = "crash") /\ Reached("globals", Triggered.r # "ok")
  BY DEF ResolveTypes
<1> QED BY <1>2, <1>3, <1>4 DEF Reached

\* A name that a unit defines is found in the table.
LEMMA DefinedIsFound ==
  ASSUME NEW table, NEW field, NEW part \in {"global", "function"}, Defines(table, field, part),
         NEW n, \E l \in units : n \in NamesOf(l, field)
  PROVE  Target(table, n) # Null
<1>1. n \in DOMAIN table /\ table[n] = Object(UnitOf(n, field), n, part)
  BY DEF Defines
<1>2. Object(UnitOf(n, field), n, part).part = part /\ Null.part = "null"
  BY Parts
<1> QED BY <1>1, <1>2 DEF Target

LEMMA GoodReferences ==
  ASSUME LinkInv, ResolveExternals \/ ResolveFunctions, Meaningful
  PROVE  ~errors' /\ ~crashed'
<1>1. ~errors /\ ~crashed /\ NamesEntered
  BY DEF LinkInv, StagesInv, EnteredInv, ResolveExternals, ResolveFunctions, Resolve
<1>2. CASE ResolveExternals
  <2> DEFINE references == AllReferences(Externals, "global")
  <2>1. Reached("functions", \E r \in references : Target(tables.globals, r.name) = Null) /\ crashed' = crashed
    BY <1>2, Zenon DEF ResolveExternals, Resolve
  <2>2. \A r \in references : Target(tables.globals, r.name) # Null
    BY <1>1, DefinedIsFound DEF Meaningful, NamesEntered
  <2> HIDE DEF references
  <2> QED BY <1>1, <2>1, <2>2 DEF Reached
<1>3. CASE ResolveFunctions
  <2> DEFINE references == AllReferences(Calls, "function")
  <2>1. Reached("finalize", \E r \in references : Target(tables.functions, r.name) = Null) /\ crashed' = crashed
    BY <1>3, Zenon DEF ResolveFunctions, Resolve
  <2>2. \A r \in references : Target(tables.functions, r.name) # Null
    BY <1>1, DefinedIsFound DEF Meaningful, NamesEntered
  <2> HIDE DEF references
  <2> QED BY <1>1, <2>1, <2>2 DEF Reached
<1> QED BY <1>2, <1>3

LEMMA GoodStages ==
  ASSUME LinkInv, FirstLink, ~errors, Meaningful, Ordered
  PROVE  ~errors' /\ ~crashed'
<1>1. CASE LinkNames /\ tables = NoDefinitions
  BY <1>1, GoodNames
<1>2. CASE ResolveTypes
  BY <1>2, GoodTypes
<1>3. CASE CreateGlobals
  BY <1>3, CreateGlobalsKeeps
<1>4. CASE ResolveExternals \/ ResolveFunctions
  BY <1>4, GoodReferences
<1>5. CASE Finalize
  BY <1>5, FinalizeKeeps
<1> QED BY <1>1, <1>2, <1>3, <1>4, <1>5 DEF FirstLink

\* What the invariant says of an instance that is linked.
LEMMA LinkedMeans ==
  ASSUME LinkInv
  PROVE  LinkedIsConsistent
<1> SUFFICES ASSUME ~needsLinking
             PROVE  /\ Meaningful
                    /\ \A l \in units : \A d \in Declared(l) :
                         LET named == Object(l, d.name, "derived")
                             inline == Object(l, d.name, "inline")
                         IN /\ tables.types[d.name] = named
                            /\ pointers.ancestor[named] = IF d.k = "subrange" THEN inline ELSE Behind(d.of)
                            /\ d.k = "subrange" => pointers.ranged[inline] = tables.types[d.of]
                    /\ \A r \in AllReferences(Externals, "global") :
                         aliases[r] = Object(UnitOf(r.name, "globals"), r.name, "global")
                    /\ \A r \in AllReferences(Calls, "function") :
                         aliases[r] = Object(UnitOf(r.name, "functions"), r.name, "function")
  BY DEF LinkedIsConsistent
<1>1. NamesEntered /\ TypesLinked /\ ExternalsResolved /\ CallsResolved
  BY DEF LinkInv, EnteredInv, TypesInv, AliasesInv
<1>2. \A r \in AllReferences(Externals, "global") :
        /\ \E l \in units : r.name \in NamesOf(l, "globals")
        /\ aliases[r] = Object(UnitOf(r.name, "globals"), r.name, "global")
  BY <1>1 DEF NamesEntered, Defines, ExternalsResolved
<1>3. \A r \in AllReferences(Calls, "function") :
        /\ \E l \in units : r.name \in NamesOf(l, "functions")
        /\ aliases[r] = Object(UnitOf(r.name, "functions"), r.name, "function")
  BY <1>1 DEF NamesEntered, Defines, CallsResolved
<1>4. /\ \A d \in AllTypes : Grounded(d.name) /\ (d.k = "subrange" => d.range \subseteq Numbers(d.of))
      /\ \A l \in units : \A g \in DOMAIN loads[l].globals : Grounded(loads[l].globals[g].type)
  BY <1>1 DEF TypesLinked, TypesLinkedBy, TypesMean, GlobalsGrounded
<1>5. Meaningful
  BY <1>1, <1>2, <1>3, <1>4 DEF Meaningful, NamesEntered
<1>6. \A l \in units : \A d \in Declared(l) :
        LET named == Object(l, d.name, "derived")
            inline == Object(l, d.name, "inline")
        IN /\ tables.types[d.name] = named
           /\ pointers.ancestor[named] = IF d.k = "subrange" THEN inline ELSE Behind(d.of)
           /\ d.k = "subrange" => pointers.ranged[inline] = tables.types[d.of]
  BY <1>1 DEF TypesLinked, TypesLinkedBy, Named, Inline
<1> QED BY <1>2, <1>3, <1>5, <1>6

-----------------------------------------------------------------------------
(* The theorems *)

\* The invariant holds of every instance, whatever is loaded and linked.
THEOREM InstancesAreSound == Spec => []LinkInv
<1>1. Init => LinkInv
  BY LinkInvBegins
<1>2. LinkInv /\ [Next]_vars => LinkInv'
  BY LinkInvKept
<1> QED BY <1>1, <1>2, PTL DEF Spec

\* Whatever files are loaded, in whatever order and however often: after a
\* link that succeeded they mean something, and every pointer of their types
\* and every reference of their programs is to what its name means.
THEOREM LinksAreConsistent == Spec => []LinkedIsConsistent
<1>1. LinkInv => LinkedIsConsistent
  BY LinkedMeans
<1> QED BY <1>1, InstancesAreSound, PTL

\* A crash of the process, while linking or in a call after it, is of files
\* that do not keep to the order of the pools.
THEOREM CrashesAreExplained == Spec => []CrashesExplained
<1>1. LinkInv => CrashesExplained
  BY DEF LinkInv, CrashesExplained
<1> QED BY <1>1, InstancesAreSound, PTL

\* No stage of a first link refuses files that mean something and keep to the
\* order of the pools, however long the chains of their types are.
THEOREM GoodFilesDoLink == Spec => GoodFilesLink
<1>1. LinkInv => (FirstLink /\ ~errors /\ Meaningful /\ Ordered => ~errors' /\ ~crashed')
  BY GoodStages
<1>2. LinkInv /\ [Next]_vars => [FirstLink /\ ~errors /\ Meaningful /\ Ordered => ~errors' /\ ~crashed']_vars
  BY <1>1
<1> QED BY <1>2, InstancesAreSound, PTL DEF Spec, GoodFilesLink
=============================================================================
