---------------------------- MODULE AccessProofs ----------------------------
(***************************************************************************)
(* What is true of the references, the assignments and the queries for     *)
(* every program and every query list: an assignment goes where its left-  *)
(* hand side points at that moment, a statement that has a meaning never   *)
(* ends the cycle, and a list of queries is carried out in order.          *)
(*                                                                         *)
(* The recursive functions of the model are unfolded first, each one by    *)
(* the lemma that is named for it and ends in Unfolds.                     *)
(***************************************************************************)
EXTENDS Access, TLAPS

WF == INSTANCE WellFoundedInduction
LOCAL INSTANCE FiniteSetsExt
LOCAL INSTANCE SequencesExt

-----------------------------------------------------------------------------
(* Recursive functions on a range of numbers.  Each one is unfolded the     *)
(* same way: a function with the recursion's equations exists, since a      *)
(* least length without one would have one by the length before it.         *)

\* A set of numbers that has a member has a least one.
LEMMA LeastNumber ==
  ASSUME NEW T, T \subseteq Nat, T # {}
  PROVE  \E m \in T : \A k \in T : m <= k
<1> DEFINE R == {ss \in Nat \X Nat : ss[1] < ss[2]}
<1>1. WF!IsWellFoundedOn(R, Nat)
  BY WF!NatLessThanWellFounded DEF WF!OpToRel
<1>2. \E x \in T : \A y \in T : ~ (<<y, x>> \in R)
  BY <1>1, WF!WFMin
<1>3. \A x \in Nat, y \in Nat : ~ (<<y, x>> \in R) => x <= y
  OBVIOUS
<1> QED BY <1>2, <1>3

\* Its predecessor, if there is one, is outside the set.
LEMMA Least ==
  ASSUME NEW T, T \subseteq Nat, T # {}
  PROVE  \E m \in T : m \in Nat /\ (m # 0 => m - 1 \in Nat /\ m - 1 \notin T)
<1>1. PICK m \in T : \A k \in T : m <= k
  BY LeastNumber
<1>2. m \in Nat
  OBVIOUS
<1>3. m # 0 => m - 1 \in Nat /\ m - 1 \notin T
  BY <1>1, <1>2
<1> QED BY <1>2, <1>3

LEMMA MinIsLeast ==
  ASSUME NEW T, T \subseteq Nat, T # {}
  PROVE  Min(T) \in T /\ \A k \in T : Min(T) <= k
BY LeastNumber DEF Min

SelectionTo(layout, ref, indices, m, f) ==
    f = [n \in 0 .. m |-> IF n = 0 THEN {<<>>} ELSE IndexedIn(layout, ref, indices, n, NamedIn(layout, ref, n, f[n - 1]))]

LEMMA SelectionExists ==
  ASSUME NEW layout, NEW ref, NEW indices, NEW N \in Nat
  PROVE  \E f : SelectionTo(layout, ref, indices, N, f)
<1> DEFINE Bad == {m \in Nat : ~ \E f : SelectionTo(layout, ref, indices, m, f)}
<1> SUFFICES ASSUME Bad # {} PROVE FALSE
  OBVIOUS
<1>1. PICK m \in Bad : m \in Nat /\ (m # 0 => m - 1 \in Nat /\ m - 1 \notin Bad)
  <2>1. Bad \subseteq Nat
    OBVIOUS
  <2> HIDE DEF Bad
  <2> QED BY <2>1, Least
<1>2. m # 0
  <2>1. SelectionTo(layout, ref, indices, 0, [n \in 0 .. 0 |-> {<<>>}])
    BY DEF SelectionTo
  <2> QED BY <2>1
<1>3. PICK f : SelectionTo(layout, ref, indices, m - 1, f)
  BY <1>1, <1>2
<1> DEFINE g == [n \in 0 .. m |-> IF n = m THEN IndexedIn(layout, ref, indices, m, NamedIn(layout, ref, m, f[m - 1])) ELSE f[n]]
<1>4. SelectionTo(layout, ref, indices, m, g)
  <2>1. ASSUME NEW n \in 0 .. m
        PROVE  g[n] = IF n = 0 THEN {<<>>} ELSE IndexedIn(layout, ref, indices, n, NamedIn(layout, ref, n, g[n - 1]))
    <3>1. CASE n = 0
      BY <1>1, <1>2, <1>3, <3>1 DEF SelectionTo
    <3>2. CASE n = m
      <4>1. n - 1 \in 0 .. m /\ n - 1 # m
        BY <1>1, <1>2, <3>2
      <4>2. g[n - 1] = f[n - 1]
        BY <4>1
      <4> QED BY <1>2, <3>2, <4>2
    <3>3. CASE n # 0 /\ n # m
      <4>1. n - 1 \in 0 .. m /\ n - 1 # m /\ n \in 0 .. (m - 1) /\ n - 1 \in 0 .. (m - 1)
        BY <1>1, <3>3
      <4>2. g[n - 1] = f[n - 1]
        BY <4>1
      <4>3. g[n] = f[n]
        BY <3>3
      <4>4. f[n] = IndexedIn(layout, ref, indices, n, NamedIn(layout, ref, n, f[n - 1]))
        BY <1>3, <4>1, <3>3 DEF SelectionTo
      <4> QED BY <3>3, <4>2, <4>3, <4>4
    <3> QED BY <3>1, <3>2, <3>3
  <2> QED BY <2>1 DEF SelectionTo
<1> QED BY <1>1, <1>4

\* What the parts select, one after the other (Selection).
SelectionBy(layout, ref, indices, f) ==
    /\ f[0] = {<<>>}
    /\ \A n \in 1 .. Len(ref) : f[n] = IndexedIn(layout, ref, indices, n, NamedIn(layout, ref, n, f[n - 1]))
    /\ Selection(layout, ref, indices) = f

LEMMA SelectionUnfolds ==
  ASSUME NEW layout, NEW ref, NEW indices, Len(ref) \in Nat
  PROVE  \E f : SelectionBy(layout, ref, indices, f)
<1> DEFINE f == CHOOSE h : SelectionTo(layout, ref, indices, Len(ref), h)
<1>1. \E h : SelectionTo(layout, ref, indices, Len(ref), h)
  BY SelectionExists
<1>2. SelectionTo(layout, ref, indices, Len(ref), f)
  BY <1>1, Zenon
<1>3. Selection(layout, ref, indices) = f
  BY DEF Selection, SelectionTo
<1> HIDE DEF f
<1>4. f[0] = {<<>>}
  BY <1>2 DEF SelectionTo
<1>5. ASSUME NEW n \in 1 .. Len(ref)
      PROVE  f[n] = IndexedIn(layout, ref, indices, n, NamedIn(layout, ref, n, f[n - 1]))
  <2>1. n \in 0 .. Len(ref) /\ n # 0
    OBVIOUS
  <2> QED BY <1>2, <2>1 DEF SelectionTo
<1>6. SelectionBy(layout, ref, indices, f)
  BY <1>3, <1>4, <1>5 DEF SelectionBy
<1> QED BY <1>6

DenotationTo(ref, m, f) ==
    f = [n \in 0 .. m |-> IF n = 0 THEN {<<>>} ELSE UNION {Selected(path, ref[n]) : path \in f[n - 1]}]

LEMMA DenotationExists ==
  ASSUME NEW ref, NEW N \in Nat
  PROVE  \E f : DenotationTo(ref, N, f)
<1> DEFINE Bad == {m \in Nat : ~ \E f : DenotationTo(ref, m, f)}
<1> SUFFICES ASSUME Bad # {} PROVE FALSE
  OBVIOUS
<1>1. PICK m \in Bad : m \in Nat /\ (m # 0 => m - 1 \in Nat /\ m - 1 \notin Bad)
  <2>1. Bad \subseteq Nat
    OBVIOUS
  <2> HIDE DEF Bad
  <2> QED BY <2>1, Least
<1>2. m # 0
  <2>1. DenotationTo(ref, 0, [n \in 0 .. 0 |-> {<<>>}])
    BY DEF DenotationTo
  <2> QED BY <2>1
<1>3. PICK f : DenotationTo(ref, m - 1, f)
  BY <1>1, <1>2
<1> DEFINE g == [n \in 0 .. m |-> IF n = m THEN UNION {Selected(path, ref[m]) : path \in f[m - 1]} ELSE f[n]]
<1>4. DenotationTo(ref, m, g)
  <2>1. ASSUME NEW n \in 0 .. m
        PROVE  g[n] = IF n = 0 THEN {<<>>} ELSE UNION {Selected(path, ref[n]) : path \in g[n - 1]}
    <3>1. CASE n = 0
      BY <1>1, <1>2, <1>3, <3>1 DEF DenotationTo
    <3>2. CASE n = m
      <4>1. n - 1 \in 0 .. m /\ n - 1 # m
        BY <1>1, <1>2, <3>2
      <4>2. g[n - 1] = f[n - 1]
        BY <4>1
      <4> QED BY <1>2, <3>2, <4>2
    <3>3. CASE n # 0 /\ n # m
      <4>1. n - 1 \in 0 .. m /\ n - 1 # m /\ n \in 0 .. (m - 1) /\ n - 1 \in 0 .. (m - 1)
        BY <1>1, <3>3
      <4>2. g[n - 1] = f[n - 1]
        BY <4>1
      <4>3. g[n] = f[n]
        BY <3>3
      <4>4. f[n] = UNION {Selected(path, ref[n]) : path \in f[n - 1]}
        BY <1>3, <4>1, <3>3 DEF DenotationTo
      <4> QED BY <3>3, <4>2, <4>3, <4>4
    <3> QED BY <3>1, <3>2, <3>3
  <2> QED BY <2>1 DEF DenotationTo
<1> QED BY <1>1, <1>4

\* What they denote (Denotation).
DenotationBy(ref, f) ==
    /\ f[0] = {<<>>}
    /\ \A n \in 1 .. Len(ref) : f[n] = UNION {Selected(path, ref[n]) : path \in f[n - 1]}
    /\ Denotation(ref) = f

LEMMA DenotationUnfolds ==
  ASSUME NEW ref, Len(ref) \in Nat
  PROVE  \E f : DenotationBy(ref, f)
<1> DEFINE f == CHOOSE h : DenotationTo(ref, Len(ref), h)
<1>1. \E h : DenotationTo(ref, Len(ref), h)
  BY DenotationExists
<1>2. DenotationTo(ref, Len(ref), f)
  BY <1>1, Zenon
<1>3. Denotation(ref) = f
  BY DEF Denotation, DenotationTo
<1> HIDE DEF f
<1>4. f[0] = {<<>>}
  BY <1>2 DEF DenotationTo
<1>5. ASSUME NEW n \in 1 .. Len(ref)
      PROVE  f[n] = UNION {Selected(path, ref[n]) : path \in f[n - 1]}
  <2>1. n \in 0 .. Len(ref) /\ n # 0
    OBVIOUS
  <2> QED BY <1>2, <2>1 DEF DenotationTo
<1>6. DenotationBy(ref, f)
  BY <1>3, <1>4, <1>5 DEF DenotationBy
<1> QED BY <1>6

ResetTo(variables, m, f) ==
    f = [n \in 0 .. m |-> IF n = 0 THEN [mem |-> mem, result |-> "ok"] ELSE ThenReset(f[n - 1], Reset(variables[n]))]

LEMMA ResetExists ==
  ASSUME NEW variables, NEW N \in Nat
  PROVE  \E f : ResetTo(variables, N, f)
<1> DEFINE Bad == {m \in Nat : ~ \E f : ResetTo(variables, m, f)}
<1> SUFFICES ASSUME Bad # {} PROVE FALSE
  OBVIOUS
<1>1. PICK m \in Bad : m \in Nat /\ (m # 0 => m - 1 \in Nat /\ m - 1 \notin Bad)
  <2>1. Bad \subseteq Nat
    OBVIOUS
  <2> HIDE DEF Bad
  <2> QED BY <2>1, Least
<1>2. m # 0
  <2>1. ResetTo(variables, 0, [n \in 0 .. 0 |-> [mem |-> mem, result |-> "ok"]])
    BY DEF ResetTo
  <2> QED BY <2>1
<1>3. PICK f : ResetTo(variables, m - 1, f)
  BY <1>1, <1>2
<1> DEFINE g == [n \in 0 .. m |-> IF n = m THEN ThenReset(f[m - 1], Reset(variables[m])) ELSE f[n]]
<1>4. ResetTo(variables, m, g)
  <2>1. ASSUME NEW n \in 0 .. m
        PROVE  g[n] = IF n = 0 THEN [mem |-> mem, result |-> "ok"] ELSE ThenReset(g[n - 1], Reset(variables[n]))
    <3>1. CASE n = 0
      BY <1>1, <1>2, <1>3, <3>1 DEF ResetTo
    <3>2. CASE n = m
      <4>1. n - 1 \in 0 .. m /\ n - 1 # m
        BY <1>1, <1>2, <3>2
      <4>2. g[n - 1] = f[n - 1]
        BY <4>1
      <4> QED BY <1>2, <3>2, <4>2
    <3>3. CASE n # 0 /\ n # m
      <4>1. n - 1 \in 0 .. m /\ n - 1 # m /\ n \in 0 .. (m - 1) /\ n - 1 \in 0 .. (m - 1)
        BY <1>1, <3>3
      <4>2. g[n - 1] = f[n - 1]
        BY <4>1
      <4>3. g[n] = f[n]
        BY <3>3
      <4>4. f[n] = ThenReset(f[n - 1], Reset(variables[n]))
        BY <1>3, <4>1, <3>3 DEF ResetTo
      <4> QED BY <3>3, <4>2, <4>3, <4>4
    <3> QED BY <3>1, <3>2, <3>3
  <2> QED BY <2>1 DEF ResetTo
<1> QED BY <1>1, <1>4

\* The variables are reset one after the other (ResetAll).
ResetBy(variables, f) ==
    /\ f[0] = [mem |-> mem, result |-> "ok"]
    /\ \A n \in 1 .. Len(variables) : f[n] = ThenReset(f[n - 1], Reset(variables[n]))
    /\ ResetAll(variables) = f[Len(variables)]

LEMMA ResetUnfolds ==
  ASSUME NEW variables, Len(variables) \in Nat
  PROVE  \E f : ResetBy(variables, f)
<1> DEFINE f == CHOOSE h : ResetTo(variables, Len(variables), h)
<1>1. \E h : ResetTo(variables, Len(variables), h)
  BY ResetExists
<1>2. ResetTo(variables, Len(variables), f)
  BY <1>1, Zenon
<1>3. ResetAll(variables) = f[Len(variables)]
  BY DEF ResetAll, ResetTo
<1> HIDE DEF f
<1>4. f[0] = [mem |-> mem, result |-> "ok"]
  BY <1>2 DEF ResetTo
<1>5. ASSUME NEW n \in 1 .. Len(variables)
      PROVE  f[n] = ThenReset(f[n - 1], Reset(variables[n]))
  <2>1. n \in 0 .. Len(variables) /\ n # 0
    OBVIOUS
  <2> QED BY <1>2, <2>1 DEF ResetTo
<1>6. ResetBy(variables, f)
  BY <1>3, <1>4, <1>5 DEF ResetBy
<1> QED BY <1>6

EvaluationTo(list, m, f) ==
    f = [n \in 0 .. m |-> IF n = 0 THEN Linked(list) ELSE Evaluated(f[n - 1], list[n])]

LEMMA EvaluationExists ==
  ASSUME NEW list, NEW N \in Nat
  PROVE  \E f : EvaluationTo(list, N, f)
<1> DEFINE Bad == {m \in Nat : ~ \E f : EvaluationTo(list, m, f)}
<1> SUFFICES ASSUME Bad # {} PROVE FALSE
  OBVIOUS
<1>1. PICK m \in Bad : m \in Nat /\ (m # 0 => m - 1 \in Nat /\ m - 1 \notin Bad)
  <2>1. Bad \subseteq Nat
    OBVIOUS
  <2> HIDE DEF Bad
  <2> QED BY <2>1, Least
<1>2. m # 0
  <2>1. EvaluationTo(list, 0, [n \in 0 .. 0 |-> Linked(list)])
    BY DEF EvaluationTo
  <2> QED BY <2>1
<1>3. PICK f : EvaluationTo(list, m - 1, f)
  BY <1>1, <1>2
<1> DEFINE g == [n \in 0 .. m |-> IF n = m THEN Evaluated(f[m - 1], list[m]) ELSE f[n]]
<1>4. EvaluationTo(list, m, g)
  <2>1. ASSUME NEW n \in 0 .. m
        PROVE  g[n] = IF n = 0 THEN Linked(list) ELSE Evaluated(g[n - 1], list[n])
    <3>1. CASE n = 0
      BY <1>1, <1>2, <1>3, <3>1 DEF EvaluationTo
    <3>2. CASE n = m
      <4>1. n - 1 \in 0 .. m /\ n - 1 # m
        BY <1>1, <1>2, <3>2
      <4>2. g[n - 1] = f[n - 1]
        BY <4>1
      <4> QED BY <1>2, <3>2, <4>2
    <3>3. CASE n # 0 /\ n # m
      <4>1. n - 1 \in 0 .. m /\ n - 1 # m /\ n \in 0 .. (m - 1) /\ n - 1 \in 0 .. (m - 1)
        BY <1>1, <3>3
      <4>2. g[n - 1] = f[n - 1]
        BY <4>1
      <4>3. g[n] = f[n]
        BY <3>3
      <4>4. f[n] = Evaluated(f[n - 1], list[n])
        BY <1>3, <4>1, <3>3 DEF EvaluationTo
      <4> QED BY <3>3, <4>2, <4>3, <4>4
    <3> QED BY <3>1, <3>2, <3>3
  <2> QED BY <2>1 DEF EvaluationTo
<1> QED BY <1>1, <1>4

\* The queries are evaluated one after the other (Evaluate).
EvaluationBy(list, f) ==
    /\ f[0] = Linked(list)
    /\ \A n \in 1 .. Len(list) : f[n] = Evaluated(f[n - 1], list[n])
    /\ Evaluate(list) = f[Len(list)]

LEMMA EvaluationUnfolds ==
  ASSUME NEW list, Len(list) \in Nat
  PROVE  \E f : EvaluationBy(list, f)
<1> DEFINE f == CHOOSE h : EvaluationTo(list, Len(list), h)
<1>1. \E h : EvaluationTo(list, Len(list), h)
  BY EvaluationExists
<1>2. EvaluationTo(list, Len(list), f)
  BY <1>1, Zenon
<1>3. Evaluate(list) = f[Len(list)]
  BY DEF Evaluate, EvaluationTo
<1> HIDE DEF f
<1>4. f[0] = Linked(list)
  BY <1>2 DEF EvaluationTo
<1>5. ASSUME NEW n \in 1 .. Len(list)
      PROVE  f[n] = Evaluated(f[n - 1], list[n])
  <2>1. n \in 0 .. Len(list) /\ n # 0
    OBVIOUS
  <2> QED BY <1>2, <2>1 DEF EvaluationTo
<1>6. EvaluationBy(list, f)
  BY <1>3, <1>4, <1>5 DEF EvaluationBy
<1> QED BY <1>6

AssignmentTo(list, m, f) ==
    f = [n \in 0 .. m |-> IF n = 0 THEN mem ELSE AfterOne(f[n - 1], list[n])]

LEMMA AssignmentExists ==
  ASSUME NEW list, NEW N \in Nat
  PROVE  \E f : AssignmentTo(list, N, f)
<1> DEFINE Bad == {m \in Nat : ~ \E f : AssignmentTo(list, m, f)}
<1> SUFFICES ASSUME Bad # {} PROVE FALSE
  OBVIOUS
<1>1. PICK m \in Bad : m \in Nat /\ (m # 0 => m - 1 \in Nat /\ m - 1 \notin Bad)
  <2>1. Bad \subseteq Nat
    OBVIOUS
  <2> HIDE DEF Bad
  <2> QED BY <2>1, Least
<1>2. m # 0
  <2>1. AssignmentTo(list, 0, [n \in 0 .. 0 |-> mem])
    BY DEF AssignmentTo
  <2> QED BY <2>1
<1>3. PICK f : AssignmentTo(list, m - 1, f)
  BY <1>1, <1>2
<1> DEFINE g == [n \in 0 .. m |-> IF n = m THEN AfterOne(f[m - 1], list[m]) ELSE f[n]]
<1>4. AssignmentTo(list, m, g)
  <2>1. ASSUME NEW n \in 0 .. m
        PROVE  g[n] = IF n = 0 THEN mem ELSE AfterOne(g[n - 1], list[n])
    <3>1. CASE n = 0
      BY <1>1, <1>2, <1>3, <3>1 DEF AssignmentTo
    <3>2. CASE n = m
      <4>1. n - 1 \in 0 .. m /\ n - 1 # m
        BY <1>1, <1>2, <3>2
      <4>2. g[n - 1] = f[n - 1]
        BY <4>1
      <4> QED BY <1>2, <3>2, <4>2
    <3>3. CASE n # 0 /\ n # m
      <4>1. n - 1 \in 0 .. m /\ n - 1 # m /\ n \in 0 .. (m - 1) /\ n - 1 \in 0 .. (m - 1)
        BY <1>1, <3>3
      <4>2. g[n - 1] = f[n - 1]
        BY <4>1
      <4>3. g[n] = f[n]
        BY <3>3
      <4>4. f[n] = AfterOne(f[n - 1], list[n])
        BY <1>3, <4>1, <3>3 DEF AssignmentTo
      <4> QED BY <3>3, <4>2, <4>3, <4>4
    <3> QED BY <3>1, <3>2, <3>3
  <2> QED BY <2>1 DEF AssignmentTo
<1> QED BY <1>1, <1>4

\* Their assignments (After).
AssignmentBy(list, f) ==
    /\ f[0] = mem
    /\ \A n \in 1 .. Len(list) : f[n] = AfterOne(f[n - 1], list[n])
    /\ \A k : After(list, k) = f[k]

LEMMA AssignmentUnfolds ==
  ASSUME NEW list, Len(list) \in Nat
  PROVE  \E f : AssignmentBy(list, f)
<1> DEFINE f == CHOOSE h : AssignmentTo(list, Len(list), h)
<1>1. \E h : AssignmentTo(list, Len(list), h)
  BY AssignmentExists
<1>2. AssignmentTo(list, Len(list), f)
  BY <1>1, Zenon
<1>3. \A k : After(list, k) = f[k]
  BY DEF After, AssignmentTo
<1> HIDE DEF f
<1>4. f[0] = mem
  BY <1>2 DEF AssignmentTo
<1>5. ASSUME NEW n \in 1 .. Len(list)
      PROVE  f[n] = AfterOne(f[n - 1], list[n])
  <2>1. n \in 0 .. Len(list) /\ n # 0
    OBVIOUS
  <2> QED BY <1>2, <2>1 DEF AssignmentTo
<1>6. AssignmentBy(list, f)
  BY <1>3, <1>4, <1>5 DEF AssignmentBy
<1> QED BY <1>6

ShownTo(list, memory, size, m, f) ==
    f = [n \in 0 .. m |-> IF n = 0 THEN [written |-> 0, result |-> "ok", separator |-> 0] ELSE Displayed(f[n - 1], QueryTarget(list[n].ref), memory, size)]

LEMMA ShownExists ==
  ASSUME NEW list, NEW memory, NEW size, NEW N \in Nat
  PROVE  \E f : ShownTo(list, memory, size, N, f)
<1> DEFINE Bad == {m \in Nat : ~ \E f : ShownTo(list, memory, size, m, f)}
<1> SUFFICES ASSUME Bad # {} PROVE FALSE
  OBVIOUS
<1>1. PICK m \in Bad : m \in Nat /\ (m # 0 => m - 1 \in Nat /\ m - 1 \notin Bad)
  <2>1. Bad \subseteq Nat
    OBVIOUS
  <2> HIDE DEF Bad
  <2> QED BY <2>1, Least
<1>2. m # 0
  <2>1. ShownTo(list, memory, size, 0, [n \in 0 .. 0 |-> [written |-> 0, result |-> "ok", separator |-> 0]])
    BY DEF ShownTo
  <2> QED BY <2>1
<1>3. PICK f : ShownTo(list, memory, size, m - 1, f)
  BY <1>1, <1>2
<1> DEFINE g == [n \in 0 .. m |-> IF n = m THEN Displayed(f[m - 1], QueryTarget(list[m].ref), memory, size) ELSE f[n]]
<1>4. ShownTo(list, memory, size, m, g)
  <2>1. ASSUME NEW n \in 0 .. m
        PROVE  g[n] = IF n = 0 THEN [written |-> 0, result |-> "ok", separator |-> 0] ELSE Displayed(g[n - 1], QueryTarget(list[n].ref), memory, size)
    <3>1. CASE n = 0
      BY <1>1, <1>2, <1>3, <3>1 DEF ShownTo
    <3>2. CASE n = m
      <4>1. n - 1 \in 0 .. m /\ n - 1 # m
        BY <1>1, <1>2, <3>2
      <4>2. g[n - 1] = f[n - 1]
        BY <4>1
      <4> QED BY <1>2, <3>2, <4>2
    <3>3. CASE n # 0 /\ n # m
      <4>1. n - 1 \in 0 .. m /\ n - 1 # m /\ n \in 0 .. (m - 1) /\ n - 1 \in 0 .. (m - 1)
        BY <1>1, <3>3
      <4>2. g[n - 1] = f[n - 1]
        BY <4>1
      <4>3. g[n] = f[n]
        BY <3>3
      <4>4. f[n] = Displayed(f[n - 1], QueryTarget(list[n].ref), memory, size)
        BY <1>3, <4>1, <3>3 DEF ShownTo
      <4> QED BY <3>3, <4>2, <4>3, <4>4
    <3> QED BY <3>1, <3>2, <3>3
  <2> QED BY <2>1 DEF ShownTo
<1> QED BY <1>1, <1>4

\* They are displayed one after the other (Shown).
ShownBy(list, memory, size, f) ==
    /\ f[0] = [written |-> 0, result |-> "ok", separator |-> 0]
    /\ \A n \in 1 .. Len(list) : f[n] = Displayed(f[n - 1], QueryTarget(list[n].ref), memory, size)
    /\ Shown(list, memory, size) = f

LEMMA ShownUnfolds ==
  ASSUME NEW list, NEW memory, NEW size, Len(list) \in Nat
  PROVE  \E f : ShownBy(list, memory, size, f)
<1> DEFINE f == CHOOSE h : ShownTo(list, memory, size, Len(list), h)
<1>1. \E h : ShownTo(list, memory, size, Len(list), h)
  BY ShownExists
<1>2. ShownTo(list, memory, size, Len(list), f)
  BY <1>1, Zenon
<1>3. Shown(list, memory, size) = f
  BY DEF Shown, ShownTo
<1> HIDE DEF f
<1>4. f[0] = [written |-> 0, result |-> "ok", separator |-> 0]
  BY <1>2 DEF ShownTo
<1>5. ASSUME NEW n \in 1 .. Len(list)
      PROVE  f[n] = Displayed(f[n - 1], QueryTarget(list[n].ref), memory, size)
  <2>1. n \in 0 .. Len(list) /\ n # 0
    OBVIOUS
  <2> QED BY <1>2, <2>1 DEF ShownTo
<1>6. ShownBy(list, memory, size, f)
  BY <1>3, <1>4, <1>5 DEF ShownBy
<1> QED BY <1>6

LengthTo(list, memory, m, f) ==
    f = [n \in 0 .. m |-> IF n = 0 THEN 0 ELSE f[n - 1] + (IF n = 1 THEN 0 ELSE 1) + DisplayLength(Only(Denoted(list[n].ref)), memory)]

LEMMA LengthExists ==
  ASSUME NEW list, NEW memory, NEW N \in Nat
  PROVE  \E f : LengthTo(list, memory, N, f)
<1> DEFINE Bad == {m \in Nat : ~ \E f : LengthTo(list, memory, m, f)}
<1> SUFFICES ASSUME Bad # {} PROVE FALSE
  OBVIOUS
<1>1. PICK m \in Bad : m \in Nat /\ (m # 0 => m - 1 \in Nat /\ m - 1 \notin Bad)
  <2>1. Bad \subseteq Nat
    OBVIOUS
  <2> HIDE DEF Bad
  <2> QED BY <2>1, Least
<1>2. m # 0
  <2>1. LengthTo(list, memory, 0, [n \in 0 .. 0 |-> 0])
    BY DEF LengthTo
  <2> QED BY <2>1
<1>3. PICK f : LengthTo(list, memory, m - 1, f)
  BY <1>1, <1>2
<1> DEFINE g == [n \in 0 .. m |-> IF n = m THEN f[m - 1] + (IF m = 1 THEN 0 ELSE 1) + DisplayLength(Only(Denoted(list[m].ref)), memory) ELSE f[n]]
<1>4. LengthTo(list, memory, m, g)
  <2>1. ASSUME NEW n \in 0 .. m
        PROVE  g[n] = IF n = 0 THEN 0 ELSE g[n - 1] + (IF n = 1 THEN 0 ELSE 1) + DisplayLength(Only(Denoted(list[n].ref)), memory)
    <3>1. CASE n = 0
      BY <1>1, <1>2, <1>3, <3>1 DEF LengthTo
    <3>2. CASE n = m
      <4>1. n - 1 \in 0 .. m /\ n - 1 # m
        BY <1>1, <1>2, <3>2
      <4>2. g[n - 1] = f[n - 1]
        BY <4>1
      <4> QED BY <1>2, <3>2, <4>2
    <3>3. CASE n # 0 /\ n # m
      <4>1. n - 1 \in 0 .. m /\ n - 1 # m /\ n \in 0 .. (m - 1) /\ n - 1 \in 0 .. (m - 1)
        BY <1>1, <3>3
      <4>2. g[n - 1] = f[n - 1]
        BY <4>1
      <4>3. g[n] = f[n]
        BY <3>3
      <4>4. f[n] = f[n - 1] + (IF n = 1 THEN 0 ELSE 1) + DisplayLength(Only(Denoted(list[n].ref)), memory)
        BY <1>3, <4>1, <3>3 DEF LengthTo
      <4> QED BY <3>3, <4>2, <4>3, <4>4
    <3> QED BY <3>1, <3>2, <3>3
  <2> QED BY <2>1 DEF LengthTo
<1> QED BY <1>1, <1>4

\* The length of their displays together (AnswerLength).
LengthBy(list, memory, f) ==
    /\ f[0] = 0
    /\ \A n \in 1 .. Len(list) : f[n] = f[n - 1] + (IF n = 1 THEN 0 ELSE 1) + DisplayLength(Only(Denoted(list[n].ref)), memory)
    /\ AnswerLength(list, memory) = f[Len(list)]

LEMMA LengthUnfolds ==
  ASSUME NEW list, NEW memory, Len(list) \in Nat
  PROVE  \E f : LengthBy(list, memory, f)
<1> DEFINE f == CHOOSE h : LengthTo(list, memory, Len(list), h)
<1>1. \E h : LengthTo(list, memory, Len(list), h)
  BY LengthExists
<1>2. LengthTo(list, memory, Len(list), f)
  BY <1>1, Zenon
<1>3. AnswerLength(list, memory) = f[Len(list)]
  BY DEF AnswerLength, LengthTo
<1> HIDE DEF f
<1>4. f[0] = 0
  BY <1>2 DEF LengthTo
<1>5. ASSUME NEW n \in 1 .. Len(list)
      PROVE  f[n] = f[n - 1] + (IF n = 1 THEN 0 ELSE 1) + DisplayLength(Only(Denoted(list[n].ref)), memory)
  <2>1. n \in 0 .. Len(list) /\ n # 0
    OBVIOUS
  <2> QED BY <1>2, <2>1 DEF LengthTo
<1>6. LengthBy(list, memory, f)
  BY <1>3, <1>4, <1>5 DEF LengthBy
<1> QED BY <1>6

-----------------------------------------------------------------------------
(* What a reference resolves to, given the values its indices have now, is  *)
(* what it denotes.                                                        *)

\* An index and the indices of all parts, as the memory has them.
ValueIn(memory, e) ==
    CASE e.kind = "literal"  -> e.plus
      [] e.kind = "variable" -> memory[<<e.name>>]
      [] OTHER               -> memory[<<e.name>>] + e.plus

ValuesIn(memory, ref) ==
    [p \in DOMAIN ref |-> [j \in DOMAIN ref[p].index |-> ValueIn(memory, ref[p].index[j])]]

\* One part, as the resolution and as the denotation go through it.
LEMMA SelectedStepByStep ==
  ASSUME NEW ref \in Seq(Parts), NEW n \in 1 .. Len(ref), NEW paths
  PROVE  IndexedIn(LayoutNow, ref, ValuesIn(mem, ref), n, NamedIn(LayoutNow, ref, n, paths))
            = UNION {Selected(path, ref[n]) : path \in paths}
<1>1. n \in DOMAIN ref
  OBVIOUS
<1>2. ValuesIn(mem, ref)[n] = [j \in DOMAIN ref[n].index |-> ValueNow(ref[n].index[j])]
  BY <1>1 DEF ValuesIn, ValueIn, ValueNow
<1> DEFINE V == [j \in DOMAIN ref[n].index |-> ValueNow(ref[n].index[j])]
<1> DEFINE name == ref[n].name
<1>3. CASE ref[n].index = <<>>
  <2>1. \A path : Selected(path, ref[n]) = SubVariable(LayoutNow, path, name)
    BY <1>3 DEF Selected
  <2> QED BY <2>1, <1>3 DEF IndexedIn, NamedIn
<1>4. CASE ref[n].index # <<>>
  <2>1. \A path : Selected(path, ref[n]) = UNION {IndexValue(LayoutNow, v, V) : v \in SubVariable(LayoutNow, path, name)}
    BY <1>4 DEF Selected
  <2> HIDE DEF V
  <2>2. IndexedIn(LayoutNow, ref, ValuesIn(mem, ref), n, NamedIn(LayoutNow, ref, n, paths))
          = UNION {IndexValue(LayoutNow, v, V) : v \in UNION {SubVariable(LayoutNow, w, name) : w \in paths}}
    BY <1>2, <1>4 DEF IndexedIn, NamedIn, V
  <2> QED BY <2>1, <2>2
<1> QED BY <1>3, <1>4

\* All parts.
LEMMA SelectionDenotes ==
  ASSUME NEW ref \in Seq(Parts), ref # <<>>
  PROVE  TargetOf(LayoutNow, ref, ValuesIn(mem, ref), OwnerOf(LayoutNow, ref, ValuesIn(mem, ref), Len(ref)))
            = Denoted(ref)
<1> DEFINE N == Len(ref)
<1>0. N \in Nat /\ N # 0
  OBVIOUS
<1>1. PICK f : SelectionBy(LayoutNow, ref, ValuesIn(mem, ref), f)
  BY <1>0, SelectionUnfolds
<1>2. PICK g : DenotationBy(ref, g)
  BY <1>0, DenotationUnfolds
<1> HIDE DEF N
<1>3. \A n \in 1 .. N : f[n - 1] = g[n - 1] => f[n] = g[n]
  <2> SUFFICES ASSUME NEW n \in 1 .. N, f[n - 1] = g[n - 1] PROVE f[n] = g[n]
    OBVIOUS
  <2>1. f[n] = UNION {Selected(path, ref[n]) : path \in f[n - 1]}
    BY <1>1, SelectedStepByStep DEF N, SelectionBy
  <2> QED BY <2>1, <1>2 DEF DenotationBy, N
<1>4. \A n \in 0 .. N : f[n] = g[n]
  <2> DEFINE Bad == {n \in 0 .. N : f[n] # g[n]}
  <2> SUFFICES ASSUME Bad # {} PROVE FALSE
    OBVIOUS
  <2>1. Bad \subseteq Nat
    BY <1>0
  <2>2. PICK m \in Bad : m \in Nat /\ (m # 0 => m - 1 \in Nat /\ m - 1 \notin Bad)
    <3> HIDE DEF Bad
    <3> QED BY <2>1, Least
  <2>3. m # 0
    BY <1>1, <1>2 DEF SelectionBy, DenotationBy
  <2>4. m \in 1 .. N /\ m - 1 \in 0 .. N
    BY <2>2, <2>3, <1>0
  <2>5. f[m - 1] = g[m - 1]
    BY <2>2, <2>3, <2>4
  <2> QED BY <1>3, <2>4, <2>5
<1>5. N \in 1 .. N /\ N \in 0 .. N
  BY <1>0
<1>6. Denoted(ref) = f[N]
  BY <1>2, <1>4, <1>5 DEF Denoted, DenotationBy, N
<1>7. f[N] = IndexedIn(LayoutNow, ref, ValuesIn(mem, ref), N, NamedIn(LayoutNow, ref, N, f[N - 1]))
  BY <1>1, <1>5 DEF SelectionBy, N
<1> QED BY <1>1, <1>6, <1>7 DEF SelectionBy, TargetOf, OwnerOf, N
-----------------------------------------------------------------------------
(* The invariant *)

\* The indices of a constant reference.
Literals(ref) == [p \in DOMAIN ref |-> [j \in DOMAIN ref[p].index |-> ref[p].index[j].plus]]

\* A use has the fields, the nodes and the temporaries of its reference.
UseOf(ref, use) ==
    /\ use = [next |-> use.next, node |-> use.node, temp |-> use.temp,
              owner |-> use.owner, target |-> use.target]
    /\ use.next \in Nat \ {0}
    /\ use.node \in [DOMAIN ref -> Nat \ {0}]
    /\ DOMAIN use.temp = DOMAIN ref
    /\ \A p \in DOMAIN ref : DOMAIN use.temp[p] = DOMAIN ref[p].index

UsesOf(s, use) ==
    /\ use = [left |-> use.left, right |-> use.right]
    /\ UseOf(s.left, use.left)
    /\ UseOf(s.right.ref, use.right)

\* The temporaries of a part hold the sums of this execution.
Summed(memory, ref, use, p) ==
    \A j \in DOMAIN ref[p].index :
        HasStep(ref[p].index[j]) => use.temp[p][j] = ValueIn(memory, ref[p].index[j])

\* A reference that is being stepped: the parts before next have been, the
\* lists of the others are at their beginning.
InProgress(memory, ref, use) ==
    /\ use.next \in 1 .. Len(ref) + 1
    /\ \A p \in DOMAIN ref : IF p < use.next THEN Summed(memory, ref, use, p) ELSE use.node[p] = 1

\* The owner and the target are the ones that some indices select.
ResolvedWith(layout, ref, use, indices) ==
    /\ use.owner = OwnerOf(layout, ref, indices, Len(ref))
    /\ use.target = TargetOf(layout, ref, indices, use.owner)

\* IndicesNow, of any memory.
IndicesIn(memory, ref, use) ==
    [p \in DOMAIN ref |-> [j \in DOMAIN ref[p].index |->
        LET e == ref[p].index[j]
        IN  CASE e.kind = "literal"  -> e.plus
              [] e.kind = "variable" -> memory[<<e.name>>]
              [] OTHER               -> use.temp[p][j]]]

\* One whose steps are over.
Resolved(layout, memory, ref, use) ==
    /\ IndicesIn(memory, ref, use) = ValuesIn(memory, ref)
    /\ ResolvedWith(layout, ref, use, ValuesIn(memory, ref))

Shape ==
    /\ project \in DOMAIN Projects
    /\ DOMAIN uses = DOMAIN Program
    /\ \A s \in DOMAIN Program : UsesOf(Program[s], uses[s])
    /\ CellsBelow(<<>>) \subseteq DOMAIN mem
    /\ stage \in {"left", "right", "assign"}
    /\ current \in Nat \ {0}
    /\ current > 1 => current <= Len(Program)
    /\ status \in {"parsed", "linked", "started"} => current = 1

\* What the link leaves.
LinkedStatement(layout, s, use) ==
    /\ s.right.kind # "raised"
    /\ ConstantReference(s.left) => ResolvedWith(layout, s.left, use.left, Literals(s.left))
    /\ s.right.kind = "element" /\ ConstantReference(s.right.ref) =>
          ResolvedWith(layout, s.right.ref, use.right, Literals(s.right.ref))

\* Nothing that comes later undoes it.
LinkKept ==
    status \notin {"parsed", "refused", "crashed"} =>
        \A s \in DOMAIN Program : LinkedStatement(LayoutNow, Program[s], uses[s])

\* The statement that runs.
RunsAt(layout, memory, s, use, at) ==
    IF at = "left"
    THEN InProgress(memory, s.left, use.left) /\ InProgress(memory, s.right.ref, use.right)
    ELSE /\ Resolved(layout, memory, s.left, use.left)
         /\ at = "right" => InProgress(memory, s.right.ref, use.right)
         /\ at = "assign" /\ s.right.kind = "element" => Resolved(layout, memory, s.right.ref, use.right)

\* Only of the statements the properties are about.
Running ==
    status = "running" /\ current > 1 /\ Ordinary(Now) =>
        RunsAt(LayoutNow, mem, Now, uses[current], stage)

\* The inductive invariant.  The properties compare a target found some
\* steps ago with the memory of now, so it says when the temporaries and the
\* target are those of this execution: not while the indices are stepped.
AccessInv == Shape /\ LinkKept /\ Running

-----------------------------------------------------------------------------
(* The stepping of the indices *)

LEMMA PartOf ==
  ASSUME NEW ref \in Seq(Parts), NEW p \in DOMAIN ref
  PROVE  /\ ref[p].index \in Seq(Indexes)
         /\ \A j \in DOMAIN ref[p].index :
               ref[p].index[j].kind \in {"literal", "variable", "sum", "member"}
<1>1. ref[p] \in Parts
  OBVIOUS
<1>2. ref[p].index \in Seq(Indexes)
  BY <1>1 DEF Parts
<1>3. ASSUME NEW j \in DOMAIN ref[p].index PROVE ref[p].index[j] \in Indexes
  BY <1>2, <1>3
<1> QED BY <1>2, <1>3 DEF Indexes

\* The p-th part and the index of it that is stepped.
LEMMA StepsAt ==
  ASSUME NEW ref \in Seq(Parts), NEW use, UseOf(ref, use), PartsToStep(ref, use) # {}
  PROVE  LET p == Min(PartsToStep(ref, use))
             j == Min(ToStep(ref, use, p))
         IN  /\ p \in DOMAIN ref /\ p >= use.next
             /\ ToStep(ref, use, p) # {}
             /\ \A q \in use.next .. p - 1 : ToStep(ref, use, q) = {}
             /\ j \in DOMAIN ref[p].index /\ HasStep(ref[p].index[j])
<1> DEFINE p == Min(PartsToStep(ref, use))
<1> DEFINE j == Min(ToStep(ref, use, p))
<1>1. use.next \in Nat \ {0} /\ Len(ref) \in Nat /\ DOMAIN ref = 1 .. Len(ref)
  BY DEF UseOf
<1>2. PartsToStep(ref, use) \subseteq Nat
  BY <1>1 DEF PartsToStep
<1>3. p \in PartsToStep(ref, use) /\ \A q \in PartsToStep(ref, use) : p <= q
  BY <1>2, MinIsLeast
<1> HIDE DEF p
<1>4. p \in DOMAIN ref /\ p >= use.next /\ ToStep(ref, use, p) # {}
  BY <1>1, <1>3 DEF PartsToStep
<1>5. ASSUME NEW q \in use.next .. p - 1 PROVE ToStep(ref, use, q) = {}
  <2>1. q \in use.next .. Len(ref) /\ q \notin PartsToStep(ref, use)
    BY <1>1, <1>3, <1>4
  <2> QED BY <2>1 DEF PartsToStep
<1>6. use.node[p] \in Nat \ {0}
  BY <1>4 DEF UseOf
<1>7. ref[p].index \in Seq(Indexes)
  BY <1>4, PartOf
<1>8. ToStep(ref, use, p) \subseteq Nat
  BY <1>6, <1>7 DEF ToStep
<1>9. j \in ToStep(ref, use, p)
  BY <1>4, <1>8, MinIsLeast
<1> HIDE DEF j
<1>10. j \in DOMAIN ref[p].index /\ HasStep(ref[p].index[j])
  BY <1>6, <1>7, <1>9 DEF ToStep
<1> QED BY <1>4, <1>5, <1>10 DEF p, j

\* The fields after a step.
LEMMA SteppedFields ==
  ASSUME NEW ref \in Seq(Parts), NEW use, UseOf(ref, use), PartsToStep(ref, use) # {}
  PROVE  LET p == Min(PartsToStep(ref, use))
             j == Min(ToStep(ref, use, p))
             e == ref[p].index[j]
         IN  StepIndex(ref, use) =
               [next |-> p + 1, node |-> [use.node EXCEPT ![p] = j + 1],
                temp |-> [use.temp EXCEPT ![p][j] = IF e.kind = "sum" THEN mem[<<e.name>>] + e.plus ELSE @],
                owner |-> use.owner, target |-> use.target]
<1>1. use = [next |-> use.next, node |-> use.node, temp |-> use.temp,
             owner |-> use.owner, target |-> use.target]
  BY DEF UseOf
<1> DEFINE p == Min(PartsToStep(ref, use))
<1> DEFINE j == Min(ToStep(ref, use, p))
<1> DEFINE v == IF ref[p].index[j].kind = "sum" THEN mem[<<ref[p].index[j].name>>] + ref[p].index[j].plus
                ELSE use.temp[p][j]
<1>2. StepIndex(ref, use) = [use EXCEPT !.next = p + 1, !.node[p] = j + 1, !.temp[p][j] = v]
  BY DEF StepIndex
<1> HIDE DEF p, j
<1>3. [use.temp EXCEPT ![p][j] = v]
        = [use.temp EXCEPT ![p][j] = IF ref[p].index[j].kind = "sum"
                                      THEN mem[<<ref[p].index[j].name>>] + ref[p].index[j].plus ELSE @]
  OBVIOUS
<1> HIDE DEF v
<1>4. StepIndex(ref, use) = [next |-> p + 1, node |-> [use.node EXCEPT ![p] = j + 1],
                             temp |-> [use.temp EXCEPT ![p][j] = v],
                             owner |-> use.owner, target |-> use.target]
  BY <1>1, <1>2
<1> QED BY <1>3, <1>4 DEF p, j

LEMMA StepKeepsUse ==
  ASSUME NEW ref \in Seq(Parts), NEW use, UseOf(ref, use), PartsToStep(ref, use) # {}
  PROVE  UseOf(ref, StepIndex(ref, use))
<1> DEFINE p == Min(PartsToStep(ref, use))
<1> DEFINE j == Min(ToStep(ref, use, p))
<1> DEFINE n == StepIndex(ref, use)
<1>1. PICK v : /\ n = [next |-> p + 1, node |-> [use.node EXCEPT ![p] = j + 1],
                       temp |-> [use.temp EXCEPT ![p][j] = v],
                       owner |-> use.owner, target |-> use.target]
               /\ v = IF ref[p].index[j].kind = "sum"
                      THEN mem[<<ref[p].index[j].name>>] + ref[p].index[j].plus ELSE use.temp[p][j]
  <2> HIDE DEF p, j
  <2>1. \A v : v = (IF ref[p].index[j].kind = "sum"
                    THEN mem[<<ref[p].index[j].name>>] + ref[p].index[j].plus ELSE use.temp[p][j])
               => [use.temp EXCEPT ![p][j] = v]
                    = [use.temp EXCEPT ![p][j] = IF ref[p].index[j].kind = "sum"
                                      THEN mem[<<ref[p].index[j].name>>] + ref[p].index[j].plus ELSE @]
    OBVIOUS
  <2>2. n = [next |-> p + 1, node |-> [use.node EXCEPT ![p] = j + 1],
             temp |-> [use.temp EXCEPT ![p][j] = IF ref[p].index[j].kind = "sum"
                                      THEN mem[<<ref[p].index[j].name>>] + ref[p].index[j].plus ELSE @],
             owner |-> use.owner, target |-> use.target]
    BY SteppedFields DEF p, j
  <2> HIDE DEF n
  <2> QED BY <2>1, <2>2
<1>2. /\ p \in DOMAIN ref /\ j \in DOMAIN ref[p].index
  BY StepsAt
<1>3. p \in Nat /\ j \in Nat
  <2> HIDE DEF p, j
  <2>1. p \in Nat
    BY <1>2
  <2>2. ref[p].index \in Seq(Indexes)
    BY <1>2, PartOf
  <2> QED BY <1>2, <2>1, <2>2
<1> HIDE DEF p, j, n
<1>4. n.next = p + 1 /\ n.node = [use.node EXCEPT ![p] = j + 1] /\ n.temp = [use.temp EXCEPT ![p][j] = v]
  BY <1>1
<1>5. n.node \in [DOMAIN ref -> Nat \ {0}]
  BY <1>2, <1>3, <1>4 DEF UseOf
<1>6. /\ DOMAIN n.temp = DOMAIN ref
      /\ \A q \in DOMAIN ref : DOMAIN n.temp[q] = DOMAIN ref[q].index
  BY <1>4 DEF UseOf
<1> QED BY <1>1, <1>3, <1>4, <1>5, <1>6 DEF UseOf, n

LEMMA StepKeepsProgress ==
  ASSUME NEW ref \in Seq(Parts), NEW use, UseOf(ref, use), PartsToStep(ref, use) # {},
         InProgress(mem, ref, use), OneSumEach(ref)
  PROVE  InProgress(mem, ref, StepIndex(ref, use))
<1> DEFINE p == Min(PartsToStep(ref, use))
<1> DEFINE j == Min(ToStep(ref, use, p))
<1> DEFINE n == StepIndex(ref, use)
<1>2. /\ p \in DOMAIN ref /\ p >= use.next /\ j \in DOMAIN ref[p].index /\ HasStep(ref[p].index[j])
      /\ \A q \in use.next .. p - 1 : ToStep(ref, use, q) = {}
  BY StepsAt
<1> DEFINE e == ref[p].index[j]
<1>1. /\ n.next = p + 1 /\ n.node = [use.node EXCEPT ![p] = j + 1]
      /\ n.temp = [use.temp EXCEPT ![p][j] = IF e.kind = "sum" THEN mem[<<e.name>>] + e.plus ELSE @]
  <2>1. n = [next |-> p + 1, node |-> [use.node EXCEPT ![p] = j + 1],
             temp |-> [use.temp EXCEPT ![p][j] = IF e.kind = "sum" THEN mem[<<e.name>>] + e.plus ELSE @],
             owner |-> use.owner, target |-> use.target]
    BY SteppedFields
  <2> HIDE DEF p, j, n
  <2> QED BY <2>1
<1> HIDE DEF p, j, n
<1>3. e.kind = "sum"
  BY <1>2 DEF OneSumEach
<1>4. /\ n.temp = [use.temp EXCEPT ![p][j] = ValueIn(mem, e)]
  <2>1. ValueIn(mem, e) = mem[<<e.name>>] + e.plus
    BY <1>3 DEF ValueIn
  <2> QED BY <1>1, <1>3, <2>1
<1>5. n.next \in 1 .. Len(ref) + 1
  BY <1>1, <1>2
<1>6. ASSUME NEW q \in DOMAIN ref
      PROVE  IF q < n.next THEN Summed(mem, ref, n, q) ELSE n.node[q] = 1
  <2>1. CASE q < use.next
    <3>1. q # p /\ q < n.next
      BY <1>1, <1>2, <2>1 DEF UseOf
    <3>2. n.temp[q] = use.temp[q]
      BY <1>4, <3>1, <1>6 DEF UseOf
    <3> QED BY <2>1, <3>1, <3>2, <1>6 DEF InProgress, Summed
  <2>2. CASE q >= use.next /\ q < p
    <3>1. q < n.next /\ q \in use.next .. p - 1 /\ use.node[q] = 1
      BY <1>1, <1>2, <2>2, <1>6 DEF InProgress
    <3>2. ToStep(ref, use, q) = {}
      BY <1>2, <3>1
    <3>3. \A i \in DOMAIN ref[q].index : ~ HasStep(ref[q].index[i])
      <4>1. ref[q].index \in Seq(Indexes)
        BY PartOf, <1>6
      <4> QED BY <3>1, <3>2, <4>1 DEF ToStep
    <3> QED BY <3>1, <3>3 DEF Summed
  <2>3. CASE q = p
    <3>1. q < n.next
      BY <1>1, <1>2, <2>3
    <3>2. n.temp[p][j] = ValueIn(mem, e)
      BY <1>2, <1>4 DEF UseOf
    <3>3. ASSUME NEW i \in DOMAIN ref[p].index, HasStep(ref[p].index[i])
          PROVE  n.temp[p][i] = ValueIn(mem, ref[p].index[i])
      <4>1. i = j
        BY <1>2, <3>3 DEF OneSumEach
      <4> QED BY <3>2, <4>1
    <3> QED BY <2>3, <3>1, <3>3 DEF Summed
  <2>4. CASE q > p
    <3>1. ~ (q < n.next) /\ q # p /\ ~ (q < use.next)
      BY <1>1, <1>2, <1>6, <2>4 DEF UseOf
    <3>2. use.node[q] = 1
      BY <1>6, <3>1 DEF InProgress
    <3>3. n.node[q] = use.node[q]
      BY <1>1, <1>6, <3>1 DEF UseOf
    <3> QED BY <3>1, <3>2, <3>3
  <2> QED BY <1>2, <1>6, <2>1, <2>2, <2>3, <2>4 DEF UseOf
<1> QED BY <1>5, <1>6 DEF InProgress, n

LEMMA IndicesAre ==
  ASSUME NEW ref, NEW use
  PROVE  IndicesNow(ref, use) = IndicesIn(mem, ref, use)
BY DEF IndicesNow, IndicesIn

\* The values of the indices once no step is left.
LEMMA StepsOver ==
  ASSUME NEW ref \in Seq(Parts), NEW use, UseOf(ref, use), InProgress(mem, ref, use),
         PartsToStep(ref, use) = {}
  PROVE  IndicesIn(mem, ref, use) = ValuesIn(mem, ref)
<1>1. ASSUME NEW p \in DOMAIN ref PROVE Summed(mem, ref, use, p)
  <2>1. CASE p < use.next
    BY <1>1, <2>1 DEF InProgress
  <2>2. CASE ~ (p < use.next)
    <3>1. use.node[p] = 1
      BY <1>1, <2>2 DEF InProgress
    <3>2. p \in use.next .. Len(ref)
      BY <1>1, <2>2 DEF UseOf
    <3>3. ToStep(ref, use, p) = {}
      BY <3>2 DEF PartsToStep
    <3>4. ref[p].index \in Seq(Indexes)
      BY <1>1, PartOf
    <3> QED BY <3>1, <3>3, <3>4 DEF ToStep, Summed
  <2> QED BY <2>1, <2>2
<1>2. ASSUME NEW p \in DOMAIN ref, NEW j \in DOMAIN ref[p].index
      PROVE  ValueIn(mem, ref[p].index[j])
               = CASE ref[p].index[j].kind = "literal"  -> ref[p].index[j].plus
                   [] ref[p].index[j].kind = "variable" -> mem[<<ref[p].index[j].name>>]
                   [] OTHER                             -> use.temp[p][j]
  <2>1. CASE HasStep(ref[p].index[j])
    BY <1>1, <1>2, <2>1 DEF Summed, HasStep
  <2>2. CASE ~ HasStep(ref[p].index[j])
    <3>1. ref[p].index[j].kind \in {"literal", "variable"}
      BY <1>2, <2>2, PartOf DEF HasStep
    <3> QED BY <3>1 DEF ValueIn
  <2> QED BY <2>1, <2>2
<1> QED BY <1>2 DEF IndicesIn, ValuesIn

LEMMA ConstantIndices ==
  ASSUME NEW ref, NEW use, ConstantReference(ref)
  PROVE  IndicesIn(mem, ref, use) = Literals(ref) /\ ValuesIn(mem, ref) = Literals(ref)
BY DEF ConstantReference, ConstantIndex, IndicesIn, ValuesIn, Literals, ValueIn

LEMMA ResolvedFields ==
  ASSUME NEW ref, NEW use, UseOf(ref, use), NEW k \in Nat \ {0}
  PROVE  LET n == ResolveChain(ref, [use EXCEPT !.next = k])
             indices == IndicesIn(mem, ref, use)
             owner == OwnerOf(LayoutNow, ref, indices, Len(ref))
         IN  n = [next |-> k, node |-> use.node, temp |-> use.temp,
                  owner |-> owner, target |-> TargetOf(LayoutNow, ref, indices, owner)]
<1> DEFINE m == [use EXCEPT !.next = k]
<1>1. m = [next |-> k, node |-> use.node, temp |-> use.temp,
           owner |-> use.owner, target |-> use.target]
  BY DEF UseOf
<1> HIDE DEF m
<1>2. m.temp = use.temp
  BY <1>1
<1>3. IndicesIn(mem, ref, m) = IndicesIn(mem, ref, use)
  BY <1>2 DEF IndicesIn
<1> DEFINE owner == OwnerOf(LayoutNow, ref, IndicesIn(mem, ref, use), Len(ref))
<1> DEFINE target == TargetOf(LayoutNow, ref, IndicesIn(mem, ref, use), owner)
<1>4. ResolveChain(ref, m) = [m EXCEPT !.owner = owner, !.target = target]
  BY <1>3, IndicesAre DEF ResolveChain
<1> HIDE DEF owner, target
<1>5. ResolveChain(ref, m) = [next |-> k, node |-> use.node, temp |-> use.temp, owner |-> owner, target |-> target]
  BY <1>1, <1>4
<1> QED BY <1>5 DEF m, owner, target

LEMMA ResolutionKeepsUse ==
  ASSUME NEW ref \in Seq(Parts), NEW use, UseOf(ref, use)
  PROVE  UseOf(ref, Resolution(ref, use))
<1>1. CASE ConstantReference(ref)
  BY <1>1 DEF Resolution
<1>2. CASE ~ ConstantReference(ref)
  <2>1. Len(ref) + 1 \in Nat \ {0}
    OBVIOUS
  <2> DEFINE n == Resolution(ref, use)
  <2> DEFINE owner == OwnerOf(LayoutNow, ref, IndicesIn(mem, ref, use), Len(ref))
  <2> DEFINE target == TargetOf(LayoutNow, ref, IndicesIn(mem, ref, use), owner)
  <2>2. n = [next |-> Len(ref) + 1, node |-> use.node, temp |-> use.temp,
             owner |-> owner, target |-> target]
    BY <1>2, <2>1, ResolvedFields DEF Resolution
  <2> HIDE DEF n, owner, target
  <2>3. UseOf(ref, n)
    BY <2>1, <2>2 DEF UseOf
  <2> QED BY <2>3 DEF n
<1> QED BY <1>1, <1>2

LEMMA EndResolves ==
  ASSUME NEW ref \in Seq(Parts), NEW use, UseOf(ref, use), InProgress(mem, ref, use),
         Stepped(ref, use),
         ConstantReference(ref) => ResolvedWith(LayoutNow, ref, use, Literals(ref))
  PROVE  Resolved(LayoutNow, mem, ref, Resolution(ref, use))
<1>1. CASE ConstantReference(ref)
  BY <1>1, ConstantIndices DEF Resolution, Resolved
<1>2. CASE ~ ConstantReference(ref)
  <2>1. IndicesIn(mem, ref, use) = ValuesIn(mem, ref)
    BY <1>2, StepsOver DEF Stepped
  <2> DEFINE n == Resolution(ref, use)
  <2> DEFINE owner == OwnerOf(LayoutNow, ref, IndicesIn(mem, ref, use), Len(ref))
  <2> DEFINE target == TargetOf(LayoutNow, ref, IndicesIn(mem, ref, use), owner)
  <2>2. n = [next |-> Len(ref) + 1, node |-> use.node, temp |-> use.temp,
             owner |-> owner, target |-> target]
    BY <1>2, ResolvedFields DEF Resolution
  <2> HIDE DEF n, owner, target
  <2>3. n.temp = use.temp /\ n.owner = owner /\ n.target = target
    BY <2>2
  <2>4. IndicesIn(mem, ref, n) = IndicesIn(mem, ref, use)
    BY <2>3 DEF IndicesIn
  <2>5. ResolvedWith(LayoutNow, ref, n, ValuesIn(mem, ref))
    BY <2>1, <2>3 DEF ResolvedWith, owner, target
  <2> QED BY <2>1, <2>4, <2>5 DEF Resolved, n
<1> QED BY <1>1, <1>2

LEMMA TargetDenoted ==
  ASSUME NEW ref \in Seq(Parts), ref # <<>>, NEW use, Resolved(LayoutNow, mem, ref, use)
  PROVE  use.target = Denoted(ref) /\ TargetNow(ref, use) = Denoted(ref)
BY SelectionDenotes, IndicesAre DEF Resolved, ResolvedWith, TargetNow

\* A reset begins the stepping anew and keeps what the link resolved.
LEMMA ResetFields ==
  ASSUME NEW ref, NEW use, UseOf(ref, use)
  PROVE  ResetUse(use) = [next |-> 1, node |-> [p \in DOMAIN ref |-> 1], temp |-> use.temp,
                          owner |-> use.owner, target |-> use.target]
<1>1. use = [next |-> use.next, node |-> use.node, temp |-> use.temp,
             owner |-> use.owner, target |-> use.target]
  BY DEF UseOf
<1> DEFINE d == [p \in DOMAIN ref |-> 1]
<1>2. ResetUse(use) = [use EXCEPT !.next = 1, !.node = d]
  BY DEF ResetUse, UseOf
<1> HIDE DEF d
<1>3. ResetUse(use) = [next |-> 1, node |-> d, temp |-> use.temp, owner |-> use.owner, target |-> use.target]
  BY <1>1, <1>2
<1> QED BY <1>3 DEF d

LEMMA ResetBegins ==
  ASSUME NEW ref \in Seq(Parts), NEW use, UseOf(ref, use)
  PROVE  /\ UseOf(ref, ResetUse(use))
         /\ \A memory : InProgress(memory, ref, ResetUse(use))
         /\ ResetUse(use).owner = use.owner /\ ResetUse(use).target = use.target
<1> DEFINE n == ResetUse(use)
<1> DEFINE d == [p \in DOMAIN ref |-> 1]
<1>1. n = [next |-> 1, node |-> d, temp |-> use.temp, owner |-> use.owner, target |-> use.target]
  BY ResetFields
<1>2. d \in [DOMAIN ref -> Nat \ {0}] /\ \A p \in DOMAIN ref : d[p] = 1
  OBVIOUS
<1> HIDE DEF n, d
<1>3. n.next = 1 /\ n.node = d /\ n.temp = use.temp /\ n.owner = use.owner /\ n.target = use.target
  BY <1>1
<1>4. UseOf(ref, n)
  BY <1>1, <1>2, <1>3 DEF UseOf
<1>5. \A memory : InProgress(memory, ref, n)
  BY <1>2, <1>3 DEF InProgress
<1> QED BY <1>3, <1>4, <1>5 DEF n

-----------------------------------------------------------------------------
(* The cells of the memory are those of the link: no start and no query     *)
(* takes one away.                                                         *)

LEMMA DeclaredIsSequence ==
  ASSUME project \in DOMAIN Projects
  PROVE  /\ Len(Declared) \in Nat
         /\ Program \in Seq(Statements)
BY ProjectsAssumption DEF Declared, Program

LEMMA ResetKeepsCells ==
  ASSUME project \in DOMAIN Projects, NEW cells, cells \subseteq DOMAIN mem
  PROVE  cells \subseteq DOMAIN ResetAll(Declared).mem
<1> DEFINE N == Len(Declared)
<1>0. N \in Nat
  BY DeclaredIsSequence
<1>1. PICK f : ResetBy(Declared, f)
  BY <1>0, ResetUnfolds
<1> HIDE DEF N
<1>2. \A n \in 1 .. N : cells \subseteq DOMAIN f[n - 1].mem => cells \subseteq DOMAIN f[n].mem
  <2> SUFFICES ASSUME NEW n \in 1 .. N, cells \subseteq DOMAIN f[n - 1].mem
               PROVE  cells \subseteq DOMAIN f[n].mem
    OBVIOUS
  <2>1. f[n] = ThenReset(f[n - 1], Reset(Declared[n]))
    BY <1>1 DEF ResetBy, N
  <2>2. CASE f[n - 1].result = "ok"
    <3>1. DOMAIN f[n].mem = DOMAIN f[n - 1].mem
      BY <2>1, <2>2 DEF ThenReset
    <3> QED BY <3>1
  <2>3. CASE f[n - 1].result # "ok"
    BY <2>1, <2>3 DEF ThenReset
  <2> QED BY <2>2, <2>3
<1>3. \A n \in 0 .. N : cells \subseteq DOMAIN f[n].mem
  <2> DEFINE Bad == {n \in 0 .. N : ~ (cells \subseteq DOMAIN f[n].mem)}
  <2> SUFFICES ASSUME Bad # {} PROVE FALSE
    OBVIOUS
  <2>1. Bad \subseteq Nat
    BY <1>0
  <2>2. PICK m \in Bad : m \in Nat /\ (m # 0 => m - 1 \in Nat /\ m - 1 \notin Bad)
    <3> HIDE DEF Bad
    <3> QED BY <2>1, Least
  <2>3. m # 0
    <3>1. f[0].mem = mem
      BY <1>1 DEF ResetBy
    <3> QED BY <3>1
  <2>4. m \in 1 .. N /\ m - 1 \in 0 .. N
    BY <2>2, <2>3, <1>0
  <2>5. cells \subseteq DOMAIN f[m - 1].mem
    BY <2>2, <2>3, <2>4
  <2> QED BY <1>2, <2>4, <2>5
<1>4. N \in 0 .. N
  BY <1>0
<1> QED BY <1>1, <1>3, <1>4 DEF ResetBy, N

LEMMA EvaluatedKeepsCells ==
  ASSUME NEW done, NEW q
  PROVE  DOMAIN Evaluated(done, q).mem = DOMAIN done.mem
<1>1. DOMAIN Failed(done).mem = DOMAIN done.mem
  BY DEF Failed
<1>2. DOMAIN Crashed(done).mem = DOMAIN done.mem
  BY DEF Crashed
<1>3. \A path, right : DOMAIN AssignAt(done, path, right).mem = DOMAIN done.mem
  <2> SUFFICES ASSUME NEW path, NEW right PROVE DOMAIN AssignAt(done, path, right).mem = DOMAIN done.mem
    OBVIOUS
  <2> DEFINE values == IF right.kind = "literal" THEN {right.value}
                       ELSE {done.mem[p] : p \in {r \in {<<right.name>>} : IsInteger(r)}}
  <2>1. AssignAt(done, path, right)
          = IF \E v \in values : CanHold(Types(path), v)
            THEN [done EXCEPT !.mem[path] = Only(values)] ELSE Failed(done)
    BY DEF AssignAt
  <2> HIDE DEF values
  <2>2. DOMAIN [done EXCEPT !.mem[path] = Only(values)].mem = DOMAIN done.mem
    OBVIOUS
  <2> QED BY <1>1, <2>1, <2>2
<1>4. \A found : DOMAIN AssignFirst(done, q, found).mem = DOMAIN done.mem
  <2> SUFFICES ASSUME NEW found PROVE DOMAIN AssignFirst(done, q, found).mem = DOMAIN done.mem
    OBVIOUS
  <2> QED BY <1>1, <1>2, <1>3 DEF AssignFirst
<1> QED BY <1>1, <1>4 DEF Evaluated, EvaluateOne

LEMMA EvaluateKeepsCells ==
  ASSUME NEW list, Len(list) \in Nat
  PROVE  DOMAIN Evaluate(list).mem = DOMAIN mem
<1> DEFINE N == Len(list)
<1>0. N \in Nat
  OBVIOUS
<1>1. PICK f : EvaluationBy(list, f)
  BY EvaluationUnfolds
<1> HIDE DEF N
<1>2. \A n \in 1 .. N : DOMAIN f[n].mem = DOMAIN f[n - 1].mem
  BY <1>1, EvaluatedKeepsCells DEF EvaluationBy, N
<1>3. \A n \in 0 .. N : DOMAIN f[n].mem = DOMAIN mem
  <2> DEFINE Bad == {n \in 0 .. N : DOMAIN f[n].mem # DOMAIN mem}
  <2> SUFFICES ASSUME Bad # {} PROVE FALSE
    OBVIOUS
  <2>1. Bad \subseteq Nat
    BY <1>0
  <2>2. PICK m \in Bad : m \in Nat /\ (m # 0 => m - 1 \in Nat /\ m - 1 \notin Bad)
    <3> HIDE DEF Bad
    <3> QED BY <2>1, Least
  <2>3. m # 0
    <3>1. f[0].mem = mem
      BY <1>1 DEF EvaluationBy, Linked
    <3> QED BY <3>1
  <2>4. m \in 1 .. N /\ m - 1 \in 0 .. N
    BY <2>2, <2>3, <1>0
  <2>5. DOMAIN f[m - 1].mem = DOMAIN mem
    BY <2>2, <2>3, <2>4
  <2> QED BY <1>2, <2>4, <2>5
<1>4. N \in 0 .. N
  BY <1>0
<1> QED BY <1>1, <1>3, <1>4 DEF EvaluationBy, N

-----------------------------------------------------------------------------
(* The invariant holds *)

LEMMA StatementShape ==
  ASSUME project \in DOMAIN Projects, NEW s \in DOMAIN Program
  PROVE  /\ Program[s].left \in Seq(Parts) /\ Program[s].left # <<>>
         /\ Program[s].right.ref \in Seq(Parts)
         /\ Program[s].right.kind = "element" => Program[s].right.ref # <<>>
         /\ Program[s].right.kind \in {"literal", "identifier", "element", "raised", "call"}
<1>1. Program[s] \in Statements
  BY DeclaredIsSequence
<1>2. Program[s].right \in RightHandSides
  BY <1>1 DEF Statements
<1> QED BY <1>1, <1>2 DEF Statements, RightHandSides

\* The memory the indices of a left-hand side are read from exists.
LEMMA IndicesHaveCells ==
  ASSUME project \in DOMAIN Projects, NEW s \in DOMAIN Program,
         NEW p \in DOMAIN Program[s].left, NEW j \in DOMAIN Program[s].left[p].index,
         Program[s].left[p].index[j].kind \in {"variable", "sum"}
  PROVE  <<Program[s].left[p].index[j].name>> \in CellsBelow(<<>>)
<1> DEFINE path == <<Program[s].left[p].index[j].name>>
<1>1. path \in DOMAIN LayoutNow /\ LayoutNow[path].kind = "integer"
  BY ProjectsAssumption DEF Program, LayoutNow, IndexedByIntegers
<1>2. IsPrefix(<<>>, path)
  BY DEF IsPrefix
<1> HIDE DEF path
<1>3. path \in CellsBelow(<<>>)
  BY <1>1, <1>2 DEF CellsBelow, Below, IsInteger, Types
<1> QED BY <1>3 DEF path

LEMMA FreshShape ==
  ASSUME NEW ref \in Seq(Parts), NEW unwritten
  PROVE  UseOf(ref, FreshUse(ref, unwritten))
<1> DEFINE d == [p \in DOMAIN ref |-> 1]
<1> DEFINE t == [p \in DOMAIN ref |-> [j \in DOMAIN ref[p].index |->
                  IF HasStep(ref[p].index[j]) THEN unwritten ELSE 0]]
<1> DEFINE n == FreshUse(ref, unwritten)
<1>1. n = [next |-> 1, node |-> d, temp |-> t, owner |-> {}, target |-> {}]
  BY DEF FreshUse
<1>2. d \in [DOMAIN ref -> Nat \ {0}]
  OBVIOUS
<1>3. DOMAIN t = DOMAIN ref /\ \A p \in DOMAIN ref : DOMAIN t[p] = DOMAIN ref[p].index
  OBVIOUS
<1> HIDE DEF d, t, n
<1>4. n.next = 1 /\ n.node = d /\ n.temp = t /\ n.owner = {} /\ n.target = {}
  BY <1>1
<1>5. UseOf(ref, n)
  BY <1>1, <1>2, <1>3, <1>4 DEF UseOf
<1> QED BY <1>5 DEF n

LEMMA InvInit == Init => AccessInv
<1> SUFFICES ASSUME Init PROVE AccessInv
  OBVIOUS
<1>1. project \in DOMAIN Projects /\ status = "parsed" /\ current = 1 /\ stage = "left"
  BY DEF Init
<1>2. ASSUME NEW s \in DOMAIN Program PROVE UsesOf(Program[s], uses[s])
  <2> DEFINE l == FreshUse(Program[s].left, garbage)
  <2> DEFINE r == FreshUse(Program[s].right.ref, garbage)
  <2>1. uses[s] = [left |-> l, right |-> r]
    BY <1>2 DEF Init
  <2>2. UseOf(Program[s].left, l) /\ UseOf(Program[s].right.ref, r)
    BY <1>1, <1>2, StatementShape, FreshShape
  <2> HIDE DEF l, r
  <2>3. uses[s].left = l /\ uses[s].right = r
    BY <2>1
  <2> QED BY <2>1, <2>2, <2>3 DEF UsesOf
<1>3. DOMAIN uses = DOMAIN Program /\ CellsBelow(<<>>) \subseteq DOMAIN mem
  BY DEF Init
<1>4. Shape
  BY <1>1, <1>2, <1>3 DEF Shape
<1> QED BY <1>1, <1>4 DEF AccessInv, LinkKept, Running

LEMMA ProjectKept ==
  ASSUME project' = project
  PROVE  /\ Program' = Program /\ LayoutNow' = LayoutNow
         /\ CellsBelow(<<>>)' = CellsBelow(<<>>)
BY DEF Program, LayoutNow, CellsBelow, Below, IsInteger, Types

\* What a verification leaves: its reference is resolved if it is constant.
LEMMA VerifiedIsResolved ==
  ASSUME NEW ref \in Seq(Parts), NEW use, UseOf(ref, use)
  PROVE  /\ UseOf(ref, Verified(ref, use))
         /\ ConstantReference(ref) => ResolvedWith(LayoutNow, ref, Verified(ref, use), Literals(ref))
<1>1. CASE ~ ConstantReference(ref)
  BY <1>1 DEF Verified
<1>2. CASE ConstantReference(ref)
  <2> DEFINE owner == OwnerOf(LayoutNow, ref, Literals(ref), Len(ref))
  <2> DEFINE target == TargetOf(LayoutNow, ref, Literals(ref), owner)
  <2> DEFINE n == Verified(ref, use)
  <2>1. use = [next |-> use.next, node |-> use.node, temp |-> use.temp,
               owner |-> use.owner, target |-> use.target]
    BY DEF UseOf
  <2>2. n = [use EXCEPT !.owner = owner, !.target = target]
    BY <1>2, IndicesAre, ConstantIndices DEF Verified, ResolveChain
  <2> HIDE DEF owner, target, n
  <2>3. n = [next |-> use.next, node |-> use.node, temp |-> use.temp, owner |-> owner, target |-> target]
    BY <2>1, <2>2
  <2>4. /\ n.next = use.next /\ n.node = use.node /\ n.temp = use.temp
        /\ n.owner = owner /\ n.target = target
    BY <2>3
  <2>5. UseOf(ref, n)
    BY <2>3, <2>4 DEF UseOf
  <2>6. ResolvedWith(LayoutNow, ref, n, Literals(ref))
    BY <2>4 DEF ResolvedWith, owner, target
  <2> QED BY <2>5, <2>6 DEF n
<1> QED BY <1>1, <1>2

LEMMA InvLink == AccessInv /\ Link => AccessInv'
<1> SUFFICES ASSUME AccessInv, Link PROVE AccessInv'
  OBVIOUS
<1>1. /\ project' = project /\ mem' = mem /\ current' = current /\ stage' = stage
      /\ status = "parsed" /\ status' = LinkResult
  BY DEF Link
<1>2. Program' = Program /\ LayoutNow' = LayoutNow /\ CellsBelow(<<>>)' = CellsBelow(<<>>)
  BY <1>1, ProjectKept
<1>3. LinkResult \in {"linked", "refused", "crashed"}
  BY DEF LinkResult
<1>4. project \in DOMAIN Projects
  BY DEF AccessInv, Shape
<1>5. ASSUME NEW s \in DOMAIN Program
      PROVE  /\ UsesOf(Program[s], uses'[s])
             /\ LinkResult = "linked" => LinkedStatement(LayoutNow, Program[s], uses'[s])
  <2> DEFINE left == Verified(Program[s].left, uses[s].left)
  <2> DEFINE right == IF Program[s].right.kind = "element"
                      THEN Verified(Program[s].right.ref, uses[s].right) ELSE uses[s].right
  <2>1. UsesOf(Program[s], uses[s])
    BY <1>5 DEF AccessInv, Shape
  <2>2. uses'[s] = [left |-> left, right |-> right]
    BY <1>5 DEF Link, VerifiedUse
  <2>3. /\ UseOf(Program[s].left, left) /\ UseOf(Program[s].right.ref, right)
        /\ ConstantReference(Program[s].left) =>
              ResolvedWith(LayoutNow, Program[s].left, left, Literals(Program[s].left))
        /\ Program[s].right.kind = "element" /\ ConstantReference(Program[s].right.ref) =>
              ResolvedWith(LayoutNow, Program[s].right.ref, right, Literals(Program[s].right.ref))
    BY <1>4, <1>5, <2>1, StatementShape, VerifiedIsResolved DEF UsesOf
  <2>4. LinkResult = "linked" => Program[s].right.kind # "raised"
    BY <1>5 DEF LinkResult, StatementCrashes
  <2> HIDE DEF left, right
  <2>5. uses'[s].left = left /\ uses'[s].right = right
    BY <2>2
  <2> QED BY <2>2, <2>3, <2>4, <2>5 DEF UsesOf, LinkedStatement
<1>6. DOMAIN uses' = DOMAIN Program
  BY DEF Link
<1>7. Shape'
  BY <1>1, <1>2, <1>3, <1>5, <1>6 DEF AccessInv, Shape
<1>8. LinkKept'
  BY <1>1, <1>2, <1>3, <1>5 DEF LinkKept
<1>9. Running'
  BY <1>1, <1>3 DEF Running
<1> QED BY <1>7, <1>8, <1>9 DEF AccessInv

\* A reset of one statement.
LEMMA StatementReset ==
  ASSUME Shape, NEW s, uses' = ResetUses(s)
  PROVE  /\ DOMAIN uses' = DOMAIN Program
         /\ \A t \in DOMAIN Program : UsesOf(Program[t], uses'[t])
         /\ \A t \in DOMAIN Program : LinkedStatement(LayoutNow, Program[t], uses[t])
                                         => LinkedStatement(LayoutNow, Program[t], uses'[t])
         /\ s \in DOMAIN Program => \A memory : RunsAt(LayoutNow, memory, Program[s], uses'[s], "left")
<1>1. uses' = [uses EXCEPT ![s] = [left |-> ResetUse(uses[s].left), right |-> ResetUse(uses[s].right)]]
  BY DEF ResetUses
<1>2. DOMAIN uses' = DOMAIN Program
  BY <1>1 DEF Shape
<1>3. ASSUME NEW t \in DOMAIN Program, t # s PROVE uses'[t] = uses[t]
  BY <1>1, <1>3 DEF Shape
<1>4. ASSUME s \in DOMAIN Program
      PROVE  /\ UsesOf(Program[s], uses'[s])
             /\ LinkedStatement(LayoutNow, Program[s], uses[s])
                   => LinkedStatement(LayoutNow, Program[s], uses'[s])
             /\ \A memory : RunsAt(LayoutNow, memory, Program[s], uses'[s], "left")
  <2> DEFINE left == ResetUse(uses[s].left)
  <2> DEFINE right == ResetUse(uses[s].right)
  <2>1. uses'[s] = [left |-> left, right |-> right]
    BY <1>1, <1>4 DEF Shape
  <2>2. UsesOf(Program[s], uses[s]) /\ project \in DOMAIN Projects
    BY <1>4 DEF Shape
  <2>3. /\ UseOf(Program[s].left, left) /\ UseOf(Program[s].right.ref, right)
        /\ \A memory : InProgress(memory, Program[s].left, left) /\ InProgress(memory, Program[s].right.ref, right)
        /\ left.owner = uses[s].left.owner /\ left.target = uses[s].left.target
        /\ right.owner = uses[s].right.owner /\ right.target = uses[s].right.target
    BY <1>4, <2>2, StatementShape, ResetBegins DEF UsesOf
  <2> HIDE DEF left, right
  <2>4. uses'[s].left = left /\ uses'[s].right = right
    BY <2>1
  <2>5. UsesOf(Program[s], uses'[s])
    BY <2>1, <2>3, <2>4 DEF UsesOf
  <2>6. LinkedStatement(LayoutNow, Program[s], uses[s]) => LinkedStatement(LayoutNow, Program[s], uses'[s])
    BY <2>3, <2>4 DEF LinkedStatement, ResolvedWith
  <2>7. \A memory : RunsAt(LayoutNow, memory, Program[s], uses'[s], "left")
    BY <2>3, <2>4 DEF RunsAt
  <2> QED BY <2>5, <2>6, <2>7
<1>5. \A t \in DOMAIN Program : UsesOf(Program[t], uses[t])
  BY DEF Shape
<1> QED BY <1>2, <1>3, <1>4, <1>5

LEMMA InvStart == AccessInv /\ Start => AccessInv'
<1> SUFFICES ASSUME AccessInv, Start PROVE AccessInv'
  OBVIOUS
<1>1. /\ project' = project /\ current' = 1 /\ stage' = "left" /\ uses' = ResetUses(1)
      /\ status \in {"linked", "started", "failed"} /\ mem' = ResetAll(Declared).mem
      /\ status' \in {"started", "crashed", status}
  BY DEF Start
<1>2. Program' = Program /\ LayoutNow' = LayoutNow /\ CellsBelow(<<>>)' = CellsBelow(<<>>)
  BY <1>1, ProjectKept
<1>3. CellsBelow(<<>>) \subseteq DOMAIN mem'
  BY <1>1, ResetKeepsCells DEF AccessInv, Shape
<1>4. Shape'
  BY <1>1, <1>2, <1>3, StatementReset DEF AccessInv, Shape
<1>5. LinkKept'
  BY <1>1, <1>2, StatementReset DEF AccessInv, LinkKept
<1>6. Running'
  BY <1>1 DEF Running
<1> QED BY <1>4, <1>5, <1>6 DEF AccessInv

\* One reference of the statement that runs moves on.
LEMMA UseReplaced ==
  ASSUME Shape, NEW side \in {"left", "right"}, NEW u,
         current \in DOMAIN Program => UseOf(Reference(side), u),
         uses' = [uses EXCEPT ![current][side] = u]
  PROVE  /\ DOMAIN uses' = DOMAIN Program
         /\ \A t \in DOMAIN Program : UsesOf(Program[t], uses'[t])
         /\ \A t \in DOMAIN Program : t # current => uses'[t] = uses[t]
         /\ current \in DOMAIN Program =>
               /\ side = "left"  => uses'[current].left = u /\ uses'[current].right = uses[current].right
               /\ side = "right" => uses'[current].right = u /\ uses'[current].left = uses[current].left
<1>1. DOMAIN uses' = DOMAIN Program
  BY DEF Shape
<1>2. ASSUME NEW t \in DOMAIN Program, t # current PROVE uses'[t] = uses[t]
  BY <1>2 DEF Shape
<1>3. ASSUME current \in DOMAIN Program, side = "left"
      PROVE  /\ uses'[current].left = u /\ uses'[current].right = uses[current].right
             /\ UsesOf(Program[current], uses'[current])
  <2> DEFINE b == uses[current].right
  <2>1. uses[current] = [left |-> uses[current].left, right |-> b] /\ UseOf(Program[current].right.ref, b)
    BY <1>3 DEF Shape, UsesOf
  <2>2. uses'[current] = [uses[current] EXCEPT !["left"] = u]
    BY <1>3 DEF Shape
  <2> HIDE DEF b
  <2>3. uses'[current] = [left |-> u, right |-> b]
    BY <2>1, <2>2
  <2>4. uses'[current].left = u /\ uses'[current].right = b
    BY <2>3
  <2>5. UseOf(Program[current].left, u)
    BY <1>3 DEF Reference, Now
  <2> QED BY <2>1, <2>3, <2>4, <2>5 DEF UsesOf, b
<1>4. ASSUME current \in DOMAIN Program, side = "right"
      PROVE  /\ uses'[current].right = u /\ uses'[current].left = uses[current].left
             /\ UsesOf(Program[current], uses'[current])
  <2> DEFINE a == uses[current].left
  <2>1. uses[current] = [left |-> a, right |-> uses[current].right] /\ UseOf(Program[current].left, a)
    BY <1>4 DEF Shape, UsesOf
  <2>2. uses'[current] = [uses[current] EXCEPT !["right"] = u]
    BY <1>4 DEF Shape
  <2> HIDE DEF a
  <2>3. uses'[current] = [left |-> a, right |-> u]
    BY <2>1, <2>2
  <2>4. uses'[current].right = u /\ uses'[current].left = a
    BY <2>3
  <2>5. UseOf(Program[current].right.ref, u)
    BY <1>4 DEF Reference, Now
  <2> QED BY <2>1, <2>3, <2>4, <2>5 DEF UsesOf, a
<1>5. \A t \in DOMAIN Program : UsesOf(Program[t], uses[t])
  BY DEF Shape
<1> QED BY <1>1, <1>2, <1>3, <1>4, <1>5

\* The statement that runs, when it is not the first, is one of the program.
LEMMA CurrentStatement ==
  ASSUME Shape, current > 1
  PROVE  current \in DOMAIN Program /\ Now = Program[current]
<1>1. Program \in Seq(Statements)
  BY DeclaredIsSequence DEF Shape
<1> QED BY <1>1 DEF Shape, Now

LEMMA UseNow ==
  ASSUME Shape, NEW side \in {"left", "right"}, current \in DOMAIN Program
  PROVE  Reference(side) \in Seq(Parts) /\ UseOf(Reference(side), uses[current][side])
<1>1. UsesOf(Program[current], uses[current]) /\ project \in DOMAIN Projects
  BY DEF Shape
<1> QED BY <1>1, StatementShape DEF UsesOf, Reference, Now

LEMMA InvStepReference ==
  ASSUME AccessInv, NEW side \in {"left", "right"}, StepReference(side)
  PROVE  AccessInv'
<1> DEFINE u == StepIndex(Reference(side), uses[current][side])
<1>1. /\ project' = project /\ mem' = mem /\ current' = current /\ stage' = stage /\ status' = status
      /\ status = "running" /\ stage = side
      /\ ~ ConstantReference(Reference(side)) /\ PartsToStep(Reference(side), uses[current][side]) # {}
      /\ uses' = [uses EXCEPT ![current][side] = u]
  BY DEF StepReference, ToBeStepped, Stepped
<1>2. Program' = Program /\ LayoutNow' = LayoutNow /\ CellsBelow(<<>>)' = CellsBelow(<<>>)
  BY <1>1, ProjectKept
<1>3. Shape
  BY DEF AccessInv
<1>4. current \in DOMAIN Program => UseOf(Reference(side), u)
  BY <1>1, <1>3, UseNow, StepKeepsUse
<1> HIDE DEF u
<1>5. /\ DOMAIN uses' = DOMAIN Program
      /\ \A t \in DOMAIN Program : UsesOf(Program[t], uses'[t])
      /\ \A t \in DOMAIN Program : t # current => uses'[t] = uses[t]
      /\ current \in DOMAIN Program =>
            /\ side = "left"  => uses'[current].left = u /\ uses'[current].right = uses[current].right
            /\ side = "right" => uses'[current].right = u /\ uses'[current].left = uses[current].left
  BY <1>1, <1>3, <1>4, UseReplaced
<1>6. Shape'
  BY <1>1, <1>2, <1>3, <1>5 DEF Shape
<1>7. LinkKept'
  <2>1. ASSUME NEW t \in DOMAIN Program PROVE LinkedStatement(LayoutNow, Program[t], uses'[t])
    <3>1. LinkedStatement(LayoutNow, Program[t], uses[t])
      BY <1>1, <2>1 DEF AccessInv, LinkKept
    <3>2. CASE t # current
      BY <1>5, <2>1, <3>1, <3>2
    <3>3. CASE t = current
      BY <1>1, <1>5, <2>1, <3>1, <3>3 DEF LinkedStatement, Reference, Now
    <3> QED BY <3>2, <3>3
  <2> QED BY <1>2, <2>1 DEF LinkKept
<1>8. Running'
  <2> SUFFICES ASSUME current > 1, Ordinary(Now)
               PROVE  RunsAt(LayoutNow, mem, Now, uses'[current], stage)
    BY <1>1, <1>2 DEF Running, Now
  <2>1. current \in DOMAIN Program /\ Now = Program[current]
    BY <1>3, CurrentStatement
  <2>2. RunsAt(LayoutNow, mem, Now, uses[current], stage)
    BY <1>1 DEF AccessInv, Running
  <2>3. OneSumEach(Now.left) /\ OneSumEach(Now.right.ref)
    BY DEF Ordinary
  <2>4. InProgress(mem, Reference(side), uses[current][side])
    BY <1>1, <2>2 DEF RunsAt, Reference
  <2>5. InProgress(mem, Reference(side), u)
    BY <1>1, <1>3, <2>1, <2>3, <2>4, UseNow, StepKeepsProgress DEF Reference, u
  <2> QED BY <1>1, <1>5, <2>1, <2>2, <2>5 DEF RunsAt, Reference
<1> QED BY <1>6, <1>7, <1>8 DEF AccessInv

\* A step that ends the cycle in an error or a crash leaves the rest.
LEMMA InvFail ==
  ASSUME AccessInv, status = "running",
         UNCHANGED <<project, mem, uses, current, stage>>, status' \in {"failed", "crashed"}
  PROVE  AccessInv'
<1>1. Program' = Program /\ LayoutNow' = LayoutNow /\ CellsBelow(<<>>)' = CellsBelow(<<>>)
  BY ProjectKept
<1>2. Shape'
  BY <1>1 DEF AccessInv, Shape
<1>3. LinkKept'
  BY <1>1 DEF AccessInv, LinkKept
<1>4. Running'
  BY DEF Running
<1> QED BY <1>2, <1>3, <1>4 DEF AccessInv

LEMMA InvEndReference ==
  ASSUME AccessInv, NEW side \in {"left", "right"}, EndReference(side)
  PROVE  AccessInv'
<1> DEFINE u == Resolution(Reference(side), uses[current][side])
<1>1. status = "running" /\ stage = side /\ (side = "right" => Now.right.kind = "element")
      /\ Stepped(Reference(side), uses[current][side])
  BY DEF EndReference, ToBeStepped
<1>2. CASE Crash \/ Fail
  <2>1. UNCHANGED <<project, mem, uses, current, stage>> /\ status' \in {"failed", "crashed"}
    BY <1>2 DEF Crash, Fail
  <2> QED BY <1>1, <2>1, InvFail
<1>3. CASE /\ uses' = [uses EXCEPT ![current][side] = u]
           /\ stage' = IF side = "left" /\ Now.right.kind \in {"element", "call"} THEN "right" ELSE "assign"
           /\ UNCHANGED <<project, garbage, status, mem, current, answer>>
  <2>1. Program' = Program /\ LayoutNow' = LayoutNow /\ CellsBelow(<<>>)' = CellsBelow(<<>>)
    BY <1>3, ProjectKept
  <2>2. Shape
    BY DEF AccessInv
  <2>3. current \in DOMAIN Program => UseOf(Reference(side), u)
    BY <2>2, UseNow, ResolutionKeepsUse
  <2>4. ConstantReference(Reference(side)) => u = uses[current][side]
    BY DEF Resolution
  <2> HIDE DEF u
  <2>5. /\ DOMAIN uses' = DOMAIN Program
        /\ \A t \in DOMAIN Program : UsesOf(Program[t], uses'[t])
        /\ \A t \in DOMAIN Program : t # current => uses'[t] = uses[t]
        /\ current \in DOMAIN Program =>
              /\ side = "left"  => uses'[current].left = u /\ uses'[current].right = uses[current].right
              /\ side = "right" => uses'[current].right = u /\ uses'[current].left = uses[current].left
    BY <1>3, <2>2, <2>3, UseReplaced
  <2>6. Shape'
    BY <1>1, <1>3, <2>1, <2>2, <2>5 DEF Shape
  <2>7. LinkKept'
    <3>1. ASSUME NEW t \in DOMAIN Program PROVE LinkedStatement(LayoutNow, Program[t], uses'[t])
      <4>1. LinkedStatement(LayoutNow, Program[t], uses[t])
        BY <1>1, <3>1 DEF AccessInv, LinkKept
      <4>2. CASE t # current
        BY <2>5, <3>1, <4>1, <4>2
      <4>3. CASE t = current
        BY <2>4, <2>5, <3>1, <4>1, <4>3 DEF LinkedStatement, Reference, Now
      <4> QED BY <4>2, <4>3
    <3> QED BY <2>1, <3>1 DEF LinkKept
  <2>8. Running'
    <3> SUFFICES ASSUME current > 1, Ordinary(Now)
                 PROVE  RunsAt(LayoutNow, mem, Now, uses'[current], stage')
      BY <1>3, <2>1 DEF Running, Now
    <3>1. current \in DOMAIN Program /\ Now = Program[current]
      BY <2>2, CurrentStatement
    <3>2. RunsAt(LayoutNow, mem, Now, uses[current], stage)
      BY <1>1 DEF AccessInv, Running
    <3>3. LinkedStatement(LayoutNow, Now, uses[current])
      BY <1>1, <3>1 DEF AccessInv, LinkKept
    <3>4. InProgress(mem, Reference(side), uses[current][side])
      BY <1>1, <3>2 DEF RunsAt, Reference
    <3>5. ConstantReference(Reference(side)) =>
             ResolvedWith(LayoutNow, Reference(side), uses[current][side], Literals(Reference(side)))
      BY <1>1, <3>3 DEF LinkedStatement, Reference
    <3>6. Resolved(LayoutNow, mem, Reference(side), u)
      BY <1>1, <2>2, <3>1, <3>4, <3>5, UseNow, EndResolves DEF u
    <3>7. CASE side = "left"
      <4>1. /\ Resolved(LayoutNow, mem, Now.left, uses'[current].left)
            /\ InProgress(mem, Now.right.ref, uses'[current].right)
        BY <1>1, <2>5, <3>1, <3>2, <3>6, <3>7 DEF RunsAt, Reference
      <4>2. stage' \in {"right", "assign"} /\ (stage' = "assign" => Now.right.kind # "element")
        BY <1>3, <3>7
      <4> QED BY <4>1, <4>2 DEF RunsAt
    <3>8. CASE side = "right"
      <4>1. /\ Resolved(LayoutNow, mem, Now.left, uses'[current].left)
            /\ Resolved(LayoutNow, mem, Now.right.ref, uses'[current].right)
        BY <1>1, <2>5, <3>1, <3>2, <3>6, <3>8 DEF RunsAt, Reference
      <4>2. stage' = "assign"
        BY <1>3, <3>8
      <4> QED BY <4>1, <4>2 DEF RunsAt
    <3> QED BY <3>7, <3>8
  <2> QED BY <2>6, <2>7, <2>8 DEF AccessInv
<1> QED BY <1>2, <1>3 DEF EndReference

\* A call that writes no variable the reference is indexed by.
IndexCells(memory, ref) ==
    \A p \in DOMAIN ref : \A j \in DOMAIN ref[p].index :
        ref[p].index[j].kind \in {"variable", "sum"} => <<ref[p].index[j].name>> \in DOMAIN memory

Written(memory, x, v) == [memory EXCEPT ![<<x>>] = v]

LEMMA ValuesKept ==
  ASSUME NEW ref \in Seq(Parts), NEW use, NEW x, NEW v, NEW memory, OneSumEach(ref), ~ IndexedBy(ref, x),
         IndexCells(memory, ref), NEW m, m = Written(memory, x, v)
  PROVE  ValuesIn(m, ref) = ValuesIn(memory, ref) /\ IndicesIn(m, ref, use) = IndicesIn(memory, ref, use)
<1>1. ASSUME NEW p \in DOMAIN ref, NEW j \in DOMAIN ref[p].index, ref[p].index[j].kind # "literal"
      PROVE  m[<<ref[p].index[j].name>>] = memory[<<ref[p].index[j].name>>]
  <2> DEFINE name == ref[p].index[j].name
  <2>1. name # x
    BY <1>1 DEF IndexedBy
  <2>2. ref[p].index[j].kind \in {"variable", "sum"}
    BY <1>1, PartOf DEF OneSumEach, HasStep
  <2>3. <<name>> \in DOMAIN memory
    BY <1>1, <2>2 DEF IndexCells
  <2> HIDE DEF name
  <2>4. <<name>> # <<x>>
    BY <2>1
  <2>5. m[<<name>>] = memory[<<name>>]
    BY <2>3, <2>4 DEF Written
  <2> QED BY <2>5 DEF name
<1>2. ValuesIn(m, ref) = ValuesIn(memory, ref)
  <2>1. ASSUME NEW p \in DOMAIN ref, NEW j \in DOMAIN ref[p].index
        PROVE  ValueIn(m, ref[p].index[j]) = ValueIn(memory, ref[p].index[j])
    <3>1. CASE ref[p].index[j].kind = "literal"
      BY <3>1 DEF ValueIn
    <3>2. CASE ref[p].index[j].kind # "literal"
      <4>1. m[<<ref[p].index[j].name>>] = memory[<<ref[p].index[j].name>>]
        BY <1>1, <2>1, <3>2
      <4> QED BY <3>2, <4>1 DEF ValueIn
    <3> QED BY <3>1, <3>2
  <2> QED BY <2>1 DEF ValuesIn
<1>3. IndicesIn(m, ref, use) = IndicesIn(memory, ref, use)
  BY <1>1 DEF IndicesIn
<1> QED BY <1>2, <1>3

LEMMA InvCallFunction == AccessInv /\ CallFunction => AccessInv'
<1> SUFFICES ASSUME AccessInv, CallFunction PROVE AccessInv'
  OBVIOUS
<1>1. /\ project' = project /\ current' = current /\ stage' = "assign" /\ status' = status /\ uses' = uses
      /\ status = "running" /\ stage = "right" /\ Now.right.kind = "call"
      /\ mem' = [mem EXCEPT ![<<Now.right.name>>] = Now.right.writes]
  BY DEF CallFunction
<1>2. Program' = Program /\ LayoutNow' = LayoutNow /\ CellsBelow(<<>>)' = CellsBelow(<<>>)
  BY <1>1, ProjectKept
<1>3. Shape'
  BY <1>1, <1>2 DEF AccessInv, Shape
<1>4. LinkKept'
  BY <1>1, <1>2 DEF AccessInv, LinkKept
<1>5. Running'
  <2> SUFFICES ASSUME current > 1, Ordinary(Now)
               PROVE  RunsAt(LayoutNow, mem', Now, uses[current], "assign")
    BY <1>1, <1>2 DEF Running, Now
  <2>1. current \in DOMAIN Program /\ Now = Program[current] /\ project \in DOMAIN Projects
    BY CurrentStatement DEF AccessInv, Shape
  <2>2. Resolved(LayoutNow, mem, Now.left, uses[current].left)
    BY <1>1 DEF AccessInv, Running, RunsAt
  <2>3. OneSumEach(Now.left) /\ ~ IndexedBy(Now.left, Now.right.name)
    BY <1>1 DEF Ordinary
  <2>4. IndexCells(mem, Now.left)
    BY <2>1, IndicesHaveCells DEF AccessInv, Shape, IndexCells
  <2>5. Now.left \in Seq(Parts)
    BY <2>1, StatementShape
  <2> DEFINE left == Now.left
  <2> DEFINE u == uses[current].left
  <2> DEFINE x == Now.right.name
  <2> DEFINE v == Now.right.writes
  <2>6. ValuesIn(mem', left) = ValuesIn(mem, left) /\ IndicesIn(mem', left, u) = IndicesIn(mem, left, u)
    <3>1. mem' = Written(mem, x, v)
      BY <1>1 DEF Written
    <3>2. OneSumEach(left) /\ ~ IndexedBy(left, x) /\ left \in Seq(Parts) /\ IndexCells(mem, left)
      BY <2>3, <2>4, <2>5
    <3> HIDE DEF left, u, x, v
    <3> QED BY <3>1, <3>2, ValuesKept
  <2>7. Resolved(LayoutNow, mem', Now.left, uses[current].left)
    BY <2>2, <2>6 DEF Resolved
  <2> QED BY <1>1, <2>7 DEF RunsAt
<1> QED BY <1>3, <1>4, <1>5 DEF AccessInv

LEMMA InvAssign == AccessInv /\ Assign => AccessInv'
<1> SUFFICES ASSUME AccessInv, Assign PROVE AccessInv'
  OBVIOUS
<1>1. status = "running"
  BY DEF Assign
<1>2. CASE Fail
  BY <1>1, <1>2, InvFail DEF Fail
<1>3. CASE /\ \E path, v : mem' = [mem EXCEPT ![path] = v]
           /\ NextStatement
           /\ UNCHANGED <<project, garbage, answer>>
  <2>1. Program' = Program /\ LayoutNow' = LayoutNow /\ CellsBelow(<<>>)' = CellsBelow(<<>>)
    BY <1>3, ProjectKept
  <2>2. DOMAIN mem' = DOMAIN mem
    BY <1>3
  <2>3. Program \in Seq(Statements)
    BY DeclaredIsSequence DEF AccessInv, Shape
  <2>4. CASE current < Len(Program)
    <3>1. /\ current' = current + 1 /\ uses' = ResetUses(current') /\ stage' = "left" /\ status' = status
      BY <2>4, <1>3 DEF NextStatement
    <3>2. current' \in DOMAIN Program /\ current' \in Nat \ {0} /\ current' <= Len(Program)
      BY <2>3, <2>4, <3>1 DEF AccessInv, Shape
    <3> DEFINE c == current'
    <3>3. uses' = ResetUses(c)
      BY <3>1
    <3> HIDE DEF c
    <3>4. /\ DOMAIN uses' = DOMAIN Program
          /\ \A t \in DOMAIN Program : UsesOf(Program[t], uses'[t])
          /\ \A t \in DOMAIN Program : LinkedStatement(LayoutNow, Program[t], uses[t])
                                          => LinkedStatement(LayoutNow, Program[t], uses'[t])
          /\ c \in DOMAIN Program => \A memory : RunsAt(LayoutNow, memory, Program[c], uses'[c], "left")
      BY <3>3, StatementReset DEF AccessInv
    <3>5. Shape'
      BY <1>1, <1>3, <2>1, <2>2, <3>1, <3>2, <3>4 DEF AccessInv, Shape
    <3>6. LinkKept'
      BY <1>1, <2>1, <3>4 DEF AccessInv, LinkKept
    <3>7. Running'
      BY <2>1, <3>1, <3>2, <3>4 DEF Running, Now, c
    <3> QED BY <3>5, <3>6, <3>7 DEF AccessInv
  <2>5. CASE ~ (current < Len(Program))
    <3>1. current' = 1 /\ uses' = uses /\ stage' = "assign" /\ status' = "started"
      BY <2>5, <1>3 DEF NextStatement
    <3>2. Shape'
      BY <1>3, <2>1, <2>2, <3>1 DEF AccessInv, Shape
    <3>3. LinkKept'
      BY <1>1, <2>1, <3>1 DEF AccessInv, LinkKept
    <3>4. Running'
      BY <3>1 DEF Running
    <3> QED BY <3>2, <3>3, <3>4 DEF AccessInv
  <2> QED BY <2>4, <2>5
<1> QED BY <1>2, <1>3 DEF Assign

LEMMA InvQuery ==
  ASSUME AccessInv, NEW list \in QueryLists, NEW size, Query(list, size)
  PROVE  AccessInv'
<1>1. /\ mem' = Evaluate(list).mem /\ UNCHANGED <<project, uses, current, stage>>
      /\ status \in {"linked", "started"} /\ status' \in {"crashed", status}
  BY DEF Query
<1>2. Program' = Program /\ LayoutNow' = LayoutNow /\ CellsBelow(<<>>)' = CellsBelow(<<>>)
  BY <1>1, ProjectKept
<1>3. Len(list) \in Nat
  BY QueriesAssumption
<1>4. DOMAIN mem' = DOMAIN mem
  BY <1>1, <1>3, EvaluateKeepsCells
<1>5. Shape'
  BY <1>1, <1>2, <1>4 DEF AccessInv, Shape
<1>6. LinkKept'
  BY <1>1, <1>2 DEF AccessInv, LinkKept
<1>7. Running'
  BY <1>1 DEF Running
<1> QED BY <1>5, <1>6, <1>7 DEF AccessInv

LEMMA InvNext == AccessInv /\ [Next]_vars => AccessInv'
<1> SUFFICES ASSUME AccessInv, [Next]_vars PROVE AccessInv'
  OBVIOUS
<1>1. CASE Link
  BY <1>1, InvLink
<1>2. CASE Start
  BY <1>2, InvStart
<1>3. CASE RunCycle
  <2>1. /\ UNCHANGED <<project, mem, uses, current, stage>> /\ status = "started" /\ status' = "running"
    BY <1>3 DEF RunCycle
  <2>2. Program' = Program /\ LayoutNow' = LayoutNow /\ CellsBelow(<<>>)' = CellsBelow(<<>>)
    BY <2>1, ProjectKept
  <2> QED BY <2>1, <2>2 DEF AccessInv, Shape, LinkKept, Running
<1>4. ASSUME NEW side \in {"left", "right"}, StepReference(side) \/ EndReference(side) PROVE AccessInv'
  BY <1>4, InvStepReference, InvEndReference
<1>5. CASE CallFunction
  BY <1>5, InvCallFunction
<1>6. CASE Assign
  BY <1>6, InvAssign
<1>7. ASSUME NEW list \in QueryLists, NEW size \in BufferSizes, Query(list, size) PROVE AccessInv'
  BY <1>7, InvQuery
<1>8. CASE UNCHANGED vars
  <2>1. UNCHANGED <<project, status, mem, uses, current, stage>>
    BY <1>8 DEF vars
  <2>2. Program' = Program /\ LayoutNow' = LayoutNow /\ CellsBelow(<<>>)' = CellsBelow(<<>>)
    BY <2>1, ProjectKept
  <2>3. Now' = Now
    BY <2>1, <2>2 DEF Now
  <2> QED BY <2>1, <2>2, <2>3 DEF AccessInv, Shape, LinkKept, Running
<1> QED BY <1>1, <1>2, <1>3, <1>4, <1>5, <1>6, <1>7, <1>8 DEF Next

\* At every step of every ordinary statement the indices that have been
\* stepped have their values of now, and a reference that has been resolved
\* is resolved by them: nothing is left of an earlier execution.
THEOREM ResolutionIsCurrent == Spec => []AccessInv
BY InvInit, InvNext, PTL DEF Spec

-----------------------------------------------------------------------------
(* The two properties *)

\* What the assignment sees is what the statement names.
LEMMA AssignSees ==
  ASSUME AccessInv, status = "running", stage = "assign", current > 1, Ordinary(Now)
  PROVE  /\ TargetNow(Now.left, uses[current].left) = Denoted(Now.left)
         /\ RightValues = RightDenotes
<1>1. current \in DOMAIN Program /\ Now = Program[current] /\ project \in DOMAIN Projects
  BY CurrentStatement DEF AccessInv, Shape
<1>2. /\ Now.left \in Seq(Parts) /\ Now.left # <<>> /\ Now.right.ref \in Seq(Parts)
      /\ Now.right.kind = "element" => Now.right.ref # <<>>
      /\ Now.right.kind \in {"literal", "identifier", "element", "raised", "call"}
  BY <1>1, StatementShape
<1>3. /\ Resolved(LayoutNow, mem, Now.left, uses[current].left)
      /\ Now.right.kind = "element" => Resolved(LayoutNow, mem, Now.right.ref, uses[current].right)
  BY DEF AccessInv, Running, RunsAt
<1>4. TargetNow(Now.left, uses[current].left) = Denoted(Now.left)
  BY <1>2, <1>3, TargetDenoted
<1>5. Now.right.kind = "element" => uses[current].right.target = Denoted(Now.right.ref)
  BY <1>2, <1>3, TargetDenoted
<1>6. Now.right.kind # "raised"
  BY <1>1 DEF AccessInv, LinkKept, LinkedStatement
<1>7. RightValues = RightDenotes
  BY <1>2, <1>5, <1>6 DEF RightValues, RightDenotes, RightPaths
<1> QED BY <1>4, <1>7

LEMMA OnlyAssign ==
  ASSUME [Next]_vars, status = "running", stage = "assign", ~ UNCHANGED vars
  PROVE  Assign
BY DEF Next, Link, Start, RunCycle, StepReference, EndReference, ToBeStepped, CallFunction, Query

LEMMA AssignStep ==
  ASSUME AccessInv, [Next]_vars, ~ UNCHANGED vars,
         status = "running", stage = "assign", status' # "failed", current > 1, Ordinary(Now)
  PROVE  \E path \in Denoted(Now.left), v \in RightDenotes : mem' = [mem EXCEPT ![path] = v]
<1>1. Assign
  BY OnlyAssign
<1>2. ~ Fail
  BY DEF Fail
<1>3. PICK s \in Stores : mem' = [mem EXCEPT ![s.path] = s.value]
  BY <1>1, <1>2 DEF Assign
<1>4. PICK p \in TargetNow(Now.left, uses[current].left), v \in RightValues : s = [path |-> p, value |-> v]
  BY <1>3 DEF Stores
<1>5. s.path = p /\ s.value = v
  BY <1>4
<1>6. mem' = [mem EXCEPT ![p] = v]
  BY <1>3, <1>5
<1>7. TargetNow(Now.left, uses[current].left) = Denoted(Now.left) /\ RightValues = RightDenotes
  BY AssignSees
<1>8. p \in Denoted(Now.left) /\ v \in RightDenotes
  BY <1>4, <1>7
<1> QED BY <1>6, <1>8

LEMMA FailStep ==
  ASSUME AccessInv, [Next]_vars, status' = "failed", status = "running", current > 1, Ordinary(Now)
  PROVE  ~ Legal
<1>0. ~ UNCHANGED vars
  BY DEF vars
<1>1. CASE Assign
  <2>1. stage = "assign" /\ ~ NextStatement
    BY <1>1 DEF Assign, NextStatement
  <2>2. \A s \in Stores : ~ CanHold(Types(s.path), s.value)
    BY <1>1, <2>1 DEF Assign
  <2>3. \A p \in TargetNow(Now.left, uses[current].left), v \in RightValues : ~ CanHold(Types(p), v)
    <3> SUFFICES ASSUME NEW p \in TargetNow(Now.left, uses[current].left), NEW v \in RightValues
                 PROVE  ~ CanHold(Types(p), v)
      OBVIOUS
    <3>1. [path |-> p, value |-> v] \in Stores
      BY DEF Stores
    <3> QED BY <2>2, <3>1
  <2> QED BY <2>1, <2>3, AssignSees DEF Legal
<1>2. ASSUME NEW side \in {"left", "right"}, EndReference(side) PROVE ~ Legal
  <2> DEFINE u == Resolution(Reference(side), uses[current][side])
  <2>1. /\ stage = side /\ (side = "right" => Now.right.kind = "element")
        /\ Stepped(Reference(side), uses[current][side]) /\ u.target = {}
    BY <1>2 DEF EndReference, ToBeStepped, Crash
  <2>2. Shape
    BY DEF AccessInv
  <2>3. current \in DOMAIN Program /\ Now = Program[current] /\ project \in DOMAIN Projects
    BY <2>2, CurrentStatement DEF Shape
  <2>4. RunsAt(LayoutNow, mem, Now, uses[current], stage) /\ LinkedStatement(LayoutNow, Now, uses[current])
    BY <2>3 DEF AccessInv, Running, LinkKept
  <2>5. InProgress(mem, Reference(side), uses[current][side])
    BY <2>1, <2>4 DEF RunsAt, Reference
  <2>6. ConstantReference(Reference(side)) =>
           ResolvedWith(LayoutNow, Reference(side), uses[current][side], Literals(Reference(side)))
    BY <2>1, <2>4 DEF LinkedStatement, Reference
  <2>7. Resolved(LayoutNow, mem, Reference(side), u)
    BY <2>1, <2>2, <2>3, <2>5, <2>6, UseNow, EndResolves
  <2>8. Reference(side) \in Seq(Parts) /\ Reference(side) # <<>>
    BY <2>1, <2>3, StatementShape DEF Reference
  <2> HIDE DEF u
  <2>9. Denoted(Reference(side)) = {}
    BY <2>1, <2>7, <2>8, TargetDenoted
  <2>10. CASE side = "left"
    BY <2>9, <2>10 DEF Legal, Reference
  <2>11. CASE side = "right"
    <3>1. RightDenotes = {}
      BY <2>1, <2>9, <2>11 DEF RightDenotes, Reference
    <3> QED BY <3>1 DEF Legal
  <2> QED BY <2>10, <2>11
<1>3. Assign \/ \E side \in {"left", "right"} : EndReference(side)
  BY <1>0 DEF Next, Link, Start, RunCycle, StepReference, CallFunction, Query
<1> QED BY <1>1, <1>2, <1>3

\* An assignment stores a value its right-hand side has now at an element its
\* left-hand side names now, for every program, whatever earlier executions,
\* queries and restarts left in the temporaries and the resolved variables.
THEOREM AssignmentsAreExact == Spec => AssignsWhatItNames
<1> DEFINE A == status = "running" /\ stage = "assign" /\ status' # "failed"
                /\ current > 1 /\ Ordinary(Now)
                => \E path \in Denoted(Now.left), v \in RightDenotes : mem' = [mem EXCEPT ![path] = v]
<1>1. AccessInv /\ [Next]_vars => [A]_vars
  BY AssignStep
<1> QED BY <1>1, ResolutionIsCurrent, PTL DEF Spec, AssignsWhatItNames

\* No cycle ends in an error at a statement that has a meaning.
THEOREM GoodStatementsDoNotFail == Spec => OnlyBadStatementsFail
<1> DEFINE B == status' = "failed" /\ status = "running" /\ current > 1 /\ Ordinary(Now) => ~ Legal
<1>1. AccessInv /\ [Next]_vars => [B]_vars
  BY FailStep
<1> QED BY <1>1, ResolutionIsCurrent, PTL DEF Spec, OnlyBadStatementsFail

-----------------------------------------------------------------------------
(* The queries: each one that is evaluated does its assignment, on what the *)
(* ones before have left, and nothing else.                                *)

\* What a query has found, without its indices being stepped, is what it names.
LEMMA QueryDenotes ==
  ASSUME NEW ref \in Seq(Parts), ref # <<>>, QueryTarget(ref) # {}
  PROVE  QueryTarget(ref) = Denoted(ref)
<1>0. ConstantReference(ref)
  BY DEF QueryTarget
<1> DEFINE use == FreshUse(ref, garbage)
<1> DEFINE owner == OwnerOf(LayoutNow, ref, IndicesNow(ref, use), Len(ref))
<1>1. IndicesNow(ref, use) = ValuesIn(mem, ref)
  BY <1>0, IndicesAre, ConstantIndices
<1>2. QueryTarget(ref) = TargetOf(LayoutNow, ref, IndicesNow(ref, use), owner)
  <2>1. use = [next |-> use.next, node |-> use.node, temp |-> use.temp, owner |-> use.owner, target |-> use.target]
    BY DEF FreshUse
  <2>2. QueryTarget(ref) = [use EXCEPT !.owner = owner, !.target = TargetOf(LayoutNow, ref, IndicesNow(ref, use), owner)].target
    BY <1>0 DEF QueryTarget, ResolveChain
  <2> HIDE DEF use, owner
  <2> QED BY <2>1, <2>2
<1> QED BY <1>1, <1>2, SelectionDenotes

LEMMA OnlyOne == \A x : Only({x}) = x
BY DEF Only

\* A result as Evaluated gives them.
IsDone(done) == done = [mem |-> done.mem, result |-> done.result]

LEMMA AssignedAt ==
  ASSUME NEW done, IsDone(done), done.result = "ok", NEW path, NEW right
  PROVE  LET n == AssignAt(done, path, right)
         IN  /\ IsDone(n)
             /\ n.result # "ok" => n.mem = done.mem
             /\ n.result = "ok" =>
                  n.mem = [done.mem EXCEPT ![path] = IF right.kind = "literal" THEN right.value
                                                     ELSE done.mem[<<right.name>>]]
<1> DEFINE values == IF right.kind = "literal" THEN {right.value}
                     ELSE {done.mem[p] : p \in {r \in {<<right.name>>} : IsInteger(r)}}
<1> DEFINE value == IF right.kind = "literal" THEN right.value ELSE done.mem[<<right.name>>]
<1> DEFINE n == AssignAt(done, path, right)
<1>1. n = IF \E v \in values : CanHold(Types(path), v)
          THEN [done EXCEPT !.mem[path] = Only(values)] ELSE Failed(done)
  BY DEF AssignAt
<1>2. \A v \in values : values = {value}
  OBVIOUS
<1> HIDE DEF values, value, n
<1>3. CASE \E v \in values : CanHold(Types(path), v)
  <2>1. Only(values) = value
    BY <1>2, <1>3, OnlyOne
  <2> DEFINE m == [done.mem EXCEPT ![path] = value]
  <2>2. n = [done EXCEPT !.mem = m]
    BY <1>1, <1>3, <2>1
  <2> HIDE DEF m
  <2>3. n = [mem |-> m, result |-> done.result]
    BY <2>2 DEF IsDone
  <2>4. IsDone(n) /\ n.mem = m /\ n.result = done.result
    BY <2>3 DEF IsDone
  <2> QED BY <2>4 DEF m, n, value
<1>4. CASE ~ \E v \in values : CanHold(Types(path), v)
  <2>1. n = [done EXCEPT !.result = "error"]
    BY <1>1, <1>4 DEF Failed
  <2>2. n = [mem |-> done.mem, result |-> "error"]
    BY <2>1 DEF IsDone
  <2>3. IsDone(n) /\ n.mem = done.mem /\ n.result = "error"
    BY <2>2 DEF IsDone
  <2> QED BY <2>3 DEF n
<1> QED BY <1>3, <1>4

\* One query of the list.
LEMMA EvaluatedAfter ==
  ASSUME NEW done, IsDone(done), done.result = "ok", NEW q \in Asked
  PROVE  LET n == Evaluated(done, q)
         IN  /\ IsDone(n)
             /\ n.result # "ok" => n.mem = done.mem
             /\ n.result = "ok" => n.mem = AfterOne(done.mem, q)
<1>1. /\ q.ref \in Seq(Parts) /\ q.ref # <<>>
  BY DEF Asked
<1> DEFINE found == QueryTarget(q.ref)
<1> DEFINE n == Evaluated(done, q)
<1>2. n = EvaluateOne(done, q, found)
  BY DEF Evaluated
<1>3. found # {} => found = Denoted(q.ref)
  BY <1>1, QueryDenotes
<1> HIDE DEF found, n
<1>4. Failed(done) = [mem |-> done.mem, result |-> "error"] /\ Crashed(done) = [mem |-> done.mem, result |-> "crash"]
  BY DEF IsDone, Failed, Crashed
<1>5. CASE n = Failed(done)
  <2>1. IsDone(n) /\ n.mem = done.mem /\ n.result = "error"
    BY <1>4, <1>5 DEF IsDone
  <2> QED BY <2>1 DEF n
<1>6. CASE n = Crashed(done)
  <2>1. IsDone(n) /\ n.mem = done.mem /\ n.result = "crash"
    BY <1>4, <1>6 DEF IsDone
  <2> QED BY <2>1 DEF n
<1>7. CASE q.assigned = <<>> /\ n = done
  <2>1. AfterOne(done.mem, q) = done.mem
    BY <1>7 DEF AfterOne
  <2> QED BY <1>7, <2>1 DEF n
<1>8. CASE q.assigned # <<>> /\ found # {} /\ n = AssignAt(done, Only(found), q.assigned[1])
  <2> DEFINE right == q.assigned[1]
  <2> DEFINE path == Only(Denoted(q.ref))
  <2>1. AfterOne(done.mem, q) = [done.mem EXCEPT ![path] = IF right.kind = "literal" THEN right.value
                                                           ELSE done.mem[<<right.name>>]]
    BY <1>3, <1>8 DEF AfterOne
  <2>2. n = AssignAt(done, path, right)
    BY <1>3, <1>8
  <2> HIDE DEF path, right
  <2>3. /\ IsDone(n)
        /\ n.result # "ok" => n.mem = done.mem
        /\ n.result = "ok" => n.mem = AfterOne(done.mem, q)
    BY <2>1, <2>2, AssignedAt
  <2> QED BY <2>3 DEF n
<1>9. \/ n = Failed(done)
      \/ n = Crashed(done)
      \/ q.assigned = <<>> /\ n = done
      \/ q.assigned # <<>> /\ found # {} /\ n = AssignAt(done, Only(found), q.assigned[1])
  BY <1>2 DEF EvaluateOne, AssignFirst
<1> QED BY <1>5, <1>6, <1>7, <1>8, <1>9

\* The memory an evaluation leaves.
LEMMA EvaluationAssigns ==
  ASSUME NEW list \in Seq(Asked)
  PROVE  IF Evaluate(list).result = "ok"
         THEN Evaluate(list).mem = After(list, Len(list))
         ELSE \E k \in 0 .. Len(list) : Evaluate(list).mem = After(list, k)
<1> DEFINE N == Len(list)
<1>0. N \in Nat /\ \A n \in 1 .. N : list[n] \in Asked
  OBVIOUS
<1>1. PICK f : EvaluationBy(list, f)
  BY <1>0, EvaluationUnfolds
<1>2. PICK g : AssignmentBy(list, g)
  BY <1>0, AssignmentUnfolds
<1> HIDE DEF N
<1> DEFINE Orderly(n) == /\ IsDone(f[n])
                         /\ f[n].result = "ok" => f[n].mem = g[n]
                         /\ \E k \in 0 .. N : f[n].mem = g[k]
<1>3. Orderly(0)
  <2>1. f[0] = [mem |-> mem, result |-> f[0].result] /\ g[0] = mem
    BY <1>1, <1>2 DEF EvaluationBy, AssignmentBy, Linked
  <2>2. f[0].mem = mem
    BY <2>1
  <2>3. 0 \in 0 .. N
    BY <1>0
  <2> QED BY <2>1, <2>2, <2>3 DEF IsDone
<1>4. ASSUME NEW n \in 1 .. N, Orderly(n - 1) PROVE Orderly(n)
  <2>1. f[n] = Evaluated(f[n - 1], list[n]) /\ g[n] = AfterOne(g[n - 1], list[n])
    BY <1>1, <1>2 DEF EvaluationBy, AssignmentBy, N
  <2>2. n \in 0 .. N
    BY <1>0
  <2>3. CASE f[n - 1].result # "ok"
    <3>1. f[n] = f[n - 1]
      BY <2>1, <2>3 DEF Evaluated
    <3> QED BY <3>1, <1>4, <2>3
  <2>4. CASE f[n - 1].result = "ok"
    <3> DEFINE d == f[n - 1]
    <3> DEFINE e == f[n]
    <3>1. IsDone(d) /\ d.result = "ok" /\ d.mem = g[n - 1] /\ e = Evaluated(d, list[n]) /\ list[n] \in Asked
      BY <1>0, <1>4, <2>1, <2>4
    <3>2. \E k \in 0 .. N : d.mem = g[k]
      BY <1>4
    <3> HIDE DEF d, e
    <3>3. /\ IsDone(e)
          /\ e.result # "ok" => e.mem = d.mem
          /\ e.result = "ok" => e.mem = AfterOne(d.mem, list[n])
      BY <3>1, EvaluatedAfter
    <3>4. e.result = "ok" => e.mem = g[n]
      BY <2>1, <3>1, <3>3
    <3>5. \E k \in 0 .. N : e.mem = g[k]
      BY <2>2, <3>2, <3>3, <3>4
    <3> QED BY <3>3, <3>4, <3>5 DEF e
  <2> QED BY <2>3, <2>4
<1>5. \A n \in 0 .. N : Orderly(n)
  <2> HIDE DEF Orderly
  <2> DEFINE Bad == {n \in 0 .. N : ~ Orderly(n)}
  <2> SUFFICES ASSUME Bad # {} PROVE FALSE
    OBVIOUS
  <2>1. Bad \subseteq Nat
    BY <1>0
  <2>2. PICK m \in Bad : m \in Nat /\ (m # 0 => m - 1 \in Nat /\ m - 1 \notin Bad)
    <3> HIDE DEF Bad
    <3> QED BY <2>1, Least
  <2>3. m # 0
    BY <1>3
  <2>4. m \in 1 .. N /\ m - 1 \in 0 .. N
    BY <2>2, <2>3, <1>0
  <2>5. Orderly(m - 1)
    BY <2>2, <2>3, <2>4
  <2> QED BY <1>4, <2>4, <2>5
<1>6. N \in 0 .. N
  BY <1>0
<1>7. Evaluate(list) = f[N] /\ \A k : After(list, k) = g[k]
  BY <1>1, <1>2 DEF EvaluationBy, AssignmentBy, N
<1>8. Orderly(N)
  BY <1>5, <1>6
<1> QED BY <1>7, <1>8 DEF N

\* What the display counts is the length of the answer, and it only counts
\* what the evaluation has found.
LEMMA DisplayedLength ==
  ASSUME NEW shown, NEW found, NEW memory, NEW size,
         shown = [written |-> shown.written, result |-> shown.result, separator |-> shown.separator]
  PROVE  LET n == Displayed(shown, found, memory, size)
         IN  /\ n = [written |-> n.written, result |-> n.result, separator |-> n.separator]
             /\ n.result = "ok" =>
                  /\ shown.result = "ok" /\ found # {}
                  /\ n.written = shown.written + shown.separator + DisplayLength(Only(found), memory)
                  /\ n.separator = 1
<1> DEFINE n == Displayed(shown, found, memory, size)
<1> DEFINE reached == shown.written + shown.separator + DisplayLength(Only(found), memory)
<1>1. \/ n = shown /\ shown.result # "ok"
      \/ n = Failed(shown)
      \/ n = Crashed(shown)
      \/ n = [shown EXCEPT !.result = "overrun"]
      \/ n = [written |-> reached, result |-> "ok", separator |-> 1] /\ shown.result = "ok" /\ found # {}
  BY DEF Displayed, DisplayAt
<1> HIDE DEF n, reached
<1>2. CASE n = shown /\ shown.result # "ok"
  BY <1>2 DEF n
<1>3. CASE n = Failed(shown)
  <2>1. n = [written |-> shown.written, result |-> "error", separator |-> shown.separator]
    BY <1>3 DEF Failed
  <2> QED BY <2>1 DEF n
<1>4. CASE n = [shown EXCEPT !.result = "overrun"]
  <2>1. n = [written |-> shown.written, result |-> "overrun", separator |-> shown.separator]
    BY <1>4
  <2> QED BY <2>1 DEF n
<1>5. CASE n = [written |-> reached, result |-> "ok", separator |-> 1] /\ shown.result = "ok" /\ found # {}
  <2>1. n.written = reached /\ n.separator = 1 /\ n.result = "ok"
    BY <1>5
  <2>2. n = [written |-> n.written, result |-> n.result, separator |-> n.separator]
    BY <1>5
  <2> QED BY <1>5, <2>1, <2>2 DEF n, reached
<1>6. CASE n = Crashed(shown)
  <2>1. n = [written |-> shown.written, result |-> "crash", separator |-> shown.separator]
    BY <1>6 DEF Crashed
  <2> QED BY <2>1 DEF n
<1> QED BY <1>1, <1>2, <1>3, <1>4, <1>5, <1>6

LEMMA DisplayFits ==
  ASSUME NEW list \in Seq(Asked), NEW memory, NEW size,
         Display(list, memory, size) = "ok"
  PROVE  AnswerLength(list, memory) + 1 <= size
<1> DEFINE N == Len(list)
<1>0. N \in Nat /\ \A n \in 1 .. N : list[n] \in Asked
  OBVIOUS
<1>1. PICK f : ShownBy(list, memory, size, f)
  BY <1>0, ShownUnfolds
<1>2. PICK g : LengthBy(list, memory, g)
  BY <1>0, LengthUnfolds
<1>3. \A n \in 1 .. N : QueryTarget(list[n].ref) # {} => QueryTarget(list[n].ref) = Denoted(list[n].ref)
  <2> SUFFICES ASSUME NEW n \in 1 .. N, QueryTarget(list[n].ref) # {}
               PROVE  QueryTarget(list[n].ref) = Denoted(list[n].ref)
    OBVIOUS
  <2>1. list[n].ref \in Seq(Parts) /\ list[n].ref # <<>>
    BY <1>0 DEF Asked
  <2> QED BY <2>1, QueryDenotes
<1> HIDE DEF N
<1> DEFINE Counts(n) ==
      /\ f[n] = [written |-> f[n].written, result |-> f[n].result, separator |-> f[n].separator]
      /\ f[n].result = "ok" => f[n].written = g[n] /\ f[n].separator = IF n = 0 THEN 0 ELSE 1
<1>4. Counts(0)
  <2>1. f[0] = [written |-> 0, result |-> "ok", separator |-> 0] /\ g[0] = 0
    BY <1>1, <1>2 DEF ShownBy, LengthBy
  <2> QED BY <2>1
<1>5. ASSUME NEW n \in 1 .. N, Counts(n - 1) PROVE Counts(n)
  <2> DEFINE found == QueryTarget(list[n].ref)
  <2> DEFINE length == DisplayLength(Only(found), memory)
  <2>1. f[n] = Displayed(f[n - 1], found, memory, size)
    BY <1>1 DEF ShownBy, N
  <2>2. found # {} => g[n] = g[n - 1] + (IF n = 1 THEN 0 ELSE 1) + length
    BY <1>2, <1>3 DEF LengthBy, N
  <2>3. n - 1 = 0 <=> n = 1
    OBVIOUS
  <2> DEFINE s == f[n - 1]
  <2> DEFINE t == f[n]
  <2>4. s = [written |-> s.written, result |-> s.result, separator |-> s.separator]
    BY <1>5
  <2>5. s.result = "ok" => s.written = g[n - 1] /\ s.separator = IF n = 1 THEN 0 ELSE 1
    BY <1>5, <2>3
  <2>6. t = Displayed(s, found, memory, size)
    BY <2>1
  <2> HIDE DEF s, t, found
  <2>7. /\ t = [written |-> t.written, result |-> t.result, separator |-> t.separator]
        /\ t.result = "ok" => /\ s.result = "ok" /\ found # {}
                              /\ t.written = s.written + s.separator + length
                              /\ t.separator = 1
    BY <2>4, <2>6, DisplayedLength
  <2>8. t.result = "ok" => t.written = g[n]
    BY <2>2, <2>5, <2>7
  <2> QED BY <2>7, <2>8 DEF t
<1>6. \A n \in 0 .. N : Counts(n)
  <2> HIDE DEF Counts
  <2> DEFINE Bad == {n \in 0 .. N : ~ Counts(n)}
  <2> SUFFICES ASSUME Bad # {} PROVE FALSE
    OBVIOUS
  <2>1. Bad \subseteq Nat
    BY <1>0
  <2>2. PICK m \in Bad : m \in Nat /\ (m # 0 => m - 1 \in Nat /\ m - 1 \notin Bad)
    <3> HIDE DEF Bad
    <3> QED BY <2>1, Least
  <2>3. m # 0
    BY <1>4
  <2>4. m \in 1 .. N /\ m - 1 \in 0 .. N
    BY <2>2, <2>3, <1>0
  <2>5. Counts(m - 1)
    BY <2>2, <2>3, <2>4
  <2> QED BY <1>5, <2>4, <2>5
<1>7. N \in 0 .. N
  BY <1>0
<1>8. Display(list, memory, size) = Closed(f[N], size) /\ AnswerLength(list, memory) = g[N]
  BY <1>1, <1>2 DEF Display, ShownBy, LengthBy, N
<1>9. f[N].result = "ok" /\ f[N].written + 1 <= size
  BY <1>8 DEF Closed
<1> QED BY <1>6, <1>7, <1>8, <1>9

LEMMA QueryStep ==
  ASSUME NEW list \in QueryLists, NEW size, Query(list, size)
  PROVE  IF answer' = "ok"
         THEN mem' = After(list, Len(list)) /\ AnswerLength(list, mem') + 1 <= size
         ELSE \E k \in 0 .. Len(list) : mem' = After(list, k)
<1> DEFINE done == Evaluate(list)
<1>1. list \in Seq(Asked) /\ Len(list) \in Nat
  BY QueriesAssumption
<1>2. mem' = done.mem /\ answer' \in Outcomes(list, done, size)
  BY DEF Query
<1>3. IF done.result = "ok" THEN done.mem = After(list, Len(list))
      ELSE \E k \in 0 .. Len(list) : done.mem = After(list, k)
  BY <1>1, EvaluationAssigns
<1> HIDE DEF done
<1>5. \E k \in 0 .. Len(list) : mem' = After(list, k)
  <2>1. Len(list) \in 0 .. Len(list)
    BY <1>1
  <2> QED BY <1>2, <1>3, <2>1
<1>6. ASSUME answer' = "ok" PROVE done.result = "ok" /\ Display(list, done.mem, size) = "ok"
  <2>1. done.result = "ok"
    BY <1>2, <1>6 DEF Outcomes
  <2> DEFINE shown == Display(list, done.mem, size)
  <2>2. answer' \in (IF shown = "overrun" THEN {"error", "crash"} ELSE {shown})
    BY <1>2, <2>1 DEF Outcomes
  <2> QED BY <1>6, <2>1, <2>2
<1>7. ASSUME answer' = "ok" PROVE AnswerLength(list, done.mem) + 1 <= size
  BY <1>1, <1>6, <1>7, DisplayFits
<1>8. ASSUME answer' = "ok" PROVE mem' = After(list, Len(list)) /\ AnswerLength(list, mem') + 1 <= size
  BY <1>2, <1>3, <1>6, <1>7, <1>8
<1> QED BY <1>5, <1>8

\* A query list that is answered has made its assignments in order, all of
\* them, and its whole answer is inside the output; one that is not has made
\* those of its first queries and no other, for every list and every size.
THEOREM QueriesAreExact == Spec => QueriesAreOrderly
<1> DEFINE C == \A list \in QueryLists, size \in BufferSizes :
                  Query(list, size) =>
                     IF answer' = "ok"
                     THEN mem' = After(list, Len(list)) /\ AnswerLength(list, mem') + 1 <= size
                     ELSE \E k \in 0 .. Len(list) : mem' = After(list, k)
<1>1. [Next]_vars => [C]_vars
  BY QueryStep
<1> QED BY <1>1, PTL DEF Spec, QueriesAreOrderly
=============================================================================
