------------------------- MODULE IssueContextProofs -------------------------
(***************************************************************************)
(* Whatever is raised, grouped, merged and fetched with which filters:     *)
(* a fetch that returns nothing has left nothing, and every issue is in    *)
(* one place, where it can be fetched, under the main issue it belongs to. *)
(***************************************************************************)
EXTENDS IssueContext, SequenceTheorems, TLAPS

\* What the nodes of the embedding's context and the fields the search reads
\* have to be; the other lists only matter for what is moved into them.
Shape ==
  /\ nodes \in [Contexts -> Seq(Nodes)]
  /\ class \in [Nodes -> (SUBSET AnyIssue) \cup {NULL}]
  /\ new \in [Nodes -> BOOLEAN]
  /\ iterator \in Nat /\ iterator <= Len(nodes["errors"])
  /\ DOMAIN fatal = Contexts

\* Only issues that have been raised are in a context, so that raising one
\* makes no node new that the iterator has passed.
OnlyRaised ==
  \A c \in Contexts : \A j \in 1..Len(nodes[c]) : nodes[c][j] \notin Unraised

\* The iterator has left nothing behind.
NothingBehind ==
  \A j \in 1..Len(nodes["errors"]) :
    j < iterator => ~Fetchable(nodes["errors"][j], lastFilter)

FetchInv == Shape /\ OnlyRaised /\ NothingBehind

-----------------------------------------------------------------------------
\* What a step of a call does to the embedding's nodes, as far as the iterator
\* is concerned: it adds some at the end, and makes no raised issue new.
Adds ==
  /\ Len(nodes["errors"]) <= Len(nodes'["errors"])
  /\ \A j \in 1..Len(nodes["errors"]) : nodes'["errors"][j] = nodes["errors"][j]
  /\ \A x \in Nodes \ Unraised : class'[x] = class[x] /\ (new'[x] => new[x])
  /\ UNCHANGED <<iterator, lastFilter>>

\* Such a step leaves nothing behind the iterator.
LEMMA AddsKeeps ==
  ASSUME FetchInv, Adds
  PROVE  NothingBehind'
<1> SUFFICES ASSUME NEW j \in 1..Len(nodes'["errors"]), j < iterator'
             PROVE  ~Fetchable(nodes["errors"][j], lastFilter)'
  BY DEF NothingBehind
<1>1. "errors" \in Contexts /\ nodes["errors"] \in Seq(Nodes)
  BY DEF FetchInv, Shape, Contexts
<1>2. Len(nodes["errors"]) \in Nat /\ j \in Nat
  BY <1>1
<1>3. j \in 1..Len(nodes["errors"]) /\ j < iterator
  BY <1>2 DEF FetchInv, Shape, Adds
<1>4. nodes["errors"][j] \in Nodes \ Unraised
  BY <1>1, <1>3 DEF FetchInv, OnlyRaised
<1>5. ~Fetchable(nodes["errors"][j], lastFilter)
  BY <1>3 DEF FetchInv, NothingBehind
<1> QED
  BY <1>3, <1>4, <1>5 DEF Adds, Fetchable, Matches

\* A node at the end of the nodes of a context, the group's issues with it or not.
LEMMA AppendKeeps ==
  ASSUME FetchInv, NEW c \in Contexts, NEW x \in Nodes, x \notin Unraised',
         nodes' = [nodes EXCEPT ![c] = Append(@, x)],
         Unraised' \subseteq Unraised,
         class' \in [Nodes -> (SUBSET AnyIssue) \cup {NULL}],
         new' \in [Nodes -> BOOLEAN], DOMAIN fatal' = Contexts,
         \A y \in Nodes \ Unraised : class'[y] = class[y] /\ new'[y] = new[y],
         UNCHANGED <<iterator, lastFilter>>
  PROVE  FetchInv'
<1>1. /\ \A d \in Contexts : nodes[d] \in Seq(Nodes) /\ Len(nodes[d]) \in Nat
      /\ nodes' \in [Contexts -> Seq(Nodes)]
      /\ \A d \in Contexts \ {c} : nodes'[d] = nodes[d]
      /\ Len(nodes'[c]) = Len(nodes[c]) + 1
      /\ \A j \in 1..Len(nodes[c]) : nodes'[c][j] = nodes[c][j]
      /\ nodes'[c][Len(nodes[c]) + 1] = x
  BY DEF FetchInv, Shape
<1>2. "errors" \in Contexts
  BY DEF Contexts
<1>3. Adds
  <2>1. CASE c = "errors"
    BY <1>1, <2>1 DEF Adds
  <2>2. CASE c # "errors"
    BY <1>1, <1>2, <2>2 DEF Adds
  <2> QED BY <2>1, <2>2
<1>4. Shape'
  BY <1>1, <1>3, <1>2 DEF Shape, FetchInv, Adds
<1>5. OnlyRaised'
  <2> SUFFICES ASSUME NEW d \in Contexts, NEW j \in 1..Len(nodes'[d])
               PROVE  nodes'[d][j] \notin Unraised'
    BY DEF OnlyRaised
  <2>1. CASE d = c /\ j = Len(nodes[c]) + 1
    BY <1>1, <2>1
  <2>2. CASE ~(d = c /\ j = Len(nodes[c]) + 1)
    <3>1. j \in 1..Len(nodes[d]) /\ nodes'[d][j] = nodes[d][j]
      BY <1>1, <2>2
    <3> QED BY <3>1 DEF FetchInv, OnlyRaised
  <2> QED BY <2>1, <2>2
<1> QED BY <1>3, <1>4, <1>5, AddsKeeps DEF FetchInv

\* Raising an issue writes its class and its `new', and no other node's.
LEMMA RaisedOne ==
  ASSUME FetchInv, NEW i \in Unraised, NEW k \in Classes,
         class' = [class EXCEPT ![i] = k],
         new' = [new EXCEPT ![i] = TRUE]
  PROVE  /\ i \in Nodes /\ i \notin Unraised' /\ Unraised' \subseteq Unraised
         /\ class' \in [Nodes -> (SUBSET AnyIssue) \cup {NULL}]
         /\ new' \in [Nodes -> BOOLEAN]
         /\ \A y \in Nodes \ Unraised : class'[y] = class[y] /\ new'[y] = new[y]
<1>1. i \in Nodes /\ k \in SUBSET AnyIssue /\ k # NULL
  BY IssueAssumption DEF Unraised, Nodes
<1>2. /\ class \in [Nodes -> (SUBSET AnyIssue) \cup {NULL}]
      /\ new \in [Nodes -> BOOLEAN]
  BY DEF FetchInv, Shape
<1>3. class' \in [Nodes -> (SUBSET AnyIssue) \cup {NULL}] /\ new' \in [Nodes -> BOOLEAN]
  BY <1>1, <1>2
<1>4. i \notin Unraised' /\ Unraised' \subseteq Unraised
  BY <1>1, <1>2 DEF Unraised, Nodes
<1>5. \A y \in Nodes \ Unraised : class'[y] = class[y] /\ new'[y] = new[y]
  BY <1>1, <1>2
<1> QED BY <1>1, <1>3, <1>4, <1>5

-----------------------------------------------------------------------------
\* Steps that touch nothing the iterator depends on.
LEMMA StutterKeeps ==
  ASSUME FetchInv, UNCHANGED <<nodes, class, new, iterator, lastFilter, fatal>>
  PROVE  FetchInv'
BY DEF FetchInv, Shape, OnlyRaised, NothingBehind, Unraised, Fetchable, Matches

LEMMA RaiseKeeps ==
  ASSUME FetchInv, NEW c \in Contexts, NEW i \in Issues, NEW k \in Classes, Raise(c, i, k)
  PROVE  FetchInv'
<1>1. /\ i \in Unraised
      /\ class' = [class EXCEPT ![i] = k] /\ new' = [new EXCEPT ![i] = TRUE]
      /\ UNCHANGED <<fatal, iterator, lastFilter>>
      /\ \/ nodes' = [nodes EXCEPT ![c] = Append(@, i)]
         \/ nodes' = nodes
  BY DEF Raise, NewIssue, fetchVars
<1>2. /\ i \in Nodes /\ i \notin Unraised' /\ Unraised' \subseteq Unraised
      /\ class' \in [Nodes -> (SUBSET AnyIssue) \cup {NULL}]
      /\ new' \in [Nodes -> BOOLEAN]
      /\ \A y \in Nodes \ Unraised : class'[y] = class[y] /\ new'[y] = new[y]
  BY <1>1, RaisedOne
<1>3. DOMAIN fatal' = Contexts
  BY <1>1 DEF FetchInv, Shape
<1>4. CASE nodes' = [nodes EXCEPT ![c] = Append(@, i)]
  BY <1>1, <1>2, <1>3, <1>4, AppendKeeps
<1>5. CASE nodes' = nodes
  <2>1. Adds
    <3>1. Len(nodes["errors"]) <= Len(nodes["errors"])
      BY DEF FetchInv, Shape, Contexts
    <3> QED BY <1>1, <1>2, <1>5, <3>1 DEF Adds
  <2>2. Shape'
    BY <1>1, <1>2, <1>3, <1>5 DEF FetchInv, Shape
  <2>3. OnlyRaised'
    BY <1>2, <1>5 DEF FetchInv, OnlyRaised
  <2> QED BY <2>1, <2>2, <2>3, AddsKeeps DEF FetchInv
<1> QED BY <1>1, <1>4, <1>5

LEMMA RaiseAtKeeps ==
  ASSUME FetchInv, NEW c \in Contexts, NEW i \in Issues, NEW k \in Classes,
         RaiseAt(c, i, k) \/ CloseFailed(c, i, k)
  PROVE  FetchInv'
<1>1. /\ i \in Unraised
      /\ class' = [class EXCEPT ![i] = k] /\ new' = [new EXCEPT ![i] = TRUE]
      /\ UNCHANGED <<fatal, iterator, lastFilter>>
      /\ nodes' = [nodes EXCEPT ![c] = Append(@, i)]
  BY DEF RaiseAt, NewIssueAt, CloseFailed, CloseWithMainIssue, fetchVars
<1>2. /\ i \in Nodes /\ i \notin Unraised' /\ Unraised' \subseteq Unraised
      /\ class' \in [Nodes -> (SUBSET AnyIssue) \cup {NULL}]
      /\ new' \in [Nodes -> BOOLEAN]
      /\ \A y \in Nodes \ Unraised : class'[y] = class[y] /\ new'[y] = new[y]
  BY <1>1, RaisedOne
<1>3. DOMAIN fatal' = Contexts
  BY <1>1 DEF FetchInv, Shape
<1> QED BY <1>1, <1>2, <1>3, AppendKeeps

LEMMA RaiseFatalKeeps ==
  ASSUME FetchInv, NEW c \in Contexts, NEW kind \in FatalKinds, RaiseFatal(c, kind)
  PROVE  FetchInv'
<1> DEFINE x == <<c, kind>>
<1>1. /\ UNCHANGED <<class, new, iterator, lastFilter>>
      /\ fatal' = [fatal EXCEPT ![c] = TRUE]
      /\ nodes' = [nodes EXCEPT ![c] = Append(@, x)] \/ nodes' = nodes
  BY DEF RaiseFatal, FatalError, fetchVars
<1>2. x \in Nodes /\ x \notin Issues
  BY NodeAssumption DEF Nodes, FatalNodes
<1>3. Unraised' = Unraised /\ x \notin Unraised'
  BY <1>1, <1>2 DEF Unraised
<1>4. /\ class' \in [Nodes -> (SUBSET AnyIssue) \cup {NULL}]
      /\ new' \in [Nodes -> BOOLEAN] /\ DOMAIN fatal' = Contexts
  BY <1>1 DEF FetchInv, Shape
<1>5. CASE nodes' = [nodes EXCEPT ![c] = Append(@, x)]
  <2> HIDE DEF x
  <2> QED BY <1>1, <1>2, <1>3, <1>4, <1>5, AppendKeeps
<1>6. CASE nodes' = nodes
  BY <1>1, <1>3, <1>4, <1>6
    DEF FetchInv, Shape, OnlyRaised, NothingBehind, Fetchable, Matches
<1> QED BY <1>1, <1>5, <1>6

\* Where the elements of a concatenation come from.
LEMMA Concatenated ==
  ASSUME NEW S, NEW e \in Seq(S), NEW p \in Seq(S)
  PROVE  /\ e \o p \in Seq(S) /\ Len(e \o p) = Len(e) + Len(p)
         /\ Len(e) \in Nat /\ Len(p) \in Nat /\ Len(e \o p) \in Nat
         /\ \A j \in 1..Len(e) : (e \o p)[j] = e[j]
         /\ \A j \in 1..Len(e \o p) :
              j > Len(e) => j - Len(e) \in 1..Len(p) /\ (e \o p)[j] = p[j - Len(e)]
BY ConcatProperties, LenProperties

LEMMA MergeKeeps ==
  ASSUME FetchInv, Merge, UNCHANGED <<iterator, lastFilter>>
  PROVE  FetchInv'
<1>1. "errors" \in Contexts /\ "parser" \in Contexts
  BY DEF Contexts
<1> DEFINE e == nodes["errors"]
           p == nodes["parser"]
<1>2. e \in Seq(Nodes) /\ p \in Seq(Nodes) /\ Len(e) \in Nat /\ Len(p) \in Nat
  BY <1>1 DEF FetchInv, Shape
<1>3. nodes'["errors"] = e \o p /\ nodes'["parser"] = <<>>
  BY <1>1 DEF Merge, FetchInv, Shape
<1>3a. nodes' \in [Contexts -> Seq(Nodes)]
  <2>1. e \o p \in Seq(Nodes) /\ <<>> \in Seq(Nodes)
    BY <1>2, Concatenated
  <2>2. nodes' = [nodes EXCEPT !["errors"] = e \o p, !["parser"] = <<>>]
    BY DEF Merge
  <2>3. nodes \in [Contexts -> Seq(Nodes)]
    BY DEF FetchInv, Shape
  <2> HIDE DEF e, p
  <2> QED BY <1>1, <2>1, <2>2, <2>3
<1> HIDE DEF e, p
<1>4. /\ e \o p \in Seq(Nodes) /\ Len(e \o p) = Len(e) + Len(p) /\ Len(e \o p) \in Nat
      /\ \A j \in 1..Len(e \o p) :
           j > Len(e) => j - Len(e) \in 1..Len(p) /\ (e \o p)[j] = p[j - Len(e)]
  BY <1>2, Concatenated
<1>5. \A j \in 1..Len(e) : (e \o p)[j] = e[j]
  BY <1>2, Concatenated
<1>6. \A j \in 1..Len(e \o p) : (e \o p)[j] \notin Unraised
  <2> TAKE j \in 1..Len(e \o p)
  <2>1. CASE j <= Len(e)
    BY <1>1, <1>2, <1>5, <2>1 DEF FetchInv, OnlyRaised, e
  <2>2. CASE j > Len(e)
    <3>1. j - Len(e) \in 1..Len(p) /\ (e \o p)[j] = p[j - Len(e)]
      BY <1>4, <2>2
    <3> QED BY <1>1, <3>1 DEF FetchInv, OnlyRaised, p
  <2> QED BY <1>2, <1>4, <2>1, <2>2
<1>7. Adds
  <2>1. \A x \in Nodes \ Unraised : class'[x] = class[x] /\ (new'[x] => new[x])
    BY Zenon DEF Merge
  <2>2. Len(e) <= Len(nodes'["errors"]) /\ \A j \in 1..Len(e) : nodes'["errors"][j] = e[j]
    BY <1>2, <1>3, <1>4, <1>5
  <2> QED BY <2>1, <2>2 DEF Adds, e
<1>8. Unraised' = Unraised
  BY DEF Merge, Unraised
<1>9. OnlyRaised'
  <2>1. \A j \in 1..Len(nodes'["errors"]) : nodes'["errors"][j] \notin Unraised'
    BY <1>3, <1>6, <1>8
  <2>2. \A j \in 1..Len(nodes'["parser"]) : nodes'["parser"][j] \notin Unraised'
    BY <1>3
  <2> QED BY <2>1, <2>2 DEF OnlyRaised, Contexts
<1>10. Shape'
  <2>2. iterator' \in Nat /\ iterator' <= Len(nodes'["errors"])
    <3>1. iterator' \in Nat /\ iterator' <= Len(e)
      BY DEF FetchInv, Shape, e
    <3>2. Len(e) <= Len(nodes'["errors"])
      BY <1>7 DEF Adds, e
    <3>3. Len(nodes'["errors"]) \in Nat
      BY <1>2, <1>3, <1>4
    <3> QED BY <1>2, <3>1, <3>2, <3>3
  <2>3. DOMAIN fatal' = Contexts /\ UNCHANGED <<class, new>>
    BY DEF Merge, FetchInv, Shape
  <2> QED BY <1>3a, <2>2, <2>3 DEF FetchInv, Shape
<1> QED BY <1>7, <1>9, <1>10, AddsKeeps DEF FetchInv

-----------------------------------------------------------------------------
\* The nodes before the one a fetch stops at, or all when it finds none, are of
\* no interest to its filter: those before the iterator were not when it moved.
LEMMA SearchedAll ==
  ASSUME FetchInv, NEW filter \in Filters, NEW k \in 1..Len(nodes["errors"]),
         k \notin ToFetch(filter)
  PROVE  ~Fetchable(nodes["errors"][k], filter)
<1>1. k \in Nat /\ iterator \in Nat /\ Len(nodes["errors"]) \in Nat
  BY DEF FetchInv, Shape, Contexts
<1>2. CASE iterator = 0 \/ filter # lastFilter
  BY <1>1, <1>2 DEF ToFetch
<1>3. CASE iterator # 0 /\ filter = lastFilter
  <2>1. CASE k < iterator
    BY <1>3, <2>1 DEF FetchInv, NothingBehind
  <2>2. CASE k >= iterator
    BY <1>1, <1>3, <2>2 DEF ToFetch
  <2> QED BY <1>1, <2>1, <2>2
<1> QED BY <1>2, <1>3

\* An issue that has been fetched stays in its place.
LEMMA Fetched ==
  ASSUME FetchInv, UNCHANGED <<nodes, class, fatal>>,
         new' \in [Nodes -> BOOLEAN], \A x \in Nodes : new'[x] => new[x],
         iterator' \in 0..Len(nodes["errors"])
  PROVE  Shape' /\ OnlyRaised'
BY DEF FetchInv, Shape, OnlyRaised, Unraised

LEMMA FetchKeeps ==
  ASSUME FetchInv, NEW filter \in Filters, Fetch(filter)
  PROVE  FetchInv'
<1>1. UNCHANGED <<nodes, class, fatal>> /\ lastFilter' = filter
  BY DEF Fetch
<1>2. nodes["errors"] \in Seq(Nodes) /\ Len(nodes["errors"]) \in Nat
  BY DEF FetchInv, Shape, Contexts
<1>3. CASE iterator' = 0 /\ new' = new
  <2>1. Shape' /\ OnlyRaised'
    <3>1. new' \in [Nodes -> BOOLEAN] /\ \A x \in Nodes : new'[x] => new[x]
      BY <1>3, Zenon DEF FetchInv, Shape
    <3>2. iterator' \in 0..Len(nodes["errors"])
      BY <1>2, <1>3
    <3> QED BY <1>1, <3>1, <3>2, Fetched
  <2>2. NothingBehind'
    BY <1>1, <1>2, <1>3 DEF NothingBehind
  <2> QED BY <2>1, <2>2 DEF FetchInv
<1>4. ASSUME NEW j \in ToFetch(filter), \A k \in ToFetch(filter) : j <= k, iterator' = j,
             new' = [new EXCEPT ![nodes["errors"][j]] = FALSE]
      PROVE  FetchInv'
  <2>1. j \in 1..Len(nodes["errors"]) /\ j \in Nat
    BY <1>2 DEF ToFetch, FetchInv, Shape
  <2>2. new \in [Nodes -> BOOLEAN]
    BY DEF FetchInv, Shape
  <2>3. new' \in [Nodes -> BOOLEAN] /\ \A x \in Nodes : new'[x] => new[x]
    BY <1>4, <2>2, Zenon
  <2>4. Shape' /\ OnlyRaised'
    <3>1. iterator' \in 0..Len(nodes["errors"])
      BY <1>2, <1>4, <2>1
    <3> QED BY <1>1, <2>3, <3>1, Fetched
  <2>5. NothingBehind'
    <3> SUFFICES ASSUME NEW k \in 1..Len(nodes'["errors"]), k < iterator'
                 PROVE  ~Fetchable(nodes["errors"][k], lastFilter)'
      BY DEF NothingBehind
    <3>1. k \in 1..Len(nodes["errors"]) /\ k < j /\ k \in Nat
      BY <1>1, <1>2, <1>4
    <3>2. k \notin ToFetch(filter)
      BY <1>4, <2>1, <3>1
    <3>3. ~Fetchable(nodes["errors"][k], filter)
      BY <3>1, <3>2, SearchedAll
    <3>4. nodes["errors"][k] \in Nodes
      BY <1>2, <3>1
    <3> QED BY <1>1, <2>3, <3>3, <3>4 DEF Fetchable, Matches
  <2> QED BY <2>4, <2>5 DEF FetchInv
<1> QED BY <1>3, <1>4 DEF Fetch

LEMMA FetchSubIssueKeeps ==
  ASSUME FetchInv, FetchSubIssue
  PROVE  FetchInv'
<1>1. UNCHANGED <<nodes, class, fatal, iterator, lastFilter>>
  BY DEF FetchSubIssue
<1>2. new' \in [Nodes -> BOOLEAN] /\ \A x \in Nodes : new'[x] => new[x]
  <2>1. new \in [Nodes -> BOOLEAN]
    BY DEF FetchInv, Shape
  <2>2. new' = new \/ \E y : new' = [new EXCEPT ![y] = FALSE]
    BY Zenon DEF FetchSubIssue
  <2> QED BY <2>1, <2>2, Zenon
<1>3. Shape' /\ OnlyRaised'
  <2>1. iterator' \in 0..Len(nodes["errors"])
    BY <1>1 DEF FetchInv, Shape, Contexts
  <2> QED BY <1>1, <1>2, <2>1, Fetched
<1>4. NothingBehind'
  <2>1. Adds
    <3>1. Len(nodes["errors"]) <= Len(nodes["errors"])
      BY DEF FetchInv, Shape, Contexts
    <3> QED BY <1>1, <1>2, <3>1 DEF Adds
  <2> QED BY <2>1, AddsKeeps
<1> QED BY <1>3, <1>4 DEF FetchInv

LEMMA InitFetchInv == Init => FetchInv
<1> SUFFICES ASSUME Init PROVE FetchInv
  OBVIOUS
<1>1. nodes \in [Contexts -> Seq(Nodes)] /\ \A c \in Contexts : nodes[c] = <<>>
  BY DEF Init
<1>2. class \in [Nodes -> (SUBSET AnyIssue) \cup {NULL}]
  BY DEF Init, FatalClass, AnyIssue
<1>3. new \in [Nodes -> BOOLEAN]
  BY DEF Init
<1>4. iterator = 0 /\ DOMAIN fatal = Contexts
  BY DEF Init
<1> QED BY <1>1, <1>2, <1>3, <1>4 DEF FetchInv, Shape, OnlyRaised, NothingBehind, Contexts

LEMMA NextFetchInv == FetchInv /\ [Next]_vars => FetchInv'
<1> SUFFICES ASSUME FetchInv, [Next]_vars PROVE FetchInv'
  OBVIOUS
<1>1. ASSUME NEW c \in Contexts, Begin(c) \/ Open(c) \/ CloseOk(c) PROVE FetchInv'
  <2>1. UNCHANGED <<nodes, class, new, iterator, lastFilter, fatal>>
    BY <1>1 DEF Begin, Open, CloseOk, SetGroupMode, contextVars, fetchVars
  <2> QED BY <2>1, StutterKeeps
<1>2. ASSUME End PROVE FetchInv'
  <2>1. UNCHANGED <<iterator, lastFilter>> /\ (Merge \/ UNCHANGED contextVars)
    BY <1>2 DEF End, fetchVars
  <2>2. CASE Merge
    BY <2>1, <2>2, MergeKeeps
  <2>3. CASE UNCHANGED contextVars
    BY <2>1, <2>3, StutterKeeps DEF contextVars
  <2> QED BY <2>1, <2>2, <2>3
<1>3. ASSUME UNCHANGED vars PROVE FetchInv'
  BY <1>3, StutterKeeps DEF vars, contextVars, fetchVars
<1> QED
  BY <1>1, <1>2, <1>3, RaiseKeeps, RaiseAtKeeps, RaiseFatalKeeps, FetchKeeps,
     FetchSubIssueKeeps DEF Next

\* A fetch that finds nothing leaves nothing of its filter: the iterator the
\* context keeps between calls never skips an issue (issue_context_fetch).
THEOREM NothingSkipped == Spec => []FetchComplete
<1>1. FetchInv => FetchComplete
  <2> SUFFICES ASSUME FetchInv, NEW filter \in Filters, ToFetch(filter) = {},
                      NEW x \in Elements(nodes["errors"])
               PROVE  ~Fetchable(x, filter)
    BY DEF FetchComplete
  <2>1. PICK k \in 1..Len(nodes["errors"]) : x = nodes["errors"][k]
    BY DEF Elements
  <2> QED BY <2>1, SearchedAll
<1> QED BY <1>1, InitFetchInv, NextFetchInv, PTL DEF Spec

-----------------------------------------------------------------------------
(***************************************************************************)
(* Where the issues are.  A group's list has nodes only between an issue   *)
(* that is raised in it and the main issue the group closes with, and all  *)
(* of them were raised by the innermost call: a call that has raised an    *)
(* issue opens no further group.                                           *)
(***************************************************************************)
\* The nodes that somebody has put into a list.
Taken == (Issues \ Unraised) \cup added

Frame == [raised : SUBSET Issues, failed : BOOLEAN]

Typed ==
  /\ nodes \in [Contexts -> Seq(Nodes)]
  /\ groupNodes \in [Contexts -> Seq(Issues)]
  /\ groupMode \in [Contexts -> BOOLEAN]
  /\ subNodes \in [Issues -> Seq(Issues)]
  /\ class \in [Nodes -> (SUBSET AnyIssue) \cup {NULL}]
  /\ added \subseteq FatalNodes
  /\ scope \in [Issues -> SUBSET Issues]
  /\ frames \in Seq(Frame)

OnlyTaken == \A h \in ListHeads : Elements(ListAt(h)) \subseteq Taken

\* Issues have no sub issues before they are raised.
Parents == \A x \in Issues : subNodes[x] # <<>> => x \notin Unraised

Held(i) ==
  \E c \in Contexts :
    \/ i \in Elements(groupNodes[c])
    \/ \E x \in Elements(nodes[c]) : i \in Reached(x)

AllHeld == \A i \in Issues \ Unraised : Held(i)

GroupWaits ==
  \A c \in Contexts :
    /\ groupMode[c] => c = active /\ InFrames
    /\ groupNodes[c] # <<>> =>
         /\ c = active /\ failing /\ InFrames
         /\ Elements(groupNodes[c]) \subseteq Innermost.raised

\* Between the fetch of an issue and the last of its sub issues the iterator
\* stays at the issue, so that it is its class the search goes by.
Reading ==
  reading # NULL =>
    /\ active = NULL /\ ~astray
    /\ iterator \in 1..Len(nodes["errors"])
    /\ nodes["errors"][iterator] = reading
    /\ Matches(reading, lastFilter)

PlaceInv ==
  /\ Typed /\ OnlyTaken /\ Parents /\ NodesInOneList
  /\ AllHeld /\ GroupWaits /\ SubIssuesMatchGroup

-----------------------------------------------------------------------------
LEMMA Appended ==
  ASSUME NEW S, NEW s \in Seq(S), NEW x \in S
  PROVE  /\ Append(s, x) \in Seq(S) /\ Len(Append(s, x)) = Len(s) + 1 /\ Len(s) \in Nat
         /\ Append(s, x)[Len(s) + 1] = x
         /\ \A j \in 1..Len(s) : Append(s, x)[j] = s[j]
         /\ Elements(Append(s, x)) = Elements(s) \cup {x}
<1> DEFINE a == Append(s, x)
<1>1. /\ a \in Seq(S) /\ Len(a) = Len(s) + 1 /\ Len(s) \in Nat
      /\ a[Len(s) + 1] = x /\ \A j \in 1..Len(s) : a[j] = s[j]
  OBVIOUS
<1> HIDE DEF a
<1>2. 1..Len(a) = 1..Len(s) \cup {Len(s) + 1}
  BY <1>1
<1>3. Elements(a) = Elements(s) \cup {x}
  BY <1>1, <1>2 DEF Elements
<1> QED BY <1>1, <1>3 DEF a

LEMMA Joint ==
  ASSUME NEW S, NEW e \in Seq(S), NEW p \in Seq(S)
  PROVE  Elements(e \o p) = Elements(e) \cup Elements(p)
<1> DEFINE a == e \o p
<1>1. /\ Len(a) = Len(e) + Len(p) /\ Len(e) \in Nat /\ Len(p) \in Nat
      /\ \A j \in 1..Len(e) : a[j] = e[j]
      /\ \A j \in 1..Len(a) : j > Len(e) => j - Len(e) \in 1..Len(p) /\ a[j] = p[j - Len(e)]
  BY Concatenated
<1>2. \A k \in 1..Len(p) : a[k + Len(e)] = p[k]
  <2> TAKE k \in 1..Len(p)
  <2>1. k + Len(e) \in 1..Len(a) /\ k + Len(e) > Len(e) /\ (k + Len(e)) - Len(e) = k
    BY <1>1
  <2> QED BY <1>1, <2>1
<1> HIDE DEF a
<1>3. Elements(a) \subseteq Elements(e) \cup Elements(p)
  <2> SUFFICES ASSUME NEW j \in 1..Len(a) PROVE a[j] \in Elements(e) \cup Elements(p)
    BY DEF Elements
  <2>1. CASE j > Len(e)
    BY <1>1, <2>1 DEF Elements
  <2>2. CASE ~(j > Len(e))
    <3>1. j \in 1..Len(e)
      BY <1>1, <2>2
    <3> QED BY <1>1, <3>1 DEF Elements
  <2> QED BY <2>1, <2>2
<1>4. Elements(e) \subseteq Elements(a)
  <2>1. \A j \in 1..Len(e) : j \in 1..Len(a)
    BY <1>1
  <2> QED BY <1>1, <2>1 DEF Elements
<1>5. Elements(p) \subseteq Elements(a)
  <2>1. \A k \in 1..Len(p) : k + Len(e) \in 1..Len(a)
    BY <1>1
  <2> QED BY <1>2, <2>1 DEF Elements
<1> QED BY <1>3, <1>4, <1>5 DEF a

LEMMA NoElements == Elements(<<>>) = {}
<1>1. 1..Len(<<>>) = {}
  OBVIOUS
<1> QED BY <1>1 DEF Elements

\* The three kinds of lists.
LEMMA Lists ==
  ASSUME NEW h \in ListHeads
  PROVE  \/ \E c \in Contexts : h = <<"nodes", c>> /\ ListAt(h) = nodes[c]
         \/ \E c \in Contexts : h = <<"group", c>> /\ ListAt(h) = groupNodes[c]
         \/ \E x \in Issues : h = <<"sub", x>> /\ ListAt(h) = subNodes[x]
<1>1. CASE h \in {"nodes", "group"} \X Contexts
  <2>1. PICK k \in {"nodes", "group"}, c \in Contexts : h = <<k, c>>
    BY <1>1
  <2> QED BY <2>1 DEF ListAt
<1>2. CASE h \in {"sub"} \X Issues
  <2>1. PICK x \in Issues : h = <<"sub", x>>
    BY <1>2
  <2> QED BY <2>1 DEF ListAt
<1> QED BY <1>1, <1>2 DEF ListHeads

LEMMA Heads ==
  /\ \A c \in Contexts :
       /\ <<"nodes", c>> \in ListHeads /\ ListAt(<<"nodes", c>>) = nodes[c]
       /\ <<"group", c>> \in ListHeads /\ ListAt(<<"group", c>>) = groupNodes[c]
  /\ \A x \in Issues : <<"sub", x>> \in ListHeads /\ ListAt(<<"sub", x>>) = subNodes[x]
BY DEF ListHeads, ListAt

LEMMA ListTypes ==
  ASSUME Typed, NEW h \in ListHeads
  PROVE  ListAt(h) \in Seq(Nodes) /\ Len(ListAt(h)) \in Nat
<1>1. \A s \in Seq(Issues) : s \in Seq(Nodes)
  <2> TAKE s \in Seq(Issues)
  <2>1. Len(s) \in Nat /\ s \in [1..Len(s) -> Issues]
    OBVIOUS
  <2>2. s \in [1..Len(s) -> Nodes]
    BY <2>1 DEF Nodes
  <2> QED BY <2>1, <2>2, SeqDef
<1>2. /\ \A c \in Contexts : nodes[c] \in Seq(Nodes) /\ groupNodes[c] \in Seq(Issues)
      /\ \A x \in Issues : subNodes[x] \in Seq(Issues)
  BY DEF Typed
<1>3. ListAt(h) \in Seq(Nodes)
  BY <1>1, <1>2, Lists, Zenon
<1> QED BY <1>3

-----------------------------------------------------------------------------
(***************************************************************************)
(* The three ways in which places change.                                  *)
(***************************************************************************)
\* A node that is in no list is put at the end of one.
LEMMA AppendPlaces ==
  ASSUME Typed, OnlyTaken, NodesInOneList,
         NEW t \in ListHeads, NEW x \in Nodes \ Taken,
         ListAt(t)' = Append(ListAt(t), x),
         \A h \in ListHeads \ {t} : ListAt(h)' = ListAt(h),
         Taken' = Taken \cup {x}
  PROVE  OnlyTaken' /\ NodesInOneList'
<1>1. /\ Len(ListAt(t)') = Len(ListAt(t)) + 1 /\ Len(ListAt(t)) \in Nat
      /\ ListAt(t)'[Len(ListAt(t)) + 1] = x
      /\ \A j \in 1..Len(ListAt(t)) : ListAt(t)'[j] = ListAt(t)[j]
      /\ Elements(ListAt(t)') = Elements(ListAt(t)) \cup {x}
  BY ListTypes, Appended
<1>2. OnlyTaken'
  BY <1>1 DEF OnlyTaken
\* Where a node was before.
<1>3. ASSUME NEW h \in ListHeads, NEW j \in 1..Len(ListAt(h)')
      PROVE  \/ j \in 1..Len(ListAt(h)) /\ ListAt(h)'[j] = ListAt(h)[j]
                  /\ ListAt(h)'[j] # x
             \/ h = t /\ j = Len(ListAt(t)) + 1 /\ ListAt(h)'[j] = x
  <2>1. \A i \in 1..Len(ListAt(h)) : ListAt(h)[i] # x
    BY DEF OnlyTaken, Elements
  <2>2. CASE h # t
    BY <2>1, <2>2
  <2>3. CASE h = t /\ j \in 1..Len(ListAt(t))
    BY <1>1, <2>1, <2>3
  <2>4. CASE h = t /\ j \notin 1..Len(ListAt(t))
    <3>1. j = Len(ListAt(t)) + 1
      BY <1>1, <2>4
    <3> QED BY <1>1, <2>4, <3>1
  <2> QED BY <2>2, <2>3, <2>4
<1>4. NodesInOneList'
  <2> SUFFICES ASSUME NEW g \in ListHeads, NEW h \in ListHeads,
                      NEW i \in 1..Len(ListAt(g)'), NEW j \in 1..Len(ListAt(h)'),
                      ListAt(g)'[i] = ListAt(h)'[j]
               PROVE  g = h /\ i = j
    BY DEF NodesInOneList
  <2>1. CASE ListAt(g)'[i] = x
    BY <1>3, <2>1
  <2>2. CASE ListAt(g)'[i] # x
    BY <1>3, <2>2 DEF NodesInOneList
  <2> QED BY <2>1, <2>2
<1> QED BY <1>2, <1>4

\* A group's list becomes the sub issues of a new node at the end of a context.
LEMMA ClosePlaces ==
  ASSUME Typed, OnlyTaken, NodesInOneList,
         NEW c \in Contexts, NEW x \in Issues \ Taken, subNodes[x] = <<>>,
         nodes' = [nodes EXCEPT ![c] = Append(@, x)],
         groupNodes' = [groupNodes EXCEPT ![c] = <<>>],
         subNodes' = [subNodes EXCEPT ![x] = groupNodes[c]],
         Taken' = Taken \cup {x}
  PROVE  OnlyTaken' /\ NodesInOneList'
<1> DEFINE t == <<"nodes", c>>
           g0 == <<"group", c>>
           s == <<"sub", x>>
<1>1. /\ t \in ListHeads /\ g0 \in ListHeads /\ s \in ListHeads
      /\ t # g0 /\ t # s /\ g0 # s
  BY Heads
<1>2. /\ ListAt(t)' = Append(ListAt(t), x)
      /\ ListAt(g0)' = <<>>
      /\ ListAt(s)' = ListAt(g0)
  BY Heads DEF ListAt, Typed
<1>3. ASSUME NEW h \in ListHeads, h # t, h # g0, h # s
      PROVE  ListAt(h)' = ListAt(h)
  <2>1. CASE h \in {"nodes", "group"} \X Contexts
    BY <1>3, <2>1 DEF ListAt, Typed
  <2>2. CASE h \in {"sub"} \X Issues
    <3>1. PICK y \in Issues : h = <<"sub", y>>
      BY <2>2
    <3>2. y # x
      BY <1>3, <3>1
    <3>3. subNodes'[y] = subNodes[y]
      BY <3>2 DEF Typed
    <3> QED BY <3>1, <3>3 DEF ListAt
  <2> QED BY <2>1, <2>2 DEF ListHeads
<1> HIDE DEF t, g0, s
<1>3a. x \in Nodes /\ ListAt(t) \in Seq(Nodes)
  BY <1>1, ListTypes DEF Nodes
<1>4. /\ Len(ListAt(t)') = Len(ListAt(t)) + 1 /\ Len(ListAt(t)) \in Nat
      /\ ListAt(t)'[Len(ListAt(t)) + 1] = x
      /\ \A j \in 1..Len(ListAt(t)) : ListAt(t)'[j] = ListAt(t)[j]
      /\ Elements(ListAt(t)') = Elements(ListAt(t)) \cup {x}
  BY <1>2, <1>3a, Appended
<1>5. OnlyTaken'
  <2>1. Elements(ListAt(g0)') = {}
    BY <1>2, NoElements
  <2>2. \A h \in ListHeads : Elements(ListAt(h)') \subseteq Taken \cup {x}
    BY <1>1, <1>2, <1>3, <1>4, <2>1 DEF OnlyTaken
  <2> QED BY <2>2 DEF OnlyTaken
<1>6. \A h \in ListHeads : \A i \in 1..Len(ListAt(h)) : ListAt(h)[i] # x
  BY DEF OnlyTaken, Elements
<1>7. ASSUME NEW h \in ListHeads, NEW j \in 1..Len(ListAt(h)')
      PROVE  \/ j \in 1..Len(ListAt(h)) /\ ListAt(h)'[j] = ListAt(h)[j]
                  /\ ListAt(h)'[j] # x /\ h # g0 /\ h # s
             \/ h = t /\ j = Len(ListAt(t)) + 1 /\ ListAt(h)'[j] = x
             \/ h = s /\ j \in 1..Len(ListAt(g0)) /\ ListAt(h)'[j] = ListAt(g0)[j]
                  /\ ListAt(h)'[j] # x
  <2>1. CASE h = s
    BY <1>1, <1>2, <1>6, <2>1
  <2>2. CASE h = g0
    BY <1>2, <2>2
  <2>3. CASE h = t /\ j \in 1..Len(ListAt(t))
    BY <1>1, <1>4, <1>6, <2>3
  <2>4. CASE h = t /\ j \notin 1..Len(ListAt(t))
    <3>1. j = Len(ListAt(t)) + 1
      BY <1>4, <2>4
    <3> QED BY <1>4, <2>4, <3>1
  <2>5. CASE h # t /\ h # g0 /\ h # s
    BY <1>3, <1>6, <2>5
  <2> QED BY <2>1, <2>2, <2>3, <2>4, <2>5
<1>8. NodesInOneList'
  <2> SUFFICES ASSUME NEW g \in ListHeads, NEW h \in ListHeads,
                      NEW i \in 1..Len(ListAt(g)'), NEW j \in 1..Len(ListAt(h)'),
                      ListAt(g)'[i] = ListAt(h)'[j]
               PROVE  g = h /\ i = j
    BY DEF NodesInOneList
  <2>1. CASE ListAt(g)'[i] = x
    <3>1. g = t /\ i = Len(ListAt(t)) + 1
      BY <1>7, <2>1, Zenon
    <3>2. h = t /\ j = Len(ListAt(t)) + 1
      BY <1>7, <2>1, Zenon
    <3> QED BY <3>1, <3>2
  <2>2. CASE ListAt(g)'[i] # x
    BY <1>1, <1>7, <2>2 DEF NodesInOneList
  <2> QED BY <2>1, <2>2
<1> QED BY <1>5, <1>8

\* The nodes of the parser's context follow those of the embedding's.
LEMMA MergePlaces ==
  ASSUME Typed, OnlyTaken, NodesInOneList, Merge
  PROVE  OnlyTaken' /\ NodesInOneList'
<1> DEFINE e == <<"nodes", "errors">>
           p == <<"nodes", "parser">>
<1>1. "errors" \in Contexts /\ "parser" \in Contexts
  BY DEF Contexts
<1>2. e \in ListHeads /\ p \in ListHeads /\ e # p
  BY <1>1, Heads
<1>3. nodes'["errors"] = nodes["errors"] \o nodes["parser"] /\ nodes'["parser"] = <<>>
  BY <1>1 DEF Merge, Typed
<1>4. ListAt(e)' = ListAt(e) \o ListAt(p) /\ ListAt(p)' = <<>>
  BY <1>3 DEF ListAt
<1>5. ASSUME NEW h \in ListHeads, h # e, h # p
      PROVE  ListAt(h)' = ListAt(h)
  <2>1. CASE h \in {"nodes", "group"} \X Contexts
    <3>1. PICK k \in {"nodes", "group"}, c \in Contexts : h = <<k, c>>
      BY <2>1
    <3>2. k = "group"
      BY <1>5, <3>1 DEF Contexts
    <3> QED BY <3>1, <3>2 DEF ListAt, Merge
  <2>2. CASE h \in {"sub"} \X Issues
    BY <1>5, <2>2 DEF ListAt, Merge
  <2> QED BY <2>1, <2>2 DEF ListHeads
<1> HIDE DEF e, p
<1>6. ListAt(e) \in Seq(Nodes) /\ ListAt(p) \in Seq(Nodes)
  BY <1>2, ListTypes
<1>7. /\ Len(ListAt(e)) \in Nat /\ Len(ListAt(p)) \in Nat
      /\ \A j \in 1..Len(ListAt(e)) : ListAt(e)'[j] = ListAt(e)[j]
      /\ \A j \in 1..Len(ListAt(e)') : j > Len(ListAt(e)) =>
           /\ j - Len(ListAt(e)) \in 1..Len(ListAt(p))
           /\ ListAt(e)'[j] = ListAt(p)[j - Len(ListAt(e))]
      /\ Elements(ListAt(e)') = Elements(ListAt(e)) \cup Elements(ListAt(p))
  BY <1>4, <1>6, Concatenated, Joint
<1>8. Taken' = Taken
  BY DEF Merge, Taken, Unraised
<1>9. OnlyTaken'
  <2>1. Elements(ListAt(p)') = {}
    BY <1>4, NoElements
  <2>2. \A h \in ListHeads : Elements(ListAt(h)') \subseteq Taken
    BY <1>2, <1>5, <1>7, <2>1 DEF OnlyTaken
  <2> QED BY <1>8, <2>2 DEF OnlyTaken
<1>10. ASSUME NEW h \in ListHeads, NEW j \in 1..Len(ListAt(h)')
       PROVE  \/ j \in 1..Len(ListAt(h)) /\ ListAt(h)'[j] = ListAt(h)[j] /\ h # p
              \/ /\ h = e /\ j - Len(ListAt(e)) \in 1..Len(ListAt(p))
                 /\ ListAt(h)'[j] = ListAt(p)[j - Len(ListAt(e))]
  <2>1. CASE h = p
    BY <1>4, <2>1
  <2>2. CASE h = e /\ j > Len(ListAt(e))
    BY <1>7, <2>2
  <2>3. CASE h = e /\ ~(j > Len(ListAt(e)))
    <3>1. j \in 1..Len(ListAt(e))
      BY <1>7, <2>3
    <3> QED BY <1>2, <1>7, <2>3, <3>1
  <2>4. CASE h # e /\ h # p
    BY <1>5, <2>4
  <2> QED BY <2>1, <2>2, <2>3, <2>4
<1>11. NodesInOneList'
  <2> SUFFICES ASSUME NEW g \in ListHeads, NEW h \in ListHeads,
                      NEW i \in 1..Len(ListAt(g)'), NEW j \in 1..Len(ListAt(h)'),
                      ListAt(g)'[i] = ListAt(h)'[j]
               PROVE  g = h /\ i = j
    BY DEF NodesInOneList
  <2>1. i \in Nat /\ j \in Nat
    OBVIOUS
  <2>2. /\ \/ i \in 1..Len(ListAt(g)) /\ ListAt(g)'[i] = ListAt(g)[i] /\ g # p
           \/ /\ g = e /\ i - Len(ListAt(e)) \in 1..Len(ListAt(p))
              /\ ListAt(g)'[i] = ListAt(p)[i - Len(ListAt(e))]
        /\ \/ j \in 1..Len(ListAt(h)) /\ ListAt(h)'[j] = ListAt(h)[j] /\ h # p
           \/ /\ h = e /\ j - Len(ListAt(e)) \in 1..Len(ListAt(p))
              /\ ListAt(h)'[j] = ListAt(p)[j - Len(ListAt(e))]
    BY <1>10
  <2>3. CASE i \in 1..Len(ListAt(g)) /\ ListAt(g)'[i] = ListAt(g)[i] /\ g # p
    BY <1>2, <2>2, <2>3 DEF NodesInOneList
  <2>4. CASE g = e /\ ListAt(g)'[i] = ListAt(p)[i - Len(ListAt(e))]
             /\ i - Len(ListAt(e)) \in 1..Len(ListAt(p))
    <3>1. ~(ListAt(h)'[j] = ListAt(h)[j] /\ j \in 1..Len(ListAt(h)) /\ h # p)
      BY <1>2, <2>4 DEF NodesInOneList
    <3>2. h = e /\ i - Len(ListAt(e)) = j - Len(ListAt(e))
      BY <1>2, <2>2, <2>4, <3>1 DEF NodesInOneList
    <3> QED BY <1>7, <2>1, <2>4, <3>2
  <2> QED BY <2>2, <2>3, <2>4
<1> QED BY <1>9, <1>11

LEMMA AppendToNodes ==
  ASSUME Typed, OnlyTaken, NodesInOneList,
         NEW c \in Contexts, NEW x \in Nodes \ Taken,
         nodes' = [nodes EXCEPT ![c] = Append(@, x)], UNCHANGED <<groupNodes, subNodes>>,
         Taken' = Taken \cup {x}
  PROVE  OnlyTaken' /\ NodesInOneList'
<1> DEFINE t == <<"nodes", c>>
<1>1. t \in ListHeads
  BY Heads
<1>2. ListAt(t)' = Append(ListAt(t), x)
  BY DEF ListAt, Typed
<1>3. ASSUME NEW h \in ListHeads \ {t} PROVE ListAt(h)' = ListAt(h)
  <2>1. CASE h \in {"nodes", "group"} \X Contexts
    BY <1>3, <2>1 DEF ListAt, Typed
  <2>2. CASE h \in {"sub"} \X Issues
    BY <1>3, <2>2 DEF ListAt, Typed
  <2> QED BY <2>1, <2>2 DEF ListHeads
<1> HIDE DEF t
<1> QED BY <1>1, <1>2, <1>3, AppendPlaces

LEMMA AppendToGroup ==
  ASSUME Typed, OnlyTaken, NodesInOneList,
         NEW c \in Contexts, NEW x \in Nodes \ Taken,
         groupNodes' = [groupNodes EXCEPT ![c] = Append(@, x)], UNCHANGED <<nodes, subNodes>>,
         Taken' = Taken \cup {x}
  PROVE  OnlyTaken' /\ NodesInOneList'
<1> DEFINE t == <<"group", c>>
<1>1. t \in ListHeads
  BY Heads
<1>2. ListAt(t)' = Append(ListAt(t), x)
  BY DEF ListAt, Typed
<1>3. ASSUME NEW h \in ListHeads \ {t} PROVE ListAt(h)' = ListAt(h)
  <2>1. CASE h \in {"nodes", "group"} \X Contexts
    BY <1>3, <2>1 DEF ListAt, Typed
  <2>2. CASE h \in {"sub"} \X Issues
    BY <1>3, <2>2 DEF ListAt, Typed
  <2> QED BY <2>1, <2>2 DEF ListHeads
<1> HIDE DEF t
<1> QED BY <1>1, <1>2, <1>3, AppendPlaces

LEMMA PlacesStay ==
  ASSUME OnlyTaken, NodesInOneList, UNCHANGED <<nodes, groupNodes, subNodes>>,
         Taken \subseteq Taken'
  PROVE  OnlyTaken' /\ NodesInOneList'
<1>1. \A h : ListAt(h)' = ListAt(h)
  BY DEF ListAt
<1> QED BY <1>1 DEF OnlyTaken, NodesInOneList

\* Whoever is held stays so while lists only grow.
LEMMA StillHeld ==
  ASSUME \A c \in Contexts : /\ Elements(groupNodes[c]) \subseteq Elements(groupNodes'[c])
                             /\ Elements(nodes[c]) \subseteq Elements(nodes'[c]),
         UNCHANGED subNodes, NEW i, Held(i)
  PROVE  Held(i)'
BY DEF Held, Reached

LEMMA IssueTaken ==
  ASSUME Typed, NEW i \in Unraised, NEW k \in Classes,
         class' = [class EXCEPT ![i] = k], UNCHANGED added
  PROVE  /\ i \in Issues /\ i \in Nodes \ Taken
         /\ Unraised' = Unraised \ {i} /\ Taken' = Taken \cup {i}
         /\ class' \in [Nodes -> (SUBSET AnyIssue) \cup {NULL}]
<1>1. i \in Issues /\ i \in Nodes /\ class[i] = NULL /\ i \notin FatalNodes
  BY NodeAssumption DEF Unraised, Nodes
<1>2. k \in SUBSET AnyIssue /\ k # NULL
  BY IssueAssumption
<1>3. class' \in [Nodes -> (SUBSET AnyIssue) \cup {NULL}]
  BY <1>1, <1>2 DEF Typed
<1>4. Unraised' = Unraised \ {i}
  BY <1>1, <1>2 DEF Unraised, Typed, Nodes
<1>5. i \notin Taken
  BY <1>1 DEF Taken, Typed
<1>6. Taken' = Taken \cup {i}
  BY <1>1, <1>4 DEF Taken
<1> QED BY <1>1, <1>3, <1>4, <1>5, <1>6

-----------------------------------------------------------------------------
(***************************************************************************)
(* The frames of the calls at work.                                        *)
(***************************************************************************)
LEMMA FrameTypes ==
  ASSUME Typed, InFrames
  PROVE  /\ Len(frames) \in Nat /\ Len(frames) >= 1
         /\ Innermost \in Frame /\ Outer \in Seq(Frame)
         /\ Outer # <<>> => Len(Outer) \in 1..Len(Outer)
<1>1. frames \in Seq(Frame) /\ frames # <<>>
  BY DEF Typed, InFrames
<1>2. Len(frames) \in Nat /\ Len(frames) >= 1 /\ Len(frames) \in 1..Len(frames)
  BY <1>1
<1>3. Innermost \in Frame
  BY <1>1, <1>2 DEF Innermost
<1>4. Outer \in Seq(Frame)
  BY <1>1, <1>2 DEF Outer
<1>5. Outer # <<>> => Len(Outer) \in 1..Len(Outer)
  BY <1>4
<1> QED BY <1>2, <1>3, <1>4, <1>5

LEMMA SeenBy ==
  ASSUME Typed, NEW more \in SUBSET Issues, frames' = Seen(more)
  PROVE  /\ frames' \in Seq(Frame)
         /\ InFrames' <=> InFrames
         /\ InFrames => Innermost'.raised = Innermost.raised \cup more
<1>1. CASE InFrames
  <2> DEFINE f == [raised |-> Innermost.raised \cup more, failed |-> TRUE]
  <2>1. Outer \in Seq(Frame) /\ Innermost \in Frame
    BY <1>1, FrameTypes
  <2>2. f \in Frame
    BY <2>1 DEF Frame
  <2>3. frames' = Append(Outer, f)
    BY <1>1 DEF Seen
  <2> HIDE DEF f
  <2>4. frames' \in Seq(Frame) /\ frames' # <<>> /\ frames'[Len(frames')] = f
    BY <2>1, <2>2, <2>3
  <2>5. f.raised = Innermost.raised \cup more
    BY DEF f
  <2> QED BY <1>1, <2>4, <2>5 DEF InFrames, Innermost
<1>2. CASE ~InFrames
  BY <1>2 DEF Seen, InFrames, Typed
<1> QED BY <1>1, <1>2

\* Between its main issues a group has no nodes.
LEMMA GroupsEmpty ==
  ASSUME PlaceInv, ~failing \/ ~InFrames \/ active = NULL, NEW c \in Contexts
  PROVE  groupNodes[c] = <<>>
BY NodeAssumption DEF PlaceInv, GroupWaits

-----------------------------------------------------------------------------
(***************************************************************************)
(* The steps keep every issue in its place.                                *)
(***************************************************************************)
LEMMA RaisePlaces ==
  ASSUME PlaceInv, NEW c \in Contexts, NEW i \in Issues, NEW k \in Classes, Raise(c, i, k)
  PROVE  PlaceInv'
<1>1. /\ i \in Unraised /\ active = c /\ ~failing
      /\ class' = [class EXCEPT ![i] = k]
      /\ UNCHANGED <<groupMode, subNodes, added, active, scope>>
      /\ frames' = Seen({i}) /\ failing' = InFrames
      /\ IF groupMode[c]
           THEN groupNodes' = [groupNodes EXCEPT ![c] = Append(@, i)] /\ UNCHANGED nodes
           ELSE nodes' = [nodes EXCEPT ![c] = Append(@, i)] /\ UNCHANGED groupNodes
  BY DEF Raise, NewIssue
<1>2. /\ i \in Nodes \ Taken /\ Unraised' = Unraised \ {i} /\ Taken' = Taken \cup {i}
      /\ class' \in [Nodes -> (SUBSET AnyIssue) \cup {NULL}]
  BY <1>1, IssueTaken DEF PlaceInv
<1>3. /\ frames' \in Seq(Frame) /\ (InFrames' <=> InFrames)
      /\ InFrames => i \in Innermost'.raised
  <2>1. {i} \in SUBSET Issues
    OBVIOUS
  <2> QED BY <1>1, <2>1, SeenBy DEF PlaceInv
<1>4. \A d \in Contexts : groupNodes[d] = <<>>
  BY <1>1, GroupsEmpty
<1>5. Parents' /\ SubIssuesMatchGroup'
  BY <1>1, <1>2 DEF PlaceInv, Parents, SubIssuesMatchGroup
<1>6. /\ \A d \in Contexts : nodes[d] \in Seq(Nodes) /\ groupNodes[d] \in Seq(Issues)
      /\ nodes \in [Contexts -> Seq(Nodes)] /\ groupNodes \in [Contexts -> Seq(Issues)]
      /\ DOMAIN groupNodes = Contexts /\ DOMAIN nodes = Contexts
  BY DEF PlaceInv, Typed
<1>7. CASE groupMode[c]
  <2>1. groupNodes' = [groupNodes EXCEPT ![c] = Append(groupNodes[c], i)] /\ UNCHANGED nodes
    BY <1>1, <1>7
  <2>2. /\ Append(groupNodes[c], i) \in Seq(Issues)
        /\ Elements(Append(groupNodes[c], i)) = {i}
    BY <1>4, <1>6, Appended, NoElements
  <2>3. Typed'
    BY <1>1, <1>2, <1>3, <1>6, <2>1, <2>2 DEF PlaceInv, Typed
  <2>4. OnlyTaken' /\ NodesInOneList'
    BY <1>1, <1>2, <2>1, AppendToGroup DEF PlaceInv
  <2>5. InFrames
    BY <1>7 DEF PlaceInv, GroupWaits
  <2>6. GroupWaits'
    <3>1. \A d \in Contexts \ {c} : groupNodes'[d] = <<>>
      BY <1>4, <1>6, <2>1
    <3>2. groupNodes'[c] = Append(groupNodes[c], i)
      BY <1>6, <2>1
    <3>3. \A d \in Contexts : groupMode'[d] => d = active' /\ InFrames'
      BY <1>1, <1>3, <2>5 DEF PlaceInv, GroupWaits
    <3> QED BY <1>1, <1>3, <2>2, <2>5, <3>1, <3>2, <3>3 DEF GroupWaits
  <2>7. AllHeld'
    <3>1. i \in Elements(groupNodes'[c])
      BY <1>6, <2>1, <2>2
    <3>2. \A d \in Contexts : Elements(groupNodes[d]) \subseteq Elements(groupNodes'[d])
      BY <1>4, NoElements
    <3>3. \A j \in Issues \ Unraised : Held(j)'
      BY <1>1, <2>1, <3>2, StillHeld DEF PlaceInv, AllHeld
    <3> QED BY <1>2, <3>1, <3>3 DEF AllHeld, Held, Reached
  <2> QED BY <1>5, <2>3, <2>4, <2>6, <2>7 DEF PlaceInv
<1>8. CASE ~groupMode[c]
  <2>1. nodes' = [nodes EXCEPT ![c] = Append(nodes[c], i)] /\ UNCHANGED groupNodes
    BY <1>1, <1>8
  <2>2. /\ Append(nodes[c], i) \in Seq(Nodes)
        /\ Elements(Append(nodes[c], i)) = Elements(nodes[c]) \cup {i}
    BY <1>2, <1>6, Appended
  <2>3. Typed'
    BY <1>1, <1>2, <1>3, <1>6, <2>1, <2>2 DEF PlaceInv, Typed
  <2>4. OnlyTaken' /\ NodesInOneList'
    BY <1>1, <1>2, <2>1, AppendToNodes DEF PlaceInv
  <2>5. GroupWaits'
    BY <1>1, <1>3, <1>4, <2>1 DEF PlaceInv, GroupWaits
  <2>6. AllHeld'
    <3>1. i \in Elements(nodes'[c])
      BY <1>6, <2>1, <2>2
    <3>2. \A d \in Contexts : Elements(nodes[d]) \subseteq Elements(nodes'[d])
      BY <1>6, <2>1, <2>2
    <3>3. \A j \in Issues \ Unraised : Held(j)'
      BY <1>1, <2>1, <3>2, StillHeld DEF PlaceInv, AllHeld
    <3> QED BY <1>2, <3>1, <3>3 DEF AllHeld, Held, Reached
  <2> QED BY <1>5, <2>3, <2>4, <2>5, <2>6 DEF PlaceInv
<1> QED BY <1>7, <1>8

\* Issues of the context itself: raised at a location, or fatal.
LEMMA DirectPlaces ==
  ASSUME PlaceInv, NEW c \in Contexts, NEW x \in Nodes \ Taken,
         active = c, ~failing, nodes' = [nodes EXCEPT ![c] = Append(@, x)],
         UNCHANGED <<groupNodes, groupMode, subNodes, active, scope>>,
         frames' = Seen({}), Taken' = Taken \cup {x}, Unraised' \subseteq Unraised,
         class' \in [Nodes -> (SUBSET AnyIssue) \cup {NULL}], added' \subseteq FatalNodes,
         (Issues \ Unraised') \subseteq (Issues \ Unraised) \cup {x}
  PROVE  PlaceInv'
<1>1. frames' \in Seq(Frame) /\ (InFrames' <=> InFrames)
  BY SeenBy DEF PlaceInv
<1>2. \A d \in Contexts : groupNodes[d] = <<>>
  BY GroupsEmpty
<1>3. /\ nodes \in [Contexts -> Seq(Nodes)] /\ nodes[c] \in Seq(Nodes)
      /\ nodes' = [nodes EXCEPT ![c] = Append(nodes[c], x)]
  BY DEF PlaceInv, Typed
<1>4. /\ Append(nodes[c], x) \in Seq(Nodes)
      /\ Elements(Append(nodes[c], x)) = Elements(nodes[c]) \cup {x}
  BY <1>3, Appended
<1>5. Typed'
  BY <1>1, <1>3, <1>4 DEF PlaceInv, Typed
<1>6. OnlyTaken' /\ NodesInOneList'
  BY AppendToNodes DEF PlaceInv
<1>7. GroupWaits'
  BY <1>1, <1>2 DEF PlaceInv, GroupWaits
<1>8. AllHeld'
  <2>1. x \in Elements(nodes'[c])
    BY <1>3, <1>4
  <2>2. \A d \in Contexts : Elements(nodes[d]) \subseteq Elements(nodes'[d])
    BY <1>3, <1>4
  <2>3. \A j \in Issues \ Unraised : Held(j)'
    BY <2>2, StillHeld DEF PlaceInv, AllHeld
  <2> QED BY <2>1, <2>3 DEF AllHeld, Held, Reached
<1>9. Parents' /\ SubIssuesMatchGroup'
  BY DEF PlaceInv, Parents, SubIssuesMatchGroup
<1> QED BY <1>5, <1>6, <1>7, <1>8, <1>9 DEF PlaceInv

LEMMA RaiseAtPlaces ==
  ASSUME PlaceInv, NEW c \in Contexts, NEW i \in Issues, NEW k \in Classes, RaiseAt(c, i, k)
  PROVE  PlaceInv'
<1>1. /\ i \in Unraised /\ active = c /\ ~failing
      /\ class' = [class EXCEPT ![i] = k]
      /\ nodes' = [nodes EXCEPT ![c] = Append(@, i)]
      /\ UNCHANGED <<groupNodes, groupMode, subNodes, added, active, scope>>
      /\ frames' = Seen({})
  BY DEF RaiseAt, NewIssueAt
<1>2. /\ i \in Nodes \ Taken /\ Unraised' = Unraised \ {i} /\ Taken' = Taken \cup {i}
      /\ class' \in [Nodes -> (SUBSET AnyIssue) \cup {NULL}]
  BY <1>1, IssueTaken DEF PlaceInv
<1>3. added' \subseteq FatalNodes
  BY <1>1 DEF PlaceInv, Typed
<1> QED BY <1>1, <1>2, <1>3, DirectPlaces

LEMMA RaiseFatalPlaces ==
  ASSUME PlaceInv, NEW c \in Contexts, NEW kind \in FatalKinds, RaiseFatal(c, kind)
  PROVE  PlaceInv'
<1> DEFINE x == <<c, kind>>
<1>1. /\ active = c /\ ~failing
      /\ nodes' = IF x \in added THEN nodes ELSE [nodes EXCEPT ![c] = Append(@, x)]
      /\ added' = added \cup {x}
      /\ UNCHANGED <<groupNodes, groupMode, subNodes, class, active, scope>>
      /\ frames' = Seen({}) /\ failing' = InFrames
  BY DEF RaiseFatal, FatalError
<1>2. x \in FatalNodes /\ x \in Nodes /\ x \notin Issues
  BY NodeAssumption DEF Nodes, FatalNodes
<1> HIDE DEF x
<1>3. /\ Unraised' = Unraised /\ Taken' = Taken \cup {x}
      /\ added' \subseteq FatalNodes /\ class' \in [Nodes -> (SUBSET AnyIssue) \cup {NULL}]
  BY <1>1, <1>2 DEF Taken, Unraised, PlaceInv, Typed
<1>4. CASE x \notin added
  <2>1. x \in Nodes \ Taken
    BY <1>2, <1>4 DEF Taken
  <2> QED BY <1>1, <1>3, <1>4, <2>1, DirectPlaces
<1>5. CASE x \in added
  <2>1. frames' \in Seq(Frame) /\ (InFrames' <=> InFrames)
    BY <1>1, SeenBy DEF PlaceInv
  <2>2. \A d \in Contexts : groupNodes[d] = <<>>
    BY <1>1, GroupsEmpty
  <2>3. UNCHANGED <<nodes, groupNodes, subNodes>> /\ Taken \subseteq Taken'
    BY <1>1, <1>3, <1>5
  <2>4. OnlyTaken' /\ NodesInOneList'
    BY <2>3, PlacesStay DEF PlaceInv
  <2>5. GroupWaits'
    BY <1>1, <2>1, <2>2 DEF PlaceInv, GroupWaits
  <2>6. Typed' /\ Parents' /\ SubIssuesMatchGroup' /\ AllHeld'
    BY <1>1, <1>3, <2>1, <2>3
      DEF PlaceInv, Typed, Parents, SubIssuesMatchGroup, AllHeld, Held, Reached
  <2> QED BY <2>4, <2>5, <2>6 DEF PlaceInv
<1> QED BY <1>4, <1>5

LEMMA ClosePlacesKept ==
  ASSUME PlaceInv, NEW c \in Contexts, NEW i \in Issues, NEW k \in Classes, CloseFailed(c, i, k)
  PROVE  PlaceInv'
<1>1. /\ i \in Unraised /\ active = c /\ InFrames
      /\ groupMode' = [groupMode EXCEPT ![c] = FALSE]
      /\ class' = [class EXCEPT ![i] = k]
      /\ subNodes' = [subNodes EXCEPT ![i] = groupNodes[c]]
      /\ groupNodes' = [groupNodes EXCEPT ![c] = <<>>]
      /\ nodes' = [nodes EXCEPT ![c] = Append(@, i)]
      /\ scope' = [scope EXCEPT ![i] = Innermost.raised]
      /\ frames' = IF Outer = <<>> THEN <<>>
                   ELSE [Outer EXCEPT ![Len(Outer)].failed = TRUE]
      /\ UNCHANGED <<added, active>>
  BY DEF CloseFailed, CloseWithMainIssue
<1>2. /\ i \in Nodes \ Taken /\ Unraised' = Unraised \ {i} /\ Taken' = Taken \cup {i}
      /\ class' \in [Nodes -> (SUBSET AnyIssue) \cup {NULL}]
  BY <1>1, IssueTaken DEF PlaceInv
<1>3. Innermost.raised \in SUBSET Issues
  BY <1>1, FrameTypes DEF PlaceInv, Frame
<1>4. frames' \in Seq(Frame)
  <2>1. CASE Outer = <<>>
    BY <1>1, <2>1
  <2>2. CASE Outer # <<>>
    <3> DEFINE n == Len(Outer)
               o == Outer
    <3>1. o \in Seq(Frame) /\ n \in 1..Len(o)
      BY <1>1, <2>2, FrameTypes DEF PlaceInv
    <3>2. frames' = [o EXCEPT ![n] = [o[n] EXCEPT !.failed = TRUE]]
      BY <1>1, <2>2
    <3> HIDE DEF n, o
    <3>3. o[n] \in Frame
      BY <3>1
    <3>4. [o[n] EXCEPT !.failed = TRUE] \in Frame
      BY <3>3 DEF Frame
    <3> QED BY <3>1, <3>2, <3>4
  <2> QED BY <2>1, <2>2
<1>5. /\ nodes \in [Contexts -> Seq(Nodes)] /\ nodes[c] \in Seq(Nodes)
      /\ groupNodes \in [Contexts -> Seq(Issues)] /\ groupNodes[c] \in Seq(Issues)
      /\ subNodes \in [Issues -> Seq(Issues)] /\ subNodes[i] = <<>>
      /\ i \in Nodes /\ DOMAIN groupMode = Contexts
      /\ scope \in [Issues -> SUBSET Issues]
  BY <1>1, <1>2 DEF PlaceInv, Typed, Parents
<1>6. /\ nodes'[c] \in Seq(Nodes) /\ Elements(nodes'[c]) = Elements(nodes[c]) \cup {i}
      /\ \A d \in Contexts \ {c} : nodes'[d] = nodes[d]
      /\ nodes' \in [Contexts -> Seq(Nodes)]
  <2>1. /\ Append(nodes[c], i) \in Seq(Nodes)
        /\ Elements(Append(nodes[c], i)) = Elements(nodes[c]) \cup {i}
    BY <1>5, Appended
  <2> QED BY <1>1, <1>5, <2>1
<1>7. Typed'
  <2>1. subNodes' \in [Issues -> Seq(Issues)] /\ scope' \in [Issues -> SUBSET Issues]
    BY <1>1, <1>3, <1>5
  <2>2. groupNodes' \in [Contexts -> Seq(Issues)] /\ groupMode' \in [Contexts -> BOOLEAN]
    <3>1. <<>> \in Seq(Issues) /\ groupMode \in [Contexts -> BOOLEAN]
      BY DEF PlaceInv, Typed
    <3> QED BY <1>1, <1>5, <3>1
  <2> QED BY <1>1, <1>2, <1>4, <1>6, <2>1, <2>2 DEF PlaceInv, Typed
<1>8. OnlyTaken' /\ NodesInOneList'
  BY <1>1, <1>2, <1>5, ClosePlaces DEF PlaceInv
<1>9. Parents'
  BY <1>1, <1>2, <1>5 DEF PlaceInv, Parents
<1>10. \A d \in Contexts \ {c} : groupNodes[d] = <<>> /\ ~groupMode[d]
  BY <1>1 DEF PlaceInv, GroupWaits
<1>11. GroupWaits'
  BY <1>1, <1>5, <1>10 DEF GroupWaits
<1>12. Elements(groupNodes[c]) \subseteq Innermost.raised
  BY NoElements DEF PlaceInv, GroupWaits
<1>13. SubIssuesMatchGroup'
  BY <1>1, <1>5, <1>12 DEF PlaceInv, SubIssuesMatchGroup
<1>14. AllHeld'
  <2> SUFFICES ASSUME NEW j \in Issues \ Unraised' PROVE Held(j)'
    BY DEF AllHeld
  <2>1. CASE j = i
    BY <1>6, <2>1 DEF Held, Reached
  <2>2. CASE j # i
    <3>1. Held(j)
      BY <1>2, <2>2 DEF PlaceInv, AllHeld
    <3>2. PICK d \in Contexts : \/ j \in Elements(groupNodes[d])
                                \/ \E x \in Elements(nodes[d]) : j \in Reached(x)
      BY <3>1 DEF Held, Reached
    <3>3. CASE j \in Elements(groupNodes[d])
      <4>1. d = c
        BY <1>10, <3>3, NoElements
      <4>2. i \in Elements(nodes'[c]) /\ j \in Elements(subNodes'[i])
        BY <1>1, <1>5, <1>6, <3>3, <4>1
      <4> QED BY <4>2 DEF Held, Reached
    <3>4. ASSUME NEW x \in Elements(nodes[d]), j \in Reached(x)
          PROVE  Held(j)'
      <4>1. x \in Elements(nodes'[d])
        BY <1>6
      <4>2. x \in Nodes
        <5>1. nodes[d] \in Seq(Nodes)
          BY <1>5
        <5> QED BY <5>1 DEF Elements
      <4>3. x \in Issues => subNodes'[x] = subNodes[x] \/ j = x
        BY <1>1, <1>5, <3>4, <4>2, NoElements DEF Reached
      <4> QED BY <3>4, <4>1, <4>3 DEF Held, Reached
    <3> QED BY <3>2, <3>3, <3>4
  <2> QED BY <2>1, <2>2
<1> QED BY <1>7, <1>8, <1>9, <1>11, <1>13, <1>14 DEF PlaceInv

\* Steps that move no node.
LEMMA FramePlaces ==
  ASSUME PlaceInv, NEW c \in Contexts, Begin(c) \/ Open(c) \/ CloseOk(c)
  PROVE  PlaceInv'
<1>1. UNCHANGED <<nodes, groupNodes, subNodes, class, added, scope>>
  BY DEF Begin, Open, CloseOk, SetGroupMode, contextVars
<1>2. Unraised' = Unraised /\ Taken' = Taken
  BY <1>1 DEF Unraised, Taken
<1>3. OnlyTaken' /\ NodesInOneList'
  BY <1>1, <1>2, PlacesStay DEF PlaceInv
<1>4. Parents' /\ AllHeld' /\ SubIssuesMatchGroup'
  BY <1>1, <1>2 DEF PlaceInv, Parents, AllHeld, Held, Reached, SubIssuesMatchGroup
<1>5. ~failing \/ active = NULL
  BY DEF Begin, Open, CloseOk
<1>6. \A d \in Contexts : groupNodes'[d] = <<>>
  BY <1>1, <1>5, GroupsEmpty
<1>7. \A d \in Contexts : groupMode[d] => d = active /\ InFrames
  BY DEF PlaceInv, GroupWaits
<1>8. groupMode \in [Contexts -> BOOLEAN] /\ frames \in Seq(Frame)
  BY DEF PlaceInv, Typed
<1>9. /\ groupMode' \in [Contexts -> BOOLEAN] /\ frames' \in Seq(Frame)
      /\ \A d \in Contexts : groupMode'[d] => d = active' /\ InFrames'
  <2>1. CASE Begin(c)
    BY <1>7, <1>8, <2>1, NodeAssumption DEF Begin, contextVars
  <2>2. CASE Open(c)
    <3> DEFINE f == [raised |-> {}, failed |-> FALSE]
    <3>1. f \in Frame
      BY DEF Frame
    <3>2. /\ frames' = Append(frames, f) /\ groupMode' = [groupMode EXCEPT ![c] = TRUE]
          /\ active' = active /\ active = c
      BY <2>2 DEF Open, SetGroupMode
    <3> HIDE DEF f
    <3>3. frames' \in Seq(Frame) /\ frames' # <<>>
      BY <1>8, <3>1, <3>2
    <3> QED BY <1>7, <1>8, <3>2, <3>3 DEF InFrames
  <2>3. CASE CloseOk(c)
    <3>1. /\ frames' = Outer /\ groupMode' = [groupMode EXCEPT ![c] = FALSE]
          /\ active' = active /\ active = c /\ InFrames
      BY <2>3 DEF CloseOk, SetGroupMode
    <3>2. frames' \in Seq(Frame)
      BY <3>1, FrameTypes DEF PlaceInv
    <3> QED BY <1>7, <1>8, <3>1, <3>2
  <2> QED BY <2>1, <2>2, <2>3
<1>10. Typed'
  BY <1>1, <1>9 DEF PlaceInv, Typed
<1>11. GroupWaits'
  BY <1>6, <1>9 DEF GroupWaits
<1> QED BY <1>3, <1>4, <1>10, <1>11 DEF PlaceInv

LEMMA EndPlaces ==
  ASSUME PlaceInv, End
  PROVE  PlaceInv'
<1>1. /\ ~InFrames /\ UNCHANGED <<groupNodes, groupMode, subNodes, class, added, frames, scope>>
      /\ Merge \/ UNCHANGED nodes
  BY DEF End, Merge, contextVars
<1>2. Unraised' = Unraised /\ Taken' = Taken
  BY <1>1 DEF Unraised, Taken
<1>3. OnlyTaken' /\ NodesInOneList'
  BY <1>1, <1>2, MergePlaces, PlacesStay DEF PlaceInv
<1>4. "errors" \in Contexts /\ "parser" \in Contexts /\ Contexts = {"errors", "parser"}
  BY DEF Contexts
<1>5. nodes["errors"] \in Seq(Nodes) /\ nodes["parser"] \in Seq(Nodes)
      /\ nodes \in [Contexts -> Seq(Nodes)]
  BY <1>4 DEF PlaceInv, Typed
<1>6. /\ nodes' \in [Contexts -> Seq(Nodes)]
      /\ \A c \in Contexts : \A x \in Elements(nodes[c]) :
           \E d \in Contexts : x \in Elements(nodes'[d])
  <2>1. CASE Merge
    <3> DEFINE e == nodes["errors"]
               p == nodes["parser"]
    <3>1. nodes' = [nodes EXCEPT !["errors"] = e \o p, !["parser"] = <<>>]
      BY <2>1 DEF Merge
    <3>2. /\ e \o p \in Seq(Nodes) /\ <<>> \in Seq(Nodes)
          /\ Elements(e \o p) = Elements(e) \cup Elements(p)
      BY <1>5, Joint, Concatenated
    <3> DEFINE q == e \o p
    <3>3. q \in Seq(Nodes) /\ Elements(q) = Elements(nodes["errors"]) \cup Elements(nodes["parser"])
          /\ nodes' = [nodes EXCEPT !["errors"] = q, !["parser"] = <<>>] /\ <<>> \in Seq(Nodes)
      BY <3>1, <3>2
    <3> HIDE DEF q
    <3>4. nodes' \in [Contexts -> Seq(Nodes)] /\ nodes'["errors"] = q
      BY <1>4, <1>5, <3>3
    <3>5. ASSUME NEW c \in Contexts, NEW x \in Elements(nodes[c])
          PROVE  x \in Elements(nodes'["errors"])
      <4>1. c = "errors" \/ c = "parser"
        BY <1>4
      <4> QED BY <3>3, <3>4, <3>5, <4>1
    <3> QED BY <1>4, <3>4, <3>5
  <2>2. CASE UNCHANGED nodes
    BY <1>5, <2>2
  <2> QED BY <1>1, <2>1, <2>2
<1>7. \A c \in Contexts : groupNodes[c] = <<>> /\ ~groupMode[c]
  BY <1>1 DEF PlaceInv, GroupWaits
<1>8. GroupWaits'
  BY <1>1, <1>7 DEF GroupWaits
<1>9. AllHeld'
  <2> SUFFICES ASSUME NEW j \in Issues \ Unraised PROVE Held(j)'
    BY <1>2 DEF AllHeld
  <2>1. PICK c \in Contexts : \E x \in Elements(nodes[c]) : j \in Reached(x)
    BY <1>7, NoElements DEF PlaceInv, AllHeld, Held, Reached
  <2> QED BY <1>1, <1>6, <2>1 DEF Held, Reached
<1>10. Typed' /\ Parents' /\ SubIssuesMatchGroup'
  BY <1>1, <1>2, <1>6 DEF PlaceInv, Typed, Parents, SubIssuesMatchGroup
<1> QED BY <1>3, <1>8, <1>9, <1>10 DEF PlaceInv

\* What the embedding fetches stays where it is.
LEMMA SamePlaces ==
  ASSUME PlaceInv, UNCHANGED <<nodes, groupNodes, groupMode, subNodes, class, added, clientVars>>
  PROVE  PlaceInv'
<1>1. UNCHANGED <<active, frames, failing, scope>>
  BY DEF clientVars
<1>2. Unraised' = Unraised /\ Taken' = Taken
  BY DEF Unraised, Taken
<1>3. OnlyTaken' /\ NodesInOneList'
  BY <1>2, PlacesStay DEF PlaceInv
<1>4. GroupWaits'
  BY <1>1 DEF PlaceInv, GroupWaits, InFrames, Innermost
<1>5. Typed' /\ Parents' /\ AllHeld' /\ SubIssuesMatchGroup'
  BY <1>1, <1>2 DEF PlaceInv, Typed, Parents, AllHeld, Held, Reached, SubIssuesMatchGroup
<1> QED BY <1>3, <1>4, <1>5 DEF PlaceInv

LEMMA InitPlaces == Init => PlaceInv
<1> SUFFICES ASSUME Init PROVE PlaceInv
  OBVIOUS
<1>1. /\ \A c \in Contexts : nodes[c] = <<>> /\ groupNodes[c] = <<>> /\ ~groupMode[c]
      /\ \A x \in Issues : subNodes[x] = <<>>
      /\ Unraised = Issues
  BY DEF Init, Unraised, Nodes
<1>2. Typed
  BY DEF Init, Typed, FatalClass, AnyIssue
<1>3. \A h \in ListHeads : ListAt(h) = <<>>
  BY <1>1, Lists
<1>4. OnlyTaken /\ NodesInOneList
  BY <1>3, NoElements DEF OnlyTaken, NodesInOneList
<1>5. Parents /\ AllHeld /\ GroupWaits /\ SubIssuesMatchGroup
  BY <1>1, NoElements DEF Parents, AllHeld, GroupWaits, SubIssuesMatchGroup
<1> QED BY <1>2, <1>4, <1>5 DEF PlaceInv

LEMMA NextPlaces == PlaceInv /\ [Next]_vars => PlaceInv'
<1> SUFFICES ASSUME PlaceInv, [Next]_vars PROVE PlaceInv'
  OBVIOUS
<1>1. ASSUME (\E filter \in Filters : Fetch(filter)) \/ FetchSubIssue \/ UNCHANGED vars
      PROVE  PlaceInv'
  <2>1. UNCHANGED <<nodes, groupNodes, groupMode, subNodes, class, added, clientVars>>
    BY <1>1 DEF Fetch, FetchSubIssue, vars, contextVars
  <2> QED BY <2>1, SamePlaces
<1> QED
  BY <1>1, RaisePlaces, RaiseAtPlaces, RaiseFatalPlaces, ClosePlacesKept, FramePlaces,
     EndPlaces DEF Next

\* No issue is left in a group that nobody will close, whatever the code under
\* the caller raised, grouped and merged (issue_group_close, issue_group_main_issue).
THEOREM IssuesAreKept == Spec => []NoIssueLost
<1>1. PlaceInv => NoIssueLost
  <2> SUFFICES ASSUME PlaceInv, ~InFrames, NEW i \in Issues \ Unraised
               PROVE  \E c \in Contexts : \E x \in Elements(nodes[c]) :
                        i \in Reached(x)
    BY DEF NoIssueLost
  <2> QED BY GroupsEmpty, NoElements DEF PlaceInv, AllHeld, Held, Reached
<1> QED BY <1>1, InitPlaces, NextPlaces, PTL DEF Spec

\* The sub issues of an issue are those of its own call, although nested groups
\* share one list (open_group).
THEOREM GroupsDoNotMix == Spec => []SubIssuesMatchGroup
<1>1. PlaceInv => SubIssuesMatchGroup
  BY DEF PlaceInv
<1> QED BY <1>1, InitPlaces, NextPlaces, PTL DEF Spec

\* A node is linked in one place only: no append, merge or closing group ties two
\* lists together (DL_APPEND, DL_CONCAT).
THEOREM ListsAreApart == Spec => []NodesInOneList
<1>1. PlaceInv => NodesInOneList
  BY DEF PlaceInv
<1> QED BY <1>1, InitPlaces, NextPlaces, PTL DEF Spec

-----------------------------------------------------------------------------
LEMMA NextReading == FetchInv /\ Reading /\ [Next]_vars => Reading'
<1> SUFFICES ASSUME FetchInv, Reading, [Next]_vars, reading' # NULL
             PROVE  Reading'
  BY DEF Reading
<1>1. CASE \E filter \in Filters : Fetch(filter)
  <2>1. PICK filter \in Filters : Fetch(filter)
    BY <1>1
  <2>2. CASE \E j \in ToFetch(filter) :
               /\ iterator' = j
               /\ \E has \in HasSubIssues(nodes["errors"][j]) :
                    reading' = IF has THEN nodes["errors"][j] ELSE NULL
    <3>1. PICK j \in ToFetch(filter) : iterator' = j /\ reading' = nodes["errors"][j]
      BY <2>2
    <3>2. j \in 1..Len(nodes["errors"]) /\ Matches(nodes["errors"][j], filter)
      <4>1. Len(nodes["errors"]) \in Nat /\ iterator \in Nat
        BY DEF FetchInv, Shape, Contexts
      <4> QED BY <4>1 DEF ToFetch, Fetchable
    <3>3. /\ UNCHANGED <<nodes, class, active, astray>> /\ lastFilter' = filter
          /\ active = NULL /\ ~astray
      BY <2>1 DEF Fetch, clientVars
    <3> QED BY <3>1, <3>2, <3>3 DEF Reading, Matches
  <2>3. CASE UNCHANGED reading /\ ToFetch(filter) = {}
    BY <2>1, <2>3 DEF Fetch
  <2> QED BY <2>1, <2>2, <2>3, Zenon DEF Fetch
<1>2. CASE FetchSubIssue \/ UNCHANGED vars
  <2>1. UNCHANGED <<nodes, class, active, iterator, lastFilter>>
    BY <1>2 DEF FetchSubIssue, vars, contextVars, fetchVars, clientVars
  <2>2. reading' = reading /\ astray' = astray
    BY <1>2 DEF FetchSubIssue, vars, fetchVars
  <2> QED BY <2>1, <2>2 DEF Reading, Matches
<1>3. ASSUME NEW c \in Contexts, Begin(c) \/ active = c, reading' = reading
      PROVE  FALSE
  BY <1>3, NodeAssumption DEF Begin, Reading
<1>4. ASSUME NEW c \in Contexts,
             \/ Begin(c) \/ Open(c) \/ CloseOk(c)
             \/ \E i \in Issues, k \in Classes :
                  Raise(c, i, k) \/ RaiseAt(c, i, k) \/ CloseFailed(c, i, k)
             \/ \E kind \in FatalKinds : RaiseFatal(c, kind)
      PROVE  FALSE
  BY <1>3, <1>4 DEF Begin, Open, CloseOk, Raise, RaiseAt, CloseFailed, RaiseFatal, fetchVars
<1>5. ASSUME End PROVE FALSE
  BY <1>5 DEF End, fetchVars, Reading
<1> QED BY <1>1, <1>2, <1>4, <1>5 DEF Next

\* The embedding is not told that there are no more sub issues of an issue
\* before it has had them all, whatever their class, and is not led astray by
\* an issue without any (issue_context_fetch_sub_issue).
THEOREM SubIssuesComplete == Spec => SubIssuesDelivered
<1>1. Init => Reading
  BY DEF Init, Reading
<1>2. ASSUME Reading, [Next]_vars
      PROVE  [\A x \in Issues : reading = x /\ reading' # x =>
                ~astray' /\ \A y \in Elements(subNodes[x]) : ~new[y]]_vars
  <2> SUFFICES ASSUME NEW x \in Issues, reading = x, reading' # x
               PROVE  ~astray' /\ \A y \in Elements(subNodes[x]) : ~new[y]
    OBVIOUS
  <2>1. reading # NULL /\ x \notin FatalNodes
    BY IssueAssumption, NodeAssumption
  <2>2. active = NULL /\ ~astray
    BY <1>2, <2>1 DEF Reading
  <2>3. ToFetchSub(reading, lastFilter) = {} /\ UNCHANGED astray
    <3>1. ~UNCHANGED reading
      OBVIOUS
    <3>2. Next
      BY <1>2, <3>1 DEF vars, fetchVars
    <3>3. FetchSubIssue
      BY <2>1, <3>1, <3>2 DEF Next, Begin, Open, CloseOk, Raise, RaiseAt, CloseFailed,
        RaiseFatal, End, Fetch, fetchVars
    <3> QED BY <2>1, <3>1, <3>3 DEF FetchSubIssue
  <2>4. Matches(nodes["errors"][iterator], lastFilter)
    BY <1>2, <2>1 DEF Reading
  <2>5. \A j \in 1..Len(subNodes[x]) : ~new[subNodes[x][j]]
    BY <2>3, <2>4 DEF ToFetchSub
  <2> QED BY <2>2, <2>3, <2>5 DEF Elements
<1> QED
  BY <1>1, <1>2, InitFetchInv, NextFetchInv, NextReading, PTL
  DEF Spec, SubIssuesDelivered
=============================================================================
