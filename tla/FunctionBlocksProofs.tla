------------------------ MODULE FunctionBlocksProofs ------------------------
(***************************************************************************)
(* What st_link does with function blocks, whatever blocks there are:      *)
(*                                                                         *)
(* - the dependency check raises no false alarm: the search only visits    *)
(*   blocks that are inside of the one that is checked (Inside);           *)
(* - the statements of an instance are bound to its own variables (OwnInv);*)
(* - no chain of blocks with one block variable each is accepted when it   *)
(*   is circular (ChainInv);                                               *)
(* - the instances of programs are complete (TableInv);                    *)
(* - blocks that are defined before they are used are linked (OrderInv).   *)
(***************************************************************************)
EXTENDS FunctionBlocks, SequenceTheorems, TLAPS

\* What the state looks like, as far as the argument needs it.
Shape ==
  /\ header \in Headers
  /\ at \in Nat \ {0} /\ var \in Nat \ {0}
  /\ walk \in Blocks \union {NULL}
  /\ phase = "check" => creating = << >>

\* The search is on within a check, in an instance of the checked block.
Inside == walk # NULL => Checking /\ Holds(AtBlock, walk)

AlarmInv == Shape /\ Inside /\ NoFalseAlarm

-----------------------------------------------------------------------------

\* The types of a block's variables are in it.
LEMMA VariableHeld ==
  ASSUME header \in Headers, NEW b \in Blocks,
         NEW i \in DOMAIN header[b], IsBlock(header[b][i])
  PROVE  header[b][i] \in Blocks /\ Holds(b, header[b][i])
<1>1. header[b] \in Seq(Blocks \union {Plain})
  BY BlockAssumption
<1>2. header[b][i] \in Blocks
  BY <1>1 DEF IsBlock
<1>3. header[b][i] \in Uses(b)
  BY DEF Uses, IsBlock
<1>4. QED
  BY <1>2, <1>3 DEF Holds

\* What a block in b leads to is in b as well.
LEMMA HeldFurther ==
  ASSUME header \in Headers, NEW b \in Blocks, NEW fb \in Blocks,
         NEW t \in Blocks, Holds(b, fb), LeadsTo(fb, t)
  PROVE  Holds(b, t)
<1>1. t \in Uses(fb)
  BY DEF LeadsTo, IsNext, Uses, IsBlock
<1>2. ASSUME NEW S \in SUBSET Blocks, Uses(b) \subseteq S, Closed(S)
      PROVE  t \in S
  <2>1. fb \in S
    BY <1>2 DEF Holds
  <2>2. QED
    BY <1>1, <1>2, <2>1 DEF Closed
<1>3. QED
  BY <1>2 DEF Holds

\* depends_on says yes for a block inside of b only if b holds itself.
LEMMA AlarmJustified ==
  ASSUME header \in Headers, NEW b \in Blocks, NEW fb \in Blocks,
         Holds(b, fb), Depends(fb, b)
  PROVE  Holds(b, b)
<1>1. CASE fb = b
  BY <1>1
<1>2. CASE LeadsTo(fb, b)
  BY <1>2, HeldFurther
<1>3. QED
  BY <1>1, <1>2 DEF Depends

\* The block in turn is one of Blocks.
LEMMA AtBlockIn ==
  ASSUME Shape, Checking
  PROVE  AtBlock \in Blocks
<1>1. at \in 1..Len(Order)
  BY BlockAssumption DEF Shape, Checking
<1>2. QED
  BY <1>1, BlockAssumption DEF AtBlock

\* As long as the headers stay, so does what the blocks hold.
LEMMA HoldsStays ==
  ASSUME header' = header, NEW b, NEW t
  PROVE  Holds(b, t)' <=> Holds(b, t)
BY DEF Holds, Uses, Closed

-----------------------------------------------------------------------------

LEMMA AlarmInit == Init => AlarmInv
BY DEF Init, AlarmInv, Shape, Inside, NoFalseAlarm

\* A step outside of the check adds no circular error and starts no search.
LEMMA OutsideStep ==
  ASSUME AlarmInv, header' = header, walk' = walk, at' \in Nat \ {0},
         var' \in Nat \ {0},
         ~Checking, phase' = "check" => creating' = << >>,
         \A e \in errors' \ errors : e.kind = "undefined"
  PROVE  AlarmInv'
<1>1. walk = NULL
  BY DEF AlarmInv, Inside
<1>2. Shape'
  BY DEF AlarmInv, Shape
<1>3. Inside'
  BY <1>1 DEF Inside
<1>4. NoFalseAlarm'
  <2>1. ASSUME NEW e \in errors', e.kind = "circular"
        PROVE  Holds(e.block, e.block)'
    <3>1. e \in errors
      BY <2>1
    <3>2. Holds(e.block, e.block)
      BY <2>1, <3>1 DEF AlarmInv, NoFalseAlarm
    <3>3. QED
      BY <3>2, HoldsStays
  <2>2. QED
    BY <2>1 DEF NoFalseAlarm
<1>5. QED
  BY <1>2, <1>3, <1>4 DEF AlarmInv

LEMMA EnterAlarm ==
  ASSUME AlarmInv, Enter PROVE AlarmInv'
<1>1. phase # "check"
  BY DEF AlarmInv, Shape, Enter
<1>2. ~Checking /\ header' = header /\ walk' = walk /\ at' \in Nat \ {0}
      /\ var' \in Nat \ {0}
  BY <1>1 DEF Checking, Enter, AlarmInv, Shape
<1>3. phase' # "check"
  BY <1>1 DEF Enter, linking
<1>4. \A e \in errors' \ errors : e.kind = "undefined"
  BY DEF Enter, linking, BindingErrors
<1>5. QED
  BY <1>2, <1>3, <1>4, OutsideStep

LEMMA LeaveAlarm ==
  ASSUME AlarmInv, Leave PROVE AlarmInv'
<1>1. creating # << >>
  BY DEF Leave
<1>2. phase # "check" /\ phase' = phase
  BY <1>1 DEF AlarmInv, Shape, Leave
<1>3. ~Checking /\ header' = header /\ walk' = walk /\ at' \in Nat \ {0}
      /\ var' \in Nat \ {0}
      /\ errors' = errors
  BY <1>2 DEF Checking, Leave, AlarmInv, Shape
<1>4. QED
  BY <1>2, <1>3, OutsideStep

\* The steps from phase to phase, and those of the headers.
LEMMA PhaseAlarm ==
  ASSUME AlarmInv,
         \/ GlobalsCreated \/ Checked \/ FinalizeHeader
         \/ HeaderFinalized \/ FinalizePrograms \/ Linked
  PROVE  AlarmInv'
<1>1. header' = header /\ walk' = walk /\ at' \in Nat \ {0}
      /\ var' \in Nat \ {0}
      /\ errors' = errors
  BY DEF AlarmInv, Shape, GlobalsCreated, Checked, FinalizeHeader,
         HeaderFinalized, FinalizePrograms, Linked, linking
<1>2. ~Checking
  <2>1. CASE Checked
    BY <2>1, BlockAssumption DEF Checked, Checking, AlarmInv, Shape
  <2>2. CASE ~Checked
    BY <2>2 DEF Checking, GlobalsCreated, FinalizeHeader, HeaderFinalized,
               FinalizePrograms, Linked
  <2>3. QED
    BY <2>1, <2>2
<1>3. phase' = "check" => creating' = << >>
  BY DEF AlarmInv, Shape, GlobalsCreated, Checked, FinalizeHeader,
         HeaderFinalized, FinalizePrograms, Linked, GateTo
<1>4. QED
  BY <1>1, <1>2, <1>3, OutsideStep

LEMMA CheckVariableAlarm ==
  ASSUME AlarmInv, CheckVariable PROVE AlarmInv'
<1>1. header' = header /\ phase' = phase /\ at' = at /\ errors' = errors
      /\ creating' = creating
  BY DEF CheckVariable, linking
<1> DEFINE t == header[AtBlock][var]
<1>2. AtBlock \in Blocks
  BY AtBlockIn DEF AlarmInv, CheckVariable
<1>3. Checking' /\ AtBlock' = AtBlock
  BY <1>1 DEF CheckVariable, Checking, AtBlock
<1>4. walk' # NULL => walk' \in Blocks /\ Holds(AtBlock, walk')
  <2>1. walk' # NULL => IsBlock(t) /\ walk' = t
    BY DEF CheckVariable, NextVariable
  <2>2. walk' # NULL => var \in DOMAIN header[AtBlock]
    <3>1. header[AtBlock] \in Seq(Blocks \union {Plain})
      BY <1>2, BlockAssumption DEF AlarmInv, Shape
    <3>2. QED
      BY <3>1 DEF CheckVariable, AlarmInv, Shape
  <2>3. QED
    BY <1>2, <2>1, <2>2, VariableHeld DEF AlarmInv, Shape
<1>5. var' \in Nat \ {0}
  BY DEF CheckVariable, NextVariable, AlarmInv, Shape
<1>6. Shape'
  BY <1>1, <1>4, <1>5 DEF AlarmInv, Shape
<1>7. Inside'
  BY <1>1, <1>3, <1>4, HoldsStays DEF Inside
<1>8. NoFalseAlarm'
  BY <1>1, HoldsStays DEF AlarmInv, NoFalseAlarm
<1>9. QED
  BY <1>6, <1>7, <1>8 DEF AlarmInv

LEMMA BlockCheckedAlarm ==
  ASSUME AlarmInv, BlockChecked PROVE AlarmInv'
<1>1. header' = header /\ phase' = phase /\ walk' = NULL /\ errors' = errors
      /\ creating' = creating /\ at' = at + 1 /\ var' = 1
  BY DEF BlockChecked, linking
<1>2. Shape'
  BY <1>1 DEF AlarmInv, Shape
<1>3. Inside'
  BY <1>1 DEF Inside
<1>4. NoFalseAlarm'
  BY <1>1, HoldsStays DEF AlarmInv, NoFalseAlarm
<1>5. QED
  BY <1>2, <1>3, <1>4 DEF AlarmInv

\* The search says yes: a new error, justified by where the search is.
LEMMA RefuseAlarm ==
  ASSUME AlarmInv, Checking, walk # NULL, Depends(walk, AtBlock),
         Refuse(AtBlock), header' = header, phase' = phase,
         creating' = creating
  PROVE  AlarmInv'
<1>1. AtBlock \in Blocks
  BY AtBlockIn DEF AlarmInv
<1>2. Holds(AtBlock, AtBlock)
  BY <1>1, AlarmJustified DEF AlarmInv, Shape, Inside
<1>3. Shape'
  BY DEF AlarmInv, Shape, Refuse
<1>4. Inside'
  BY DEF Inside, Refuse
<1>5. NoFalseAlarm'
  <2>1. ASSUME NEW e \in errors', e.kind = "circular"
        PROVE  Holds(e.block, e.block)'
    <3>1. e \in errors \/ e.block = AtBlock
      BY <2>1 DEF Refuse
    <3>2. Holds(e.block, e.block)
      BY <1>2, <2>1, <3>1 DEF AlarmInv, NoFalseAlarm
    <3>3. QED
      BY <3>2, HoldsStays
  <2>2. QED
    BY <2>1 DEF NoFalseAlarm
<1>6. QED
  BY <1>3, <1>4, <1>5 DEF AlarmInv

LEMMA FollowDependencyAlarm ==
  ASSUME AlarmInv, FollowDependency PROVE AlarmInv'
<1>1. Checking /\ walk # NULL
  BY DEF FollowDependency
<1>2. header' = header /\ phase' = phase /\ creating' = creating
  BY DEF FollowDependency
<1>3. CASE Depends(walk, AtBlock)
  BY <1>1, <1>2, <1>3, RefuseAlarm DEF FollowDependency
<1>4. CASE ~Depends(walk, AtBlock) /\ GivesUp(walk)
  <2>1. walk' = NULL /\ var' = var + 1 /\ at' = at /\ errors' = errors
    BY <1>4 DEF FollowDependency, NextVariable
  <2>2. Shape' /\ Inside'
    BY <1>2, <2>1 DEF AlarmInv, Shape, Inside
  <2>3. NoFalseAlarm'
    BY <1>2, <2>1, HoldsStays DEF AlarmInv, NoFalseAlarm
  <2>4. QED
    BY <2>2, <2>3 DEF AlarmInv
<1>5. CASE ~Depends(walk, AtBlock) /\ ~GivesUp(walk)
  <2>1. PICK t \in Blocks : LeadsTo(walk, t) /\ walk' = t
    BY <1>5 DEF FollowDependency
  <2>2. at' = at /\ var' = var /\ errors' = errors
    BY <1>5 DEF FollowDependency
  <2>3. Holds(AtBlock, t)
    BY <1>1, <2>1, AtBlockIn, HeldFurther DEF AlarmInv, Shape, Inside
  <2>4. Checking' /\ AtBlock' = AtBlock
    BY <1>1, <1>2, <2>2 DEF Checking, AtBlock
  <2>5. Shape'
    BY <1>2, <2>1, <2>2 DEF AlarmInv, Shape
  <2>6. Inside'
    BY <1>2, <2>1, <2>3, <2>4, HoldsStays DEF Inside
  <2>7. NoFalseAlarm'
    BY <1>2, <2>2, HoldsStays DEF AlarmInv, NoFalseAlarm
  <2>8. QED
    BY <2>5, <2>6, <2>7 DEF AlarmInv
<1>6. QED
  BY <1>3, <1>4, <1>5

LEMMA AlarmStep ==
  AlarmInv /\ [Next]_vars => AlarmInv'
<1> SUFFICES ASSUME AlarmInv, [Next]_vars
             PROVE  AlarmInv'
  OBVIOUS
<1>1. CASE UNCHANGED vars
  <2>1. header' = header /\ AtBlock' = AtBlock /\ UNCHANGED vars
    BY <1>1 DEF vars, AtBlock
  <2>2. Shape' /\ Inside'
    BY <2>1, HoldsStays DEF AlarmInv, Shape, Inside, Checking, vars
  <2>3. NoFalseAlarm'
    BY <2>1, HoldsStays DEF AlarmInv, NoFalseAlarm, vars
  <2>4. QED
    BY <2>2, <2>3 DEF AlarmInv
<1>2. CASE Next
  BY <1>2, EnterAlarm, LeaveAlarm, PhaseAlarm, CheckVariableAlarm,
     BlockCheckedAlarm, FollowDependencyAlarm DEF Next
<1>3. QED
  BY <1>1, <1>2

\* Whatever function blocks there are, and in whatever order they are
\* defined: check_dependencies reports a circular reference only for a block
\* whose instances would hold instances of it.
THEOREM AlarmsAreTrue == Spec => []NoFalseAlarm
<1>1. AlarmInv => NoFalseAlarm
  BY DEF AlarmInv
<1>2. QED
  BY <1>1, AlarmInit, AlarmStep, PTL DEF Spec

-----------------------------------------------------------------------------
(***************************************************************************)
(* Instances.  The frames of `creating' are instances inside of each       *)
(* other.  Were a block inside of its own instance, creating the outer one *)
(* would not end: so whoever is done has created no other instance of its  *)
(* type meanwhile, and the references of the type are still bound to it.   *)
(***************************************************************************)
\* The blocks among the variables of a list.
Ahead(list) == {list[i] : i \in DOMAIN list} \ {Plain}

\* An instance of b that is created now has one of t inside, at some depth.
ClosedNow(S) == \A b \in S : Ahead(Cloned(b)) \subseteq S
HoldsNow(b, t) ==
  \A S \in SUBSET Blocks : Ahead(Cloned(b)) \subseteq S /\ ClosedNow(S) => t \in S

\* Creating an instance of b comes to an end: b is in every set that contains
\* the blocks whose variables it contains.
Inductive(S) == \A b \in Blocks : Ahead(Cloned(b)) \subseteq S => b \in S
Ends(b) == \A S \in SUBSET Blocks : Inductive(S) => b \in S

Frame ==
  [block : Blocks \union {NULL}, id : Nat, size : Nat, left : Seq(Blocks \union {Plain})]

Typed ==
  /\ header \in Headers
  /\ creating \in Seq(Frame)
  /\ bound \in [Blocks -> Nat]
  /\ nextId \in Nat

\* The frames of instances; the first frame is a variable list.
Depths == 2..Len(creating)

Nested ==
  \A p \in Depths :
    /\ creating[p].block \in Blocks
    /\ Ahead(creating[p].left) \subseteq Ahead(Cloned(creating[p].block))
    /\ \A q \in Depths : p < q => HoldsNow(creating[p].block, creating[q].block)

BoundOrCircular ==
  \A p \in Depths :
    \/ bound[creating[p].block] = creating[p].id
    \/ HoldsNow(creating[p].block, creating[p].block)

\* A variable has yet to be created, is being created, or could be.
Progress ==
  \A p \in Depths : \A t \in Ahead(Cloned(creating[p].block)) :
    \/ t \in Ahead(creating[p].left)
    \/ p < Len(creating) /\ t = creating[p + 1].block
    \/ Ends(t)

OwnInv == Typed /\ Nested /\ BoundOrCircular /\ Progress /\ OwnVariables

LEMMA HoldsNowTransitive ==
  ASSUME NEW b \in Blocks, NEW c \in Blocks, NEW t, HoldsNow(b, c),
         t \in Ahead(Cloned(c)) \/ HoldsNow(c, t)
  PROVE  HoldsNow(b, t)
<1>1. ASSUME NEW S \in SUBSET Blocks, Ahead(Cloned(b)) \subseteq S, ClosedNow(S)
      PROVE  t \in S
  <2>1. c \in S
    BY <1>1 DEF HoldsNow
  <2>2. Ahead(Cloned(c)) \subseteq S
    BY <1>1, <2>1 DEF ClosedNow
  <2>3. QED
    BY <1>1, <2>2 DEF HoldsNow
<1>2. QED
  BY <1>1 DEF HoldsNow

LEMMA HoldsNowDirectly ==
  ASSUME NEW b \in Blocks, NEW t \in Ahead(Cloned(b))
  PROVE  HoldsNow(b, t)
BY DEF HoldsNow

\* What a header's variables are.
LEMMA ClonedBlocks ==
  ASSUME header \in Headers, NEW b \in Blocks
  PROVE  Cloned(b) \in Seq(Blocks \union {Plain}) /\ Ahead(Cloned(b)) \subseteq Blocks
<1>1. header[b] \in Seq(Blocks \union {Plain})
  BY BlockAssumption
<1>2. header[b] # << >> => 1 \in 1..Len(header[b])
  BY <1>1
<1>3. header[b] # << >> => header[b][1] \in Blocks \union {Plain}
  BY <1>1, <1>2
<1> DEFINE T == Blocks \union {Plain}
           h == header[b]
<1>4. h \in Seq(T) /\ (h # << >> => h[1] \in T)
  BY <1>1, <1>3
<1> HIDE DEF T, h
<1>5. h # << >> => <<h[1]>> \in Seq(T)
  BY <1>4
<1>6. Cloned(b) = h \/ (h # << >> /\ Cloned(b) = <<h[1]>>)
  BY DEF Cloned, h
<1>7. Cloned(b) \in Seq(T)
  BY <1>4, <1>5, <1>6
<1>8. \A k \in DOMAIN Cloned(b) : Cloned(b)[k] \in T
  BY <1>7
<1>9. QED
  BY <1>7, <1>8 DEF Ahead, T

\* An instance that ends is not inside of itself.
LEMMA EndsNotCircular ==
  ASSUME header \in Headers, NEW b \in Blocks, Ends(b)
  PROVE  ~HoldsNow(b, b)
<1> DEFINE S == {c \in Blocks : ~HoldsNow(c, c)}
<1>1. ASSUME NEW c \in Blocks, Ahead(Cloned(c)) \subseteq S, HoldsNow(c, c)
      PROVE  FALSE
  <2> DEFINE T == {x \in Blocks : \E t \in Ahead(Cloned(c)) : x = t \/ HoldsNow(t, x)}
  <2>1. T \in SUBSET Blocks /\ Ahead(Cloned(c)) \subseteq T
    BY ClonedBlocks
  <2>2. ClosedNow(T)
    <3>1. ASSUME NEW x \in T, NEW y \in Ahead(Cloned(x))
          PROVE  y \in T
      <4>1. PICK t \in Ahead(Cloned(c)) : x = t \/ HoldsNow(t, x)
        OBVIOUS
      <4>2. y \in Blocks /\ x \in Blocks /\ t \in Blocks
        BY ClonedBlocks
      <4>3. HoldsNow(t, y)
        BY <4>1, <4>2, HoldsNowDirectly, HoldsNowTransitive
      <4>4. QED
        BY <4>2, <4>3
    <3>2. QED
      BY <3>1 DEF ClosedNow
  <2>3. c \in T
    <3> HIDE DEF T
    <3>1. QED
      BY <1>1, <2>1, <2>2 DEF HoldsNow
  <2>4. PICK t \in Ahead(Cloned(c)) : c = t \/ HoldsNow(t, c)
    BY <2>3
  <2>5. t \in Blocks
    BY ClonedBlocks
  <2>6. HoldsNow(t, t)
    BY <1>1, <2>4, <2>5, HoldsNowTransitive
  <2>7. QED
    BY <1>1, <2>6
<1>2. Inductive(S)
  BY <1>1 DEF Inductive
<1>3. S \in SUBSET Blocks
  OBVIOUS
<1>4. b \in S
  <2> HIDE DEF S
  <2>1. QED
    BY <1>2, <1>3 DEF Ends
<1>5. QED
  BY <1>4

LEMMA EndsByParts ==
  ASSUME NEW b \in Blocks, \A t \in Ahead(Cloned(b)) : Ends(t)
  PROVE  Ends(b)
BY DEF Ends, Inductive

\* The definitions above say the same before and after a step that changes
\* neither the headers nor their tables.
LEMMA SameNow ==
  ASSUME header' = header, tabled' = tabled
  PROVE  /\ \A b : Cloned(b)' = Cloned(b)
         /\ \A b, t : HoldsNow(b, t)' <=> HoldsNow(b, t)
         /\ \A b : Ends(b)' <=> Ends(b)
<1>1. \A b : Cloned(b)' = Cloned(b)
  BY DEF Cloned
<1>2. \A b, t : HoldsNow(b, t)' <=> HoldsNow(b, t)
  BY <1>1 DEF HoldsNow, ClosedNow
<1>3. \A b : Ends(b)' <=> Ends(b)
  BY <1>1 DEF Ends, Inductive
<1>4. QED
  BY <1>1, <1>2, <1>3

-----------------------------------------------------------------------------
(***************************************************************************)
(* Pieces of a sequence.                                                   *)
(***************************************************************************)
LEMMA Rest ==
  ASSUME NEW T, NEW s \in Seq(T), NEW i \in 1..Len(s)
  PROVE  /\ SubSeq(s, i + 1, Len(s)) \in Seq(T) /\ Len(SubSeq(s, i + 1, Len(s))) = Len(s) - i
         /\ \A k \in 1..(Len(s) - i) : SubSeq(s, i + 1, Len(s))[k] = s[k + i]
OBVIOUS

LEMMA FrontOf ==
  ASSUME NEW T, NEW s \in Seq(T), s # << >>
  PROVE  /\ Front(s) \in Seq(T) /\ Len(Front(s)) = Len(s) - 1 /\ Len(s) \in Nat \ {0}
         /\ \A p \in 1..(Len(s) - 1) : Front(s)[p] = s[p]
<1> DEFINE n == Len(s) - 1
<1>1. n \in Nat /\ Len(s) \in Nat \ {0} /\ \A p \in 1..n : s[p] \in T
  OBVIOUS
<1> HIDE DEF n
<1>2. /\ SubSeq(s, 1, n) \in Seq(T)
      /\ Len(SubSeq(s, 1, n)) = IF 1 <= n THEN n - 1 + 1 ELSE 0
      /\ \A p \in 1..(n - 1 + 1) : SubSeq(s, 1, n)[p] = s[1 + p - 1]
  BY <1>1, SubSeqProperties
<1>3. \A p \in 1..n : p \in 1..(n - 1 + 1) /\ 1 + p - 1 = p
  BY <1>1
<1>4. Front(s) = SubSeq(s, 1, n)
  BY DEF Front, n
<1>5. Len(Front(s)) = n /\ \A p \in 1..n : Front(s)[p] = s[p]
  BY <1>1, <1>2, <1>3, <1>4
<1>6. QED
  BY <1>1, <1>2, <1>4, <1>5 DEF n

\* The last element is replaced, and another one follows.
LEMMA LastByTwo ==
  ASSUME NEW T, NEW c \in Seq(T), c # << >>, NEW x \in T, NEW y \in T,
         NEW d, d = Append([c EXCEPT ![Len(c)] = x], y)
  PROVE  /\ d \in Seq(T) /\ Len(d) = Len(c) + 1
         /\ \A p \in 1..(Len(c) - 1) : d[p] = c[p]
         /\ d[Len(c)] = x /\ d[Len(c) + 1] = y
<1> DEFINE e == [c EXCEPT ![Len(c)] = x]
<1>1. /\ e \in Seq(T) /\ Len(e) = Len(c) /\ Len(c) \in Nat \ {0}
      /\ \A p \in 1..(Len(c) - 1) : e[p] = c[p]
      /\ e[Len(c)] = x
  OBVIOUS
<1>2. d = Append(e, y)
  OBVIOUS
<1> HIDE DEF e
<1>3. d \in Seq(T) /\ Len(d) = Len(c) + 1 /\ d[Len(c) + 1] = y
  BY <1>1, <1>2
<1>4. \A p \in 1..Len(e) : d[p] = e[p]
  BY <1>1, <1>2
<1>5. QED
  BY <1>1, <1>3, <1>4

\* What is ahead behind the block that is next.
LEMMA NextAhead ==
  ASSUME NEW list \in Seq(Blocks \union {Plain}), NEW i \in DOMAIN list, IsNext(list, i)
  PROVE  /\ list[i] \in Blocks /\ list[i] \in Ahead(list)
         /\ SubSeq(list, i + 1, Len(list)) \in Seq(Blocks \union {Plain})
         /\ Ahead(SubSeq(list, i + 1, Len(list))) \subseteq Ahead(list)
         /\ Ahead(list) \subseteq {list[i]} \union Ahead(SubSeq(list, i + 1, Len(list)))
<1> DEFINE r == SubSeq(list, i + 1, Len(list))
<1>1. list[i] \in Blocks /\ list[i] \in Ahead(list)
  BY DEF IsNext, IsBlock, Ahead
<1>2. /\ r \in Seq(Blocks \union {Plain}) /\ Len(r) = Len(list) - i
      /\ \A k \in 1..Len(r) : r[k] = list[k + i]
      /\ i \in 1..Len(list) /\ Len(list) \in Nat
  <2>1. list \in Seq(Blocks \union {Plain}) /\ i \in 1..Len(list) /\ Len(list) \in Nat
    OBVIOUS
  <2>2. QED
    BY <2>1, Rest
<1> HIDE DEF r
<1>3. Ahead(r) \subseteq Ahead(list)
  <2>1. \A k \in 1..Len(r) : k + i \in 1..Len(list)
    BY <1>2
  <2>2. QED
    BY <1>2, <2>1 DEF Ahead
<1>4. ASSUME NEW k \in DOMAIN list, list[k] # Plain
      PROVE  list[k] \in {list[i]} \union Ahead(r)
  <2>1. k \in 1..Len(list)
    OBVIOUS
  <2>2. CASE k < i
    BY <1>2, <1>4, <2>1, <2>2 DEF IsNext, IsBlock
  <2>3. CASE k > i
    <3>1. k - i \in 1..Len(r) /\ (k - i) + i = k
      BY <1>2, <2>1, <2>3
    <3>2. r[k - i] = list[k]
      BY <1>2, <3>1
    <3>3. QED
      BY <1>2, <1>4, <3>1, <3>2 DEF Ahead
  <2>4. QED
    BY <1>2, <2>1, <2>2, <2>3
<1>5. Ahead(list) \subseteq {list[i]} \union Ahead(r)
  BY <1>4 DEF Ahead
<1>6. QED
  BY <1>1, <1>2, <1>3, <1>5 DEF r

\* The frames before and after one is entered.
LEMMA EnterFrames ==
  ASSUME Typed, creating # << >>, NEW i \in DOMAIN Top.left, IsNext(Top.left, i),
         NEW rest, rest = [Top EXCEPT !.left = SubSeq(@, i + 1, Len(@))],
         NEW f \in Frame,
         creating' = Append([creating EXCEPT ![Len(creating)] = rest], f)
  PROVE  /\ Len(creating) \in Nat \ {0} /\ Top \in Frame /\ rest \in Frame
         /\ Top = creating[Len(creating)]
         /\ creating' \in Seq(Frame) /\ Len(creating') = Len(creating) + 1
         /\ \A p \in 1..(Len(creating) - 1) : creating'[p] = creating[p]
         /\ creating'[Len(creating)] = rest /\ creating'[Len(creating) + 1] = f
         /\ rest.block = Top.block /\ rest.id = Top.id /\ rest.size = Top.size
         /\ rest.left = SubSeq(Top.left, i + 1, Len(Top.left))
<1>1. /\ Len(creating) \in Nat \ {0} /\ Len(creating) \in 1..Len(creating)
      /\ creating \in Seq(Frame)
  BY DEF Typed
<1>2. Top \in Frame
  BY <1>1 DEF Top
<1>3. Top.left \in Seq(Blocks \union {Plain})
  BY <1>2 DEF Frame
<1>4. /\ rest.block = Top.block /\ rest.id = Top.id /\ rest.size = Top.size
      /\ rest.left = SubSeq(Top.left, i + 1, Len(Top.left))
  BY <1>2 DEF Frame
<1>5. rest \in Frame
  BY <1>2, <1>3, NextAhead DEF Frame
<1>6. /\ creating' \in Seq(Frame) /\ Len(creating') = Len(creating) + 1
      /\ \A p \in 1..(Len(creating) - 1) : creating'[p] = creating[p]
      /\ creating'[Len(creating)] = rest /\ creating'[Len(creating) + 1] = f
  BY <1>1, <1>5, LastByTwo
<1>7. Top = creating[Len(creating)]
  BY DEF Top
<1>8. QED
  BY <1>1, <1>2, <1>4, <1>5, <1>6, <1>7

\* What entering a block does: the list on top goes on behind it, and one more
\* instance is on top of that.
LEMMA EnterPlaces ==
  ASSUME Typed, Enter, phase' = phase
  PROVE  \E t \in Blocks, f \in Frame, left \in Seq(Blocks \union {Plain}) :
           /\ Len(creating) \in Nat \ {0} /\ Top \in Frame /\ Top = creating[Len(creating)]
           /\ t \in Ahead(Top.left)
           /\ Ahead(left) \subseteq Ahead(Top.left)
           /\ Ahead(Top.left) \subseteq {t} \union Ahead(left)
           /\ f.block = t /\ f.id = nextId /\ f.size = Len(Cloned(t)) /\ f.left = Cloned(t)
           /\ creating' \in Seq(Frame) /\ Len(creating') = Len(creating) + 1
           /\ \A p \in 1..(Len(creating) - 1) : creating'[p] = creating[p]
           /\ \A p \in 1..Len(creating) : /\ creating'[p].block = creating[p].block
                                         /\ creating'[p].id = creating[p].id
                                         /\ creating'[p].size = creating[p].size
           /\ creating'[Len(creating)].left = left
           /\ creating'[Len(creating) + 1] = f
           /\ bound' = [bound EXCEPT ![t] = nextId] /\ nextId' = nextId + 1
           /\ errors' = errors \union BindingErrors(t)
<1> DEFINE n == Len(creating)
<1>1. PICK i \in DOMAIN Top.left :
         /\ IsNext(Top.left, i)
         /\ creating # << >>
         /\ bound' = [bound EXCEPT ![Top.left[i]] = nextId]
         /\ creating' = Append([creating EXCEPT ![n] =
                                  [Top EXCEPT !.left = SubSeq(@, i + 1, Len(@))]],
              [block |-> Top.left[i], id |-> nextId,
               size |-> Len(Cloned(Top.left[i])), left |-> Cloned(Top.left[i])])
         /\ nextId' = nextId + 1
         /\ errors' = errors \union BindingErrors(Top.left[i])
  BY DEF Enter, Bind
<1> DEFINE t == Top.left[i]
           rest == [Top EXCEPT !.left = SubSeq(@, i + 1, Len(@))]
           f == [block |-> t, id |-> nextId, size |-> Len(Cloned(t)), left |-> Cloned(t)]
           left == SubSeq(Top.left, i + 1, Len(Top.left))
<1>2. /\ n \in Nat \ {0} /\ n \in 1..n /\ creating \in Seq(Frame) /\ Top \in Frame
      /\ Top = creating[n]
  BY <1>1 DEF Typed, Top
<1>3. Top.left \in Seq(Blocks \union {Plain})
  BY <1>2 DEF Frame
<1>4. /\ t \in Blocks /\ t \in Ahead(Top.left) /\ left \in Seq(Blocks \union {Plain})
      /\ Ahead(left) \subseteq Ahead(Top.left)
      /\ Ahead(Top.left) \subseteq {t} \union Ahead(left)
  BY <1>1, <1>3, NextAhead
<1>5. header \in Headers /\ Cloned(t) \in Seq(Blocks \union {Plain})
  BY <1>4, ClonedBlocks DEF Typed
<1>6. f \in Frame /\ f.block = t /\ f.id = nextId /\ f.size = Len(Cloned(t)) /\ f.left = Cloned(t)
  BY <1>4, <1>5 DEF Frame, Typed
<1>7. /\ rest \in Frame
      /\ creating' \in Seq(Frame) /\ Len(creating') = n + 1
      /\ \A p \in 1..(n - 1) : creating'[p] = creating[p]
      /\ creating'[n] = rest /\ creating'[n + 1] = f
      /\ rest.block = Top.block /\ rest.id = Top.id /\ rest.size = Top.size
      /\ rest.left = left
  <2> HIDE DEF rest, f, t
  <2>1. rest = [Top EXCEPT !.left = SubSeq(@, i + 1, Len(@))]
    BY DEF rest
  <2>2. creating' = Append([creating EXCEPT ![Len(creating)] = rest], f)
    BY <1>1 DEF rest, f, t
  <2>3. Typed /\ creating # << >> /\ i \in DOMAIN Top.left /\ IsNext(Top.left, i)
    BY <1>1
  <2>4. f \in Frame
    BY <1>6
  <2>5. /\ rest \in Frame
        /\ creating' \in Seq(Frame) /\ Len(creating') = Len(creating) + 1
        /\ \A p \in 1..(Len(creating) - 1) : creating'[p] = creating[p]
        /\ creating'[Len(creating)] = rest /\ creating'[Len(creating) + 1] = f
        /\ rest.block = Top.block /\ rest.id = Top.id /\ rest.size = Top.size
        /\ rest.left = SubSeq(Top.left, i + 1, Len(Top.left))
    BY <2>1, <2>2, <2>3, <2>4, EnterFrames
  <2>6. QED
    BY <2>5
<1>8. bound' = [bound EXCEPT ![t] = nextId] /\ errors' = errors \union BindingErrors(t)
  BY <1>1
<1> HIDE DEF rest, f, t, left
<1>9. \A p \in 1..n : /\ creating'[p].block = creating[p].block
                      /\ creating'[p].id = creating[p].id
                      /\ creating'[p].size = creating[p].size
  <2>1. /\ creating'[n].block = creating[n].block /\ creating'[n].id = creating[n].id
        /\ creating'[n].size = creating[n].size
    BY <1>2, <1>7
  <2>2. ASSUME NEW p \in 1..n, p # n
        PROVE  creating'[p] = creating[p]
    <3>1. p \in 1..(n - 1)
      BY <1>2, <2>2
    <3>2. QED
      BY <1>7, <3>1
  <2>3. QED
    BY <2>1, <2>2
<1>10. creating'[n].left = left
  BY <1>7
<1> HIDE DEF n
<1>11. t \in Blocks /\ f \in Frame /\ left \in Seq(Blocks \union {Plain})
  BY <1>4, <1>6
<1>12. QED
  BY <1>1, <1>2, <1>4, <1>6, <1>7, <1>8, <1>9, <1>10, <1>11 DEF n

\* A block is entered: one more instance, inside of all that are being created.
LEMMA EnterOwn ==
  ASSUME OwnInv, Enter, phase' = phase
  PROVE  OwnInv'
<1> DEFINE n == Len(creating)
<1>1. tabled' = tabled /\ instances' = instances /\ header' = header
  BY DEF Enter, linking
<1>2. PICK t \in Blocks, f \in Frame, left \in Seq(Blocks \union {Plain}) :
           /\ n \in Nat \ {0} /\ Top \in Frame /\ Top = creating[n]
           /\ t \in Ahead(Top.left)
           /\ Ahead(left) \subseteq Ahead(Top.left)
           /\ Ahead(Top.left) \subseteq {t} \union Ahead(left)
           /\ f.block = t /\ f.id = nextId /\ f.size = Len(Cloned(t)) /\ f.left = Cloned(t)
           /\ creating' \in Seq(Frame) /\ Len(creating') = n + 1
           /\ \A p \in 1..(n - 1) : creating'[p] = creating[p]
           /\ \A p \in 1..n : /\ creating'[p].block = creating[p].block
                              /\ creating'[p].id = creating[p].id
                              /\ creating'[p].size = creating[p].size
           /\ creating'[n].left = left
           /\ creating'[n + 1] = f
           /\ bound' = [bound EXCEPT ![t] = nextId] /\ nextId' = nextId + 1
           /\ errors' = errors \union BindingErrors(t)
  BY EnterPlaces DEF OwnInv
<1>3. t \in Blocks /\ n \in 1..n /\ \A p \in 1..n : p # n => creating'[p] = creating[p]
  <2>1. \A p \in 1..n : p # n => p \in 1..(n - 1)
    BY <1>2
  <2>2. QED
    BY <1>2, <2>1
<1>4. /\ \A b : Cloned(b)' = Cloned(b)
      /\ \A b, c : HoldsNow(b, c)' <=> HoldsNow(b, c)
      /\ \A b : Ends(b)' <=> Ends(b)
  BY <1>1, SameNow
<1>5. /\ \A p \in Depths' : p = n + 1 \/ (p \in Depths /\ p \in 1..n)
      /\ \A p \in Depths : p \in 1..n
      /\ n \in Depths' => n \in Depths
  BY <1>2 DEF Depths
<1>6. \A p \in Depths : creating[p].block \in Blocks /\ HoldsNow(creating[p].block, t)
  <2>1. ASSUME NEW p \in Depths
        PROVE  creating[p].block \in Blocks /\ HoldsNow(creating[p].block, t)
    <3>1. n \in Depths /\ (p = n \/ p < n)
      BY <1>2 DEF Depths
    <3>2. creating[p].block \in Blocks /\ Top.block \in Blocks
          /\ Ahead(Top.left) \subseteq Ahead(Cloned(Top.block))
      BY <1>2, <3>1 DEF OwnInv, Nested
    <3>3. HoldsNow(Top.block, t)
      BY <1>2, <3>2, HoldsNowDirectly
    <3>4. p < n => HoldsNow(creating[p].block, Top.block)
      BY <1>2, <3>1 DEF OwnInv, Nested
    <3>5. QED
      BY <1>2, <3>1, <3>2, <3>3, <3>4, HoldsNowTransitive
  <2>2. QED
    BY <2>1
<1>7. Typed'
  <2>1. bound' \in [Blocks -> Nat]
    BY <1>2 DEF OwnInv, Typed
  <2>2. QED
    BY <1>1, <1>2, <2>1 DEF OwnInv, Typed
<1>8. Nested'
  <2>1. ASSUME NEW p \in Depths'
        PROVE  /\ creating'[p].block \in Blocks
               /\ Ahead(creating'[p].left) \subseteq Ahead(Cloned(creating'[p].block))
    <3>1. CASE p = n + 1
      BY <1>2, <3>1
    <3>2. CASE p \in Depths /\ p # n
      BY <1>2, <1>3, <1>5, <3>2 DEF OwnInv, Nested
    <3>3. CASE p \in Depths /\ p = n
      <4>1. Ahead(Top.left) \subseteq Ahead(Cloned(Top.block)) /\ Top.block \in Blocks
        BY <1>2, <3>3 DEF OwnInv, Nested
      <4>2. QED
        BY <1>2, <3>3, <4>1
    <3>4. QED
      BY <1>5, <3>1, <3>2, <3>3
  <2>2. ASSUME NEW p \in Depths', NEW q \in Depths', p < q
        PROVE  HoldsNow(creating'[p].block, creating'[q].block)
    <3>1. p \in Depths /\ p \in 1..n
      BY <1>2, <2>2 DEF Depths
    <3>2. CASE q = n + 1
      BY <1>2, <1>6, <3>1, <3>2
    <3>3. CASE q \in Depths /\ q \in 1..n
      BY <1>2, <2>2, <3>1, <3>3 DEF OwnInv, Nested
    <3>4. QED
      BY <1>5, <3>2, <3>3
  <2>3. QED
    BY <1>4, <2>1, <2>2 DEF Nested
<1>9. BoundOrCircular'
  <2>1. ASSUME NEW p \in Depths'
        PROVE  \/ bound'[creating'[p].block] = creating'[p].id
               \/ HoldsNow(creating'[p].block, creating'[p].block)
    <3>1. CASE p = n + 1
      BY <1>2, <3>1 DEF OwnInv, Typed
    <3>2. CASE p \in Depths /\ p \in 1..n /\ creating[p].block = t
      BY <1>2, <1>6, <3>2
    <3>3. CASE p \in Depths /\ p \in 1..n /\ creating[p].block # t
      <4>1. bound'[creating[p].block] = bound[creating[p].block]
        BY <1>2, <1>6, <3>3 DEF OwnInv, Typed
      <4>2. QED
        BY <1>2, <3>3, <4>1 DEF OwnInv, BoundOrCircular
    <3>4. QED
      BY <1>5, <3>1, <3>2, <3>3
  <2>2. QED
    BY <1>4, <2>1 DEF BoundOrCircular
<1>10. Progress'
  <2>1. ASSUME NEW p \in Depths', NEW s \in Ahead(Cloned(creating'[p].block))
        PROVE  \/ s \in Ahead(creating'[p].left)
               \/ p < Len(creating') /\ s = creating'[p + 1].block
               \/ Ends(s)
    <3>1. CASE p = n + 1
      BY <1>2, <2>1, <3>1
    <3>2. CASE p \in Depths /\ p \in 1..n
      <4>1. \/ s \in Ahead(creating[p].left)
            \/ p < n /\ s = creating[p + 1].block
            \/ Ends(s)
        BY <1>2, <2>1, <3>2 DEF OwnInv, Progress
      <4>2. CASE p = n
        <5>1. s \in Ahead(Top.left) \/ Ends(s)
          BY <1>2, <4>1, <4>2
        <5>2. creating'[p].left = left
          BY <1>2, <4>2
        <5>3. creating'[p + 1].block = t /\ p < Len(creating')
          BY <1>2, <4>2
        <5>4. QED
          BY <1>2, <5>1, <5>2, <5>3
      <4>3. CASE p < n
        <5>1. p + 1 \in 1..n /\ p # n /\ p < Len(creating')
          BY <1>2, <3>2, <4>3
        <5>2. QED
          BY <1>2, <3>2, <4>1, <5>1
      <4>4. QED
        BY <1>2, <3>2, <4>2, <4>3
    <3>3. QED
      BY <1>5, <3>1, <3>2
  <2>2. QED
    BY <1>4, <2>1 DEF Progress
<1>11. OwnVariables'
  BY <1>1 DEF OwnInv, OwnVariables
<1>12. QED
  BY <1>7, <1>8, <1>9, <1>10, <1>11 DEF OwnInv

\* An instance is complete.  Every block it has is done, so that creating one
\* of its type ends, and no other of the type can have come in between.
LEMMA LeaveOwn ==
  ASSUME OwnInv, Leave
  PROVE  OwnInv'
<1> DEFINE n == Len(creating)
<1>1. /\ n > 1 /\ n \in Nat /\ n \in Depths /\ creating \in Seq(Frame) /\ creating # << >>
      /\ Top = creating[n]
  BY DEF Leave, OwnInv, Typed, Depths, Top
<1>2. Top.block \in Blocks /\ header \in Headers
  BY <1>1 DEF OwnInv, Typed, Nested
<1>3. Ends(Top.block)
  <2>1. Ahead(Top.left) = {}
    BY DEF Leave, NoBlocks, IsBlock, Ahead
  <2>2. \A t \in Ahead(Cloned(Top.block)) : Ends(t)
    BY <1>1, <2>1 DEF OwnInv, Progress
  <2>3. QED
    BY <1>2, <2>2, EndsByParts
<1>4. bound[Top.block] = Top.id
  <2>1. ~HoldsNow(Top.block, Top.block)
    BY <1>2, <1>3, EndsNotCircular
  <2>2. QED
    BY <1>1, <2>1 DEF OwnInv, BoundOrCircular
<1>5. OwnVariables'
  BY <1>4 DEF Leave, OwnInv, OwnVariables
<1>6. /\ header' = header /\ tabled' = tabled /\ bound' = bound /\ nextId' = nextId
      /\ creating' = Front(creating)
  BY DEF Leave
<1>7. /\ creating' \in Seq(Frame) /\ Len(creating') = n - 1
      /\ \A p \in 1..(n - 1) : creating'[p] = creating[p]
  BY <1>1, <1>6, FrontOf
<1>8. /\ \A b : Cloned(b)' = Cloned(b)
      /\ \A b, c : HoldsNow(b, c)' <=> HoldsNow(b, c)
      /\ \A b : Ends(b)' <=> Ends(b)
  BY <1>6, SameNow
<1>9. /\ \A p \in Depths' : p \in Depths /\ p \in 1..(n - 1)
  BY <1>1, <1>7 DEF Depths
<1>10. Typed'
  BY <1>6, <1>7 DEF OwnInv, Typed
<1>11. Nested'
  <2>1. \A p \in Depths' :
          /\ creating'[p].block \in Blocks
          /\ Ahead(creating'[p].left) \subseteq Ahead(Cloned(creating'[p].block))
          /\ \A q \in Depths' : p < q => HoldsNow(creating'[p].block, creating'[q].block)
    BY <1>7, <1>9 DEF OwnInv, Nested
  <2>2. QED
    BY <1>8, <2>1 DEF Nested
<1>12. BoundOrCircular'
  BY <1>6, <1>7, <1>8, <1>9 DEF OwnInv, BoundOrCircular
<1>13. Progress'
  <2>1. ASSUME NEW p \in Depths', NEW s \in Ahead(Cloned(creating'[p].block))
        PROVE  \/ s \in Ahead(creating'[p].left)
               \/ p < Len(creating') /\ s = creating'[p + 1].block
               \/ Ends(s)
    <3>1. p \in Depths /\ p \in 1..(n - 1) /\ creating'[p] = creating[p]
      BY <1>7, <1>9
    <3>2. \/ s \in Ahead(creating[p].left)
          \/ p < n /\ s = creating[p + 1].block
          \/ Ends(s)
      BY <2>1, <3>1 DEF OwnInv, Progress
    <3>3. CASE p = n - 1
      BY <1>1, <1>3, <3>1, <3>2, <3>3
    <3>4. CASE p < n - 1
      <4>1. p + 1 \in 1..(n - 1) /\ p < Len(creating')
        BY <1>1, <1>7, <3>1, <3>4
      <4>2. QED
        BY <1>7, <3>1, <3>2, <4>1
    <3>5. QED
      BY <1>1, <3>1, <3>3, <3>4
  <2>2. QED
    BY <1>8, <2>1 DEF Progress
<1>14. QED
  BY <1>5, <1>10, <1>11, <1>12, <1>13 DEF OwnInv

\* Steps while no instance is being created.
LEMMA FlatOwn ==
  ASSUME OwnInv, Typed', Len(creating') \in 0..1, instances' = instances
  PROVE  OwnInv'
<1>1. ASSUME NEW p \in Depths' PROVE FALSE
  <2> DEFINE k == Len(creating')
  <2>1. p \in 2..k /\ k \in 0..1
    BY <1>1 DEF Depths
  <2> HIDE DEF k
  <2>2. QED
    BY <2>1
<1>2. QED
  BY <1>1 DEF OwnInv, Nested, BoundOrCircular, Progress, OwnVariables

\* Steps of the check.
LEMMA QuietOwn ==
  ASSUME OwnInv, UNCHANGED <<header, tabled, bound, creating, instances, nextId>>
  PROVE  OwnInv'
<1>1. /\ \A b : Cloned(b)' = Cloned(b)
      /\ \A b, c : HoldsNow(b, c)' <=> HoldsNow(b, c)
      /\ \A b : Ends(b)' <=> Ends(b)
  BY SameNow
<1>2. Typed' /\ OwnVariables' /\ Depths' = Depths
  BY DEF OwnInv, Typed, OwnVariables, Depths
<1>3. Nested'
  BY <1>1, <1>2 DEF OwnInv, Nested
<1>4. BoundOrCircular'
  BY <1>1, <1>2 DEF OwnInv, BoundOrCircular
<1>5. Progress'
  BY <1>1, <1>2 DEF OwnInv, Progress
<1>6. QED
  BY <1>2, <1>3, <1>4, <1>5 DEF OwnInv

\* A variable list that is gone through.
LEMMA ListFrame ==
  ASSUME NEW types \in Seq(Blocks \union {Plain})
  PROVE  <<List(types)>> \in Seq(Frame) /\ Len(<<List(types)>>) = 1
<1>1. List(types) \in Frame
  BY DEF List, Frame
<1> DEFINE f == List(types)
<1> HIDE DEF f
<1>2. f \in Frame => <<f>> \in Seq(Frame) /\ Len(<<f>>) = 1
  OBVIOUS
<1>3. QED
  BY <1>1, <1>2 DEF f

LEMMA ListsOfBlocks ==
  ASSUME NEW list \in Seq(Blocks)
  PROVE  list \in Seq(Blocks \union {Plain})
OBVIOUS

LEMMA OwnInit == Init => OwnInv
<1> SUFFICES ASSUME Init PROVE OwnInv
  OBVIOUS
<1>1. PICK g \in Globals : creating = <<List(g)>>
  BY DEF Init
<1>2. g \in Seq(Blocks \union {Plain})
  BY <1>1, BlockAssumption, ListsOfBlocks
<1>3. creating \in Seq(Frame) /\ Len(creating) = 1
  BY <1>1, <1>2, ListFrame
<1>4. Typed /\ Depths = {}
  BY <1>3 DEF Init, Typed, Depths
<1>5. QED
  BY <1>4 DEF Init, OwnInv, Nested, BoundOrCircular, Progress, OwnVariables

LEMMA OwnStep ==
  OwnInv /\ Shape /\ [Next]_vars => OwnInv'
<1> SUFFICES ASSUME OwnInv, Shape, [Next]_vars PROVE OwnInv'
  OBVIOUS
<1>1. CASE UNCHANGED vars
  BY <1>1, QuietOwn DEF vars
<1>2. CASE Enter
  <2>1. CASE phase' = phase
    BY <1>2, <2>1, EnterOwn
  <2>2. CASE UNCHANGED linking
    BY <1>2, <2>2, QuietOwn DEF Enter, linking
  <2>3. QED
    BY <1>2, <2>1, <2>2 DEF Enter
<1>3. CASE Leave
  BY <1>3, LeaveOwn
<1>4. CASE GlobalsCreated \/ HeaderFinalized \/ Linked
  <2>1. creating' = << >> /\ UNCHANGED <<header, bound, instances, nextId>>
    BY <1>4 DEF GlobalsCreated, HeaderFinalized, Linked
  <2>2. creating' \in Seq(Frame) /\ Len(creating') = 0
    BY <2>1
  <2>3. Typed'
    BY <2>1, <2>2 DEF OwnInv, Typed
  <2>4. QED
    BY <2>1, <2>2, <2>3, FlatOwn
<1>5. CASE CheckVariable \/ FollowDependency \/ BlockChecked \/ Checked
  BY <1>5, QuietOwn DEF CheckVariable, FollowDependency, BlockChecked, Checked, linking
<1>6. CASE FinalizeHeader \/ FinalizePrograms
  <2>1. UNCHANGED <<header, bound, instances, nextId>>
    BY <1>6 DEF FinalizeHeader, FinalizePrograms
  <2>2. creating' \in Seq(Frame) /\ Len(creating') = 1
    <3>1. CASE FinalizeHeader
      <4>1. AtBlock \in Blocks
        <5>1. at \in 1..Len(Order)
          BY <3>1, BlockAssumption DEF FinalizeHeader, Shape
        <5>2. QED
          BY <5>1, BlockAssumption DEF AtBlock
      <4>2. header[AtBlock] \in Seq(Blocks \union {Plain})
        BY <4>1, BlockAssumption DEF Shape
      <4>3. QED
        BY <3>1, <4>2, ListFrame DEF FinalizeHeader
    <3>2. CASE FinalizePrograms
      BY <3>2, BlockAssumption, ListsOfBlocks, ListFrame DEF FinalizePrograms
    <3>3. QED
      BY <1>6, <3>1, <3>2
  <2>3. Typed'
    BY <2>1, <2>2 DEF OwnInv, Typed
  <2>4. QED
    BY <2>1, <2>2, <2>3, FlatOwn
<1>7. QED
  BY <1>1, <1>2, <1>3, <1>4, <1>5, <1>6 DEF Next

\* Whatever blocks there are, circular ones and half created ones among them:
\* the statements st_clone copies into an instance work on its own variables.
THEOREM InstancesAreApart == Spec => []OwnVariables
<1>1. Init => AlarmInv /\ OwnInv
  BY AlarmInit, OwnInit
<1>2. AlarmInv /\ OwnInv /\ [Next]_vars => AlarmInv' /\ OwnInv'
  BY AlarmStep, OwnStep DEF AlarmInv
<1>3. OwnInv => OwnVariables
  BY DEF OwnInv
<1>4. QED
  BY <1>1, <1>2, <1>3, PTL DEF Spec

-----------------------------------------------------------------------------
(***************************************************************************)
(* The dependency check accepts no circular chain.  Where a block has one  *)
(* block for its variables at most, what it holds is that block and what   *)
(* that one holds, so that the search has yet to come by the checked block *)
(* if it is in a circle.                                                   *)
(***************************************************************************)
\* The search has not missed a circle so far.
NotMissed ==
  phase = "check" /\ Chains /\ errors = {} =>
    /\ \A j \in 1..(at - 1) : j <= Len(Order) => ~Holds(Order[j], Order[j])
    /\ at <= Len(Order) =>
         \A i \in 1..(var - 1) : i \in DOMAIN header[AtBlock] /\ IsBlock(header[AtBlock][i])
                                   => ~Holds(AtBlock, AtBlock)
    /\ walk # NULL /\ Holds(AtBlock, AtBlock) => walk = AtBlock \/ Holds(walk, AtBlock)

ChainInv == NotMissed /\ AcceptedChains

LEMMA HeaderOf ==
  ASSUME header \in Headers, NEW b \in Blocks
  PROVE  /\ header[b] \in Seq(Blocks \union {Plain}) /\ Len(header[b]) \in Nat
         /\ DOMAIN header[b] = 1..Len(header[b])
         /\ Uses(b) = Ahead(header[b]) /\ Uses(b) \subseteq Blocks
<1>1. header[b] \in Seq(Blocks \union {Plain})
  BY BlockAssumption
<1>2. \A i \in DOMAIN header[b] : header[b][i] \in Blocks \union {Plain}
  BY <1>1
<1>3. Uses(b) = Ahead(header[b]) /\ Uses(b) \subseteq Blocks
  BY <1>2 DEF Uses, Ahead
<1>4. Len(header[b]) \in Nat /\ DOMAIN header[b] = 1..Len(header[b])
  BY <1>1
<1>5. QED
  BY <1>1, <1>3, <1>4

LEMMA NothingHeld ==
  ASSUME header \in Headers, NEW b \in Blocks, Uses(b) = {}
  PROVE  \A t : ~Holds(b, t)
<1>1. Closed({}) /\ {} \in SUBSET Blocks /\ Uses(b) \subseteq {}
  BY DEF Closed
<1>2. QED
  BY <1>1 DEF Holds

\* A chain goes on with its one block.
LEMMA ChainStep ==
  ASSUME header \in Headers, Chains, NEW f \in Blocks, NEW i \in DOMAIN header[f],
         IsBlock(header[f][i]), NEW b \in Blocks, Holds(f, b)
  PROVE  header[f][i] = b \/ Holds(header[f][i], b)
<1> DEFINE t == header[f][i]
<1>1. t \in Blocks
  BY VariableHeld
<1>2. Uses(f) = {t}
  <2>1. t \in Uses(f)
    BY DEF Uses, IsBlock
  <2>2. \A j \in DOMAIN header[f] : IsBlock(header[f][j]) => j = i
    BY DEF Chains
  <2>3. \A x \in Uses(f) : x = t
    BY <2>2 DEF Uses, IsBlock
  <2>4. QED
    BY <2>1, <2>3
<1> HIDE DEF t
<1>3. SUFFICES ASSUME t # b, NEW S \in SUBSET Blocks, Uses(t) \subseteq S, Closed(S)
               PROVE  b \in S
  BY DEF Holds, t
<1>4. S \union {t} \in SUBSET Blocks /\ Uses(f) \subseteq S \union {t}
      /\ Closed(S \union {t})
  BY <1>1, <1>2, <1>3 DEF Closed
<1>5. b \in S \union {t}
  BY <1>4 DEF Holds
<1>6. QED
  BY <1>3, <1>5

\* A block that depends_on gives up on holds no other than itself.
LEMMA GivenUp ==
  ASSUME header \in Headers, Chains, NEW f \in Blocks, GivesUp(f),
         NEW b \in Blocks, b # f
  PROVE  ~Holds(f, b)
<1>1. CASE LeadsTo(f, f)
  <2>1. PICK i \in DOMAIN header[f] : header[f][i] = f /\ IsBlock(f)
    BY <1>1 DEF LeadsTo, IsNext
  <2>2. \A j \in DOMAIN header[f] : IsBlock(header[f][j]) => j = i
    BY <2>1 DEF Chains
  <2>3. Uses(f) \subseteq {f}
    BY <2>1, <2>2 DEF Uses, IsBlock
  <2>4. Closed({f}) /\ {f} \in SUBSET Blocks
    BY <2>3 DEF Closed
  <2>5. QED
    BY <2>3, <2>4 DEF Holds
<1>2. CASE \A t \in Blocks : ~LeadsTo(f, t)
  <2>1. ASSUME NEW i \in DOMAIN header[f], IsBlock(header[f][i])
        PROVE  FALSE
    <3>1. header[f][i] \in Blocks
      BY <2>1, VariableHeld
    <3>2. i \in 1..Len(header[f]) /\ Len(header[f]) \in Nat
      BY HeaderOf
    <3>3. \A j \in 1..(i - 1) : j \in DOMAIN header[f] /\ j # i
      BY <3>2, HeaderOf
    <3>4. IsNext(header[f], i)
      BY <2>1, <3>3 DEF IsNext, Chains
    <3>5. QED
      BY <1>2, <3>1, <3>4 DEF LeadsTo
  <2>2. Uses(f) = {}
    BY <2>1 DEF Uses, IsBlock
  <2>3. QED
    BY <2>2, NothingHeld
<1>3. QED
  BY <1>1, <1>2 DEF GivesUp

\* A block all of whose variables have been looked at.
LEMMA ThroughTheVariables ==
  ASSUME AlarmInv, NotMissed, phase = "check", Chains, errors = {}, at <= Len(Order),
         var > Len(header[AtBlock])
  PROVE  ~Holds(AtBlock, AtBlock)
<1>1. AtBlock \in Blocks /\ header \in Headers /\ var \in Nat
  BY AtBlockIn DEF AlarmInv, Shape, Checking
<1>2. CASE \E i \in DOMAIN header[AtBlock] : IsBlock(header[AtBlock][i])
  <2>1. PICK i \in DOMAIN header[AtBlock] : IsBlock(header[AtBlock][i])
    BY <1>2
  <2>2. i \in 1..(var - 1)
    BY <1>1, <2>1, HeaderOf
  <2>3. QED
    BY <2>1, <2>2 DEF NotMissed
<1>3. CASE \A i \in DOMAIN header[AtBlock] : ~IsBlock(header[AtBlock][i])
  <2>1. Uses(AtBlock) = {}
    BY <1>3 DEF Uses, IsBlock
  <2>2. QED
    BY <1>1, <2>1, NothingHeld
<1>4. QED
  BY <1>2, <1>3

\* The rest of a step is what it does in the check.
LEMMA ChainOutside ==
  ASSUME ChainInv, header' = header, phase' # "check", PassedCheck' => PassedCheck
  PROVE  ChainInv'
<1>1. NotMissed'
  BY DEF NotMissed
<1>2. AcceptedChains'
  <2>1. Chains' = Chains
    BY DEF Chains
  <2>2. Acyclic => Acyclic'
    BY HoldsStays DEF Acyclic
  <2>3. QED
    BY <2>1, <2>2 DEF ChainInv, AcceptedChains
<1>3. QED
  BY <1>1, <1>2 DEF ChainInv

\* Within the check.
LEMMA ChainInside ==
  ASSUME header' = header, phase' = "check",
         Chains /\ errors' = {} =>
           /\ \A j \in 1..(at' - 1) : j <= Len(Order) => ~Holds(Order[j], Order[j])
           /\ at' <= Len(Order) =>
                \A i \in 1..(var' - 1) :
                  i \in DOMAIN header[AtBlock'] /\ IsBlock(header[AtBlock'][i])
                    => ~Holds(AtBlock', AtBlock')
           /\ walk' # NULL /\ Holds(AtBlock', AtBlock')
                => walk' = AtBlock' \/ Holds(walk', AtBlock')
  PROVE  ChainInv'
<1>1. Chains' = Chains
  BY DEF Chains
<1>2. \A b, t : Holds(b, t)' <=> Holds(b, t)
  BY HoldsStays
<1>3. NotMissed'
  BY <1>1, <1>2 DEF NotMissed
<1>4. AcceptedChains'
  BY DEF AcceptedChains, PassedCheck
<1>5. QED
  BY <1>3, <1>4 DEF ChainInv

\* The check begins: no block has been passed, no variable, no search is on.
LEMMA CheckBegins ==
  ASSUME AlarmInv, ChainInv, GlobalsCreated PROVE ChainInv'
<1>1. header' = header /\ at' = 1 /\ var' = 1 /\ walk' = NULL
  BY DEF GlobalsCreated, AlarmInv, Inside, Checking
<1>2. CASE phase' = "check"
  <2>1. \A j \in 1..(at' - 1) : FALSE
    BY <1>1
  <2>2. \A i \in 1..(var' - 1) : FALSE
    BY <1>1
  <2>3. QED
    BY <1>1, <1>2, <2>1, <2>2, ChainInside
<1>3. CASE phase' = "failed"
  <2>1. phase' # "check" /\ ~PassedCheck'
    BY <1>3 DEF PassedCheck
  <2>2. QED
    BY <1>1, <2>1, ChainOutside
<1>4. QED
  BY <1>2, <1>3 DEF GlobalsCreated, GateTo

LEMMA CheckVariableChain ==
  ASSUME AlarmInv, ChainInv, CheckVariable PROVE ChainInv'
<1> DEFINE b == AtBlock
           t == header[b][var]
<1>1. /\ header' = header /\ phase' = phase /\ phase = "check" /\ at' = at /\ errors' = errors
      /\ AtBlock' = b /\ walk = NULL /\ at <= Len(Order) /\ NotMissed
      /\ IF IsBlock(t) THEN walk' = t /\ var' = var ELSE var' = var + 1 /\ walk' = walk
  BY DEF CheckVariable, Checking, AtBlock, linking, ChainInv, NextVariable
<1>2. /\ b \in Blocks /\ header \in Headers /\ var \in Nat \ {0}
      /\ var \in DOMAIN header[b]
  <2>1. b \in Blocks /\ header \in Headers /\ var \in Nat \ {0}
    BY AtBlockIn DEF AlarmInv, Shape, CheckVariable
  <2>2. QED
    BY <2>1, HeaderOf DEF CheckVariable
<1> HIDE DEF b
<1>3. ASSUME Chains, errors' = {}
      PROVE  /\ \A j \in 1..(at' - 1) : j <= Len(Order) => ~Holds(Order[j], Order[j])
             /\ \A i \in 1..(var' - 1) : i \in DOMAIN header[b] /\ IsBlock(header[b][i])
                                           => ~Holds(b, b)
             /\ walk' # NULL /\ Holds(b, b) => walk' = b \/ Holds(walk', b)
  <2>1. /\ \A j \in 1..(at' - 1) : j <= Len(Order) => ~Holds(Order[j], Order[j])
        /\ \A i \in 1..(var - 1) : i \in DOMAIN header[b] /\ IsBlock(header[b][i])
                                     => ~Holds(b, b)
    BY <1>1, <1>3 DEF NotMissed, b
  <2>2. CASE IsBlock(t)
    <3>1. Holds(b, b) => t = b \/ Holds(t, b)
      BY <1>2, <1>3, <2>2, ChainStep
    <3>2. QED
      BY <1>1, <2>1, <2>2, <3>1
  <2>3. CASE ~IsBlock(t)
    <3>1. \A i \in 1..(var' - 1) : i \in 1..(var - 1) \/ i = var
      BY <1>1, <1>2, <2>3
    <3>2. QED
      BY <1>1, <2>1, <2>3, <3>1
  <2>4. QED
    BY <2>2, <2>3
<1>4. QED
  BY <1>1, <1>3, ChainInside

LEMMA FollowDependencyChain ==
  ASSUME AlarmInv, ChainInv, FollowDependency PROVE ChainInv'
<1> DEFINE b == AtBlock
<1>1. /\ header' = header /\ phase' = phase /\ phase = "check" /\ walk # NULL
      /\ at <= Len(Order) /\ NotMissed
  BY DEF FollowDependency, Checking, ChainInv
<1>2. b \in Blocks /\ header \in Headers /\ var \in Nat \ {0} /\ walk \in Blocks
  BY <1>1, AtBlockIn DEF AlarmInv, Shape, FollowDependency
<1>3. CASE Depends(walk, b)
  <2>1. errors' # {}
    BY <1>3 DEF FollowDependency, Refuse
  <2>2. QED
    BY <1>1, <2>1, ChainInside
<1>4. CASE ~Depends(walk, b)
  <2>1. at' = at /\ errors' = errors /\ AtBlock' = b
    BY <1>4 DEF FollowDependency, AtBlock
  <2>2. ASSUME Chains, errors' = {}
        PROVE  /\ \A j \in 1..(at' - 1) : j <= Len(Order) => ~Holds(Order[j], Order[j])
               /\ \A i \in 1..(var' - 1) : i \in DOMAIN header[b] /\ IsBlock(header[b][i])
                                             => ~Holds(b, b)
               /\ walk' # NULL /\ Holds(b, b) => walk' = b \/ Holds(walk', b)
    <3>1. /\ \A j \in 1..(at' - 1) : j <= Len(Order) => ~Holds(Order[j], Order[j])
          /\ \A i \in 1..(var - 1) : i \in DOMAIN header[b] /\ IsBlock(header[b][i])
                                       => ~Holds(b, b)
          /\ Holds(b, b) => walk = b \/ Holds(walk, b)
      BY <1>1, <2>1, <2>2 DEF NotMissed
    <3>2. walk # b
      BY <1>4 DEF Depends
    <3>3. CASE GivesUp(walk)
      <4>1. ~Holds(walk, b)
        BY <1>2, <2>2, <3>2, <3>3, GivenUp
      <4>2. walk' = NULL
        BY <1>4, <3>3 DEF FollowDependency
      <4>3. QED
        BY <3>1, <3>2, <4>1, <4>2
    <3>4. CASE ~GivesUp(walk)
      <4>1. PICK t \in Blocks : LeadsTo(walk, t) /\ walk' = t
        BY <1>4, <3>4 DEF FollowDependency
      <4>2. var' = var
        BY <1>4, <3>4 DEF FollowDependency
      <4>3. Holds(walk, b) => t = b \/ Holds(t, b)
        BY <1>2, <2>2, <4>1, ChainStep DEF LeadsTo, IsNext
      <4>4. QED
        BY <3>1, <3>2, <4>1, <4>2, <4>3
    <3>5. QED
      BY <3>3, <3>4
  <2>3. QED
    BY <1>1, <2>1, <2>2, ChainInside
<1>5. QED
  BY <1>3, <1>4

LEMMA BlockCheckedChain ==
  ASSUME AlarmInv, ChainInv, BlockChecked PROVE ChainInv'
<1>1. /\ header' = header /\ phase' = phase /\ phase = "check" /\ walk' = NULL
      /\ at' = at + 1 /\ var' = 1 /\ errors' = errors /\ at <= Len(Order)
      /\ var > Len(header[AtBlock]) /\ NotMissed /\ at \in Nat
  BY DEF BlockChecked, Checking, linking, ChainInv, AlarmInv, Shape
<1>2. ASSUME Chains, errors' = {}
      PROVE  \A j \in 1..(at' - 1) : j <= Len(Order) => ~Holds(Order[j], Order[j])
  <2>1. \A j \in 1..(at - 1) : j <= Len(Order) => ~Holds(Order[j], Order[j])
    BY <1>1, <1>2 DEF NotMissed
  <2>2. ~Holds(Order[at], Order[at])
    BY <1>1, <1>2, ThroughTheVariables DEF AtBlock
  <2>3. \A j \in 1..(at' - 1) : j \in 1..(at - 1) \/ j = at
    BY <1>1
  <2>4. QED
    BY <2>1, <2>2, <2>3
<1>3. \A i \in 1..(var' - 1) : FALSE
  BY <1>1
<1>4. QED
  BY <1>1, <1>2, <1>3, ChainInside

\* The check is over: every block has been passed.
LEMMA CheckedChain ==
  ASSUME AlarmInv, ChainInv, Checked PROVE ChainInv'
<1>1. /\ header' = header /\ phase = "check" /\ at > Len(Order)
      /\ at \in Nat /\ phase' # "check" /\ Len(Order) \in Nat
  BY BlockAssumption DEF Checked, GateTo, AlarmInv, Shape
<1>2. CASE errors = {} /\ Chains
  <2>1. \A j \in 1..Len(Order) : ~Holds(Order[j], Order[j])
    <3>1. \A j \in 1..Len(Order) : j \in 1..(at - 1) /\ j <= Len(Order)
      BY <1>1
    <3>2. QED
      BY <1>1, <1>2, <3>1 DEF ChainInv, NotMissed
  <2>2. Acyclic
    BY <2>1, BlockAssumption DEF Acyclic
  <2>3. Acyclic'
    BY <1>1, <2>2, HoldsStays DEF Acyclic
  <2>4. QED
    BY <1>1, <2>3 DEF ChainInv, NotMissed, AcceptedChains
<1>3. CASE ~(errors = {} /\ Chains)
  <2>1. Chains' = Chains /\ (errors # {} => phase' = "failed")
    BY <1>1 DEF Chains, Checked, GateTo
  <2>2. QED
    BY <1>1, <1>3, <2>1 DEF ChainInv, NotMissed, AcceptedChains, PassedCheck
<1>4. QED
  BY <1>2, <1>3

LEMMA ChainStepKept ==
  AlarmInv /\ ChainInv /\ [Next]_vars => ChainInv'
<1> SUFFICES ASSUME AlarmInv, ChainInv, [Next]_vars PROVE ChainInv'
  OBVIOUS
<1>1. CASE UNCHANGED vars
  <2>1. /\ UNCHANGED <<header, phase, at, var, walk, errors>> /\ AtBlock' = AtBlock
        /\ Chains' = Chains
    BY <1>1 DEF vars, AtBlock, Chains
  <2>2. \A b, t : Holds(b, t)' <=> Holds(b, t)
    BY <2>1, HoldsStays
  <2>3. NotMissed'
    BY <2>1, <2>2 DEF ChainInv, NotMissed
  <2>4. AcceptedChains'
    BY <2>1, <2>2 DEF ChainInv, AcceptedChains, PassedCheck, Acyclic
  <2>5. QED
    BY <2>3, <2>4 DEF ChainInv
<1>2. CASE Enter \/ Leave
  <2>1. header' = header /\ (phase' = phase \/ phase' = "crashed")
    BY <1>2 DEF Enter, Leave
  <2>2. phase' # "check"
    <3>1. creating # << >>
      BY <1>2 DEF Enter, Leave
    <3>2. phase # "check"
      BY <3>1 DEF AlarmInv, Shape
    <3>3. QED
      BY <2>1, <3>2
  <2>3. PassedCheck' => PassedCheck
    BY <2>1 DEF PassedCheck
  <2>4. QED
    BY <2>1, <2>2, <2>3, ChainOutside
<1>3. CASE FinalizeHeader \/ HeaderFinalized \/ FinalizePrograms \/ Linked
  <2>1. header' = header /\ phase \in {"headers", "programs"} /\ phase' # "check"
    BY <1>3 DEF FinalizeHeader, HeaderFinalized, FinalizePrograms, Linked, GateTo
  <2>2. QED
    BY <2>1, ChainOutside DEF PassedCheck
<1>4. QED
  BY <1>1, <1>2, <1>3, CheckBegins, CheckVariableChain, FollowDependencyChain,
     BlockCheckedChain, CheckedChain DEF Next

\* As long as no block has more than one variable that is a function block,
\* no circle of any length gets past check_dependencies, wherever in the
\* order of the definitions it begins.
THEOREM NoCircularChain == Spec => []AcceptedChains
<1>1. Init => AlarmInv /\ ChainInv
  BY AlarmInit DEF Init, ChainInv, NotMissed, AcceptedChains, PassedCheck
<1>2. AlarmInv /\ ChainInv /\ [Next]_vars => AlarmInv' /\ ChainInv'
  BY AlarmStep, ChainStepKept
<1>3. ChainInv => AcceptedChains
  BY DEF ChainInv
<1>4. QED
  BY <1>1, <1>2, <1>3, PTL DEF Spec

-----------------------------------------------------------------------------
(***************************************************************************)
(* All variables of a block are cloned once the block has a table.         *)
(***************************************************************************)
Tabled ==
  /\ phase = "headers" => \A j \in 1..(at - 1) : j <= Len(Order) => Order[j] \in tabled
  /\ phase = "headers" /\ creating # << >> => at <= Len(Order) /\ AtBlock \in tabled
  /\ phase = "programs" => Blocks \subseteq tabled

Complete ==
  phase = "programs" =>
    \A p \in Depths : creating[p].size = Len(header[creating[p].block])

TableInv == Tabled /\ Complete /\ ProgramInstancesComplete

\* A table makes the difference between one variable and all of them.
LEMMA AllCloned ==
  ASSUME NEW b \in tabled
  PROVE  Cloned(b) = header[b]
BY DEF Cloned

LEMMA TableEnter ==
  ASSUME Typed, TableInv, Enter, phase' = phase
  PROVE  TableInv'
<1> DEFINE n == Len(creating)
<1>1. UNCHANGED <<header, at, tabled, instances>> /\ AtBlock' = AtBlock /\ creating # << >>
  BY DEF Enter, linking, AtBlock
<1>2. PICK t \in Blocks, f \in Frame :
        /\ n \in Nat \ {0} /\ Len(creating') = n + 1
        /\ f.block = t /\ f.size = Len(Cloned(t))
        /\ creating'[n + 1] = f
        /\ \A p \in 1..n : /\ creating'[p].block = creating[p].block
                           /\ creating'[p].size = creating[p].size
  BY EnterPlaces
<1>3. Tabled'
  BY <1>1 DEF TableInv, Tabled
<1>4. ASSUME phase = "programs", NEW p \in Depths'
      PROVE  creating'[p].size = Len(header[creating'[p].block])
  <2>1. p = n + 1 \/ (p \in Depths /\ p \in 1..n)
    BY <1>2 DEF Depths
  <2>2. CASE p = n + 1
    <3>1. t \in tabled
      BY <1>2, <1>4 DEF TableInv, Tabled
    <3>2. QED
      BY <1>2, <2>2, <3>1, AllCloned
  <2>3. CASE p \in Depths /\ p \in 1..n
    BY <1>2, <1>4, <2>3 DEF TableInv, Complete
  <2>4. QED
    BY <2>1, <2>2, <2>3
<1>5. Complete'
  BY <1>1, <1>4 DEF Complete
<1>6. ProgramInstancesComplete'
  BY <1>1 DEF TableInv, ProgramInstancesComplete
<1>7. QED
  BY <1>3, <1>5, <1>6 DEF TableInv

LEMMA TableLeave ==
  ASSUME Typed, TableInv, Leave
  PROVE  TableInv'
<1> DEFINE n == Len(creating)
<1>1. /\ UNCHANGED <<header, phase, at, tabled>> /\ AtBlock' = AtBlock /\ creating # << >>
      /\ creating' = Front(creating)
  BY DEF Leave, AtBlock
<1>2. /\ n \in Nat /\ n \in Depths /\ Top = creating[n]
      /\ Len(creating') = n - 1 /\ \A p \in 1..(n - 1) : creating'[p] = creating[p]
  BY <1>1, FrontOf DEF Typed, Leave, Depths, Top
<1>3. Tabled'
  BY <1>1 DEF TableInv, Tabled
<1>4. \A p \in Depths' : p \in Depths /\ p \in 1..(n - 1)
  BY <1>2 DEF Depths
<1>5. Complete'
  BY <1>1, <1>2, <1>4 DEF TableInv, Complete
<1>6. ProgramInstancesComplete'
  <2>1. phase = "programs" => Top.size = Len(header[Top.block])
    BY <1>2 DEF TableInv, Complete
  <2>2. QED
    BY <1>1, <2>1 DEF Leave, TableInv, ProgramInstancesComplete
<1>7. QED
  BY <1>3, <1>5, <1>6 DEF TableInv

\* Nothing is created by the other steps.
LEMMA TableFlat ==
  ASSUME TableInv, Tabled', UNCHANGED <<header, instances>>,
         phase' = "programs" => Len(creating') \in 0..1
  PROVE  TableInv'
<1>1. ASSUME phase' = "programs", NEW p \in Depths' PROVE FALSE
  <2> DEFINE k == Len(creating')
  <2>1. p \in 2..k /\ k \in 0..1
    BY <1>1 DEF Depths
  <2> HIDE DEF k
  <2>2. QED
    BY <2>1
<1>2. Complete'
  BY <1>1 DEF Complete
<1>3. ProgramInstancesComplete'
  BY DEF TableInv, ProgramInstancesComplete
<1>4. QED
  BY <1>2, <1>3 DEF TableInv

LEMMA TableHeaders ==
  ASSUME Shape, TableInv, FinalizeHeader \/ HeaderFinalized \/ FinalizePrograms
  PROVE  TableInv'
<1>1. UNCHANGED <<header, instances>> /\ phase = "headers" /\ at \in Nat /\ Len(Order) \in Nat
  BY BlockAssumption DEF Shape, FinalizeHeader, HeaderFinalized, FinalizePrograms
<1>2. CASE FinalizeHeader
  <2>1. Tabled' /\ phase' # "programs"
    BY <1>1, <1>2 DEF FinalizeHeader, MakeTable, AtBlock, TableInv, Tabled
  <2>2. QED
    BY <1>1, <2>1, TableFlat
<1>3. CASE HeaderFinalized
  <2>1. /\ creating # << >> /\ creating' = << >> /\ at' = at + 1 /\ UNCHANGED <<phase, tabled>>
    BY <1>3 DEF HeaderFinalized, Created
  <2>2. Order[at] \in tabled /\ \A j \in 1..(at - 1) : j <= Len(Order) => Order[j] \in tabled
    BY <1>1, <2>1 DEF TableInv, Tabled, AtBlock
  <2>3. \A j \in 1..at : j \in 1..(at - 1) \/ j = at
    BY <1>1
  <2>4. Tabled' /\ phase' # "programs"
    BY <1>1, <2>1, <2>2, <2>3 DEF Tabled
  <2>5. QED
    BY <1>1, <2>4, TableFlat
<1>4. CASE FinalizePrograms
  <2>1. Blocks \subseteq tabled
    <3>1. \A j \in 1..Len(Order) : j \in 1..(at - 1) /\ j <= Len(Order)
      BY <1>1, <1>4 DEF FinalizePrograms
    <3>2. \A j \in 1..Len(Order) : Order[j] \in tabled
      BY <1>1, <3>1 DEF TableInv, Tabled
    <3>3. ASSUME NEW b \in Blocks PROVE b \in tabled
      <4>1. PICK j \in 1..Len(Order) : Order[j] = b
        BY BlockAssumption
      <4>2. QED
        BY <3>2, <4>1
    <3>4. QED
      BY <3>3
  <2>2. /\ phase' = "programs" /\ tabled' = tabled
        /\ creating' = <<List(Programs)>>
    BY <1>4 DEF FinalizePrograms
  <2>3. Len(creating') = 1
    BY <2>2, BlockAssumption, ListsOfBlocks, ListFrame
  <2>4. Tabled'
    BY <2>1, <2>2 DEF Tabled
  <2>5. QED
    BY <1>1, <2>3, <2>4, TableFlat
<1>5. QED
  BY <1>2, <1>3, <1>4

LEMMA TableStep ==
  AlarmInv /\ Typed /\ TableInv /\ [Next]_vars => TableInv'
<1> SUFFICES ASSUME AlarmInv, Typed, TableInv, [Next]_vars PROVE TableInv'
  OBVIOUS
<1>1. CASE UNCHANGED vars
  BY <1>1 DEF vars, TableInv, Tabled, Complete, ProgramInstancesComplete, AtBlock, Depths
<1>2. CASE Enter
  <2>1. CASE phase' = phase
    BY <1>2, <2>1, TableEnter
  <2>2. CASE phase' = "crashed" /\ UNCHANGED linking
    <3>1. Tabled' /\ UNCHANGED <<header, instances>> /\ phase' # "programs"
      BY <1>2, <2>2 DEF Tabled, Enter, linking
    <3>2. QED
      BY <3>1, TableFlat
  <2>3. QED
    BY <1>2, <2>1, <2>2 DEF Enter
<1>3. CASE Leave
  BY <1>3, TableLeave
<1>4. CASE GlobalsCreated \/ CheckVariable \/ FollowDependency \/ BlockChecked \/ Linked
  <2>1. /\ UNCHANGED <<header, instances>> /\ phase' \notin {"headers", "programs"}
    BY <1>4 DEF GlobalsCreated, CheckVariable, FollowDependency, BlockChecked, Linked,
                GateTo, Checking, linking
  <2>2. Tabled'
    BY <2>1 DEF Tabled
  <2>3. QED
    BY <2>1, <2>2, TableFlat
<1>5. CASE Checked
  <2>1. /\ UNCHANGED <<header, instances>> /\ phase' # "programs" /\ at' = 1
        /\ creating' = << >>
    BY <1>5 DEF Checked, GateTo, linking, AlarmInv, Shape
  <2>2. \A j \in 1..(at' - 1) : FALSE
    BY <2>1
  <2>3. Tabled'
    BY <2>1, <2>2 DEF Tabled
  <2>4. QED
    BY <2>1, <2>3, TableFlat
<1>6. QED
  BY <1>1, <1>2, <1>3, <1>4, <1>5, TableHeaders DEF Next, AlarmInv

\* Whatever is made while the headers of the programs are finalized has all
\* variables of its type, at every depth: the tables that make hh.next point
\* on have been made for all blocks by then.
THEOREM ProgramsAreComplete == Spec => []ProgramInstancesComplete
<1>1. Init => AlarmInv /\ OwnInv /\ TableInv
  BY AlarmInit, OwnInit DEF Init, TableInv, Tabled, Complete, ProgramInstancesComplete
<1>2. AlarmInv /\ OwnInv /\ TableInv /\ [Next]_vars => AlarmInv' /\ OwnInv' /\ TableInv'
  BY AlarmStep, OwnStep, TableStep DEF AlarmInv, OwnInv
<1>3. TableInv => ProgramInstancesComplete
  BY DEF TableInv
<1>4. QED
  BY <1>1, <1>2, <1>3, PTL DEF Spec

-----------------------------------------------------------------------------
\* The blocks that are finalized before the one that is.
Earlier == {Order[j] : j \in 1..(at - 1)}

OrderInv ==
  /\ OrderedBlocksLink
  /\ InOrder /\ phase = "headers" =>
       \A p \in 1..Len(creating) : Ahead(creating[p].left) \subseteq Earlier

LEMMA ClonedAhead ==
  ASSUME header \in Headers, NEW b \in Blocks
  PROVE  Ahead(Cloned(b)) \subseteq Uses(b)
<1>1. /\ header[b] \in Seq(Blocks \union {Plain}) /\ Uses(b) = Ahead(header[b])
      /\ DOMAIN header[b] = 1..Len(header[b])
  BY HeaderOf
<1>2. CASE Cloned(b) = header[b]
  BY <1>1, <1>2
<1>3. CASE header[b] # << >> /\ Cloned(b) = <<header[b][1]>>
  <2>1. 1 \in DOMAIN header[b]
    BY <1>1, <1>3
  <2>2. \A x \in Ahead(Cloned(b)) : x = header[b][1] /\ x # Plain
    BY <1>3 DEF Ahead
  <2>3. QED
    BY <1>1, <2>1, <2>2 DEF Ahead
<1>4. QED
  BY <1>2, <1>3 DEF Cloned

\* Blocks that only use what is defined before them are not circular.
LEMMA InOrderAcyclic ==
  ASSUME InOrder, NEW i \in 1..Len(Order)
  PROVE  ~Holds(Order[i], Order[i])
<1> DEFINE S == {Order[j] : j \in 1..(i - 1)}
<1>1. \A j \in 1..(i - 1) : j \in DOMAIN Order /\ j \in 1..Len(Order) /\ j # i
                            /\ \A k \in 1..(j - 1) : k \in 1..(i - 1)
  BY BlockAssumption
<1>2. S \in SUBSET Blocks
  BY <1>1, BlockAssumption
<1>3. Uses(Order[i]) \subseteq S
  BY BlockAssumption DEF InOrder
<1>4. Closed(S)
  <2>1. ASSUME NEW j \in 1..(i - 1)
        PROVE  Uses(Order[j]) \subseteq S
    <3>1. Uses(Order[j]) \subseteq {Order[k] : k \in 1..(j - 1)}
      BY <1>1 DEF InOrder
    <3>2. {Order[k] : k \in 1..(j - 1)} \subseteq S
      BY <1>1
    <3>3. QED
      BY <3>1, <3>2
  <2>2. QED
    BY <2>1 DEF Closed
<1>5. Order[i] \notin S
  BY <1>1, BlockAssumption
<1>6. QED
  <2> HIDE DEF S
  <2>1. QED
    BY <1>2, <1>3, <1>4, <1>5 DEF Holds

\* A block that has been finalized uses only such blocks.
LEMMA EarlierUses ==
  ASSUME InOrder, at \in Nat, at <= Len(Order) + 1, NEW t \in Earlier
  PROVE  Uses(t) \subseteq Earlier
<1>1. PICK j \in 1..(at - 1) : t = Order[j]
  BY DEF Earlier
<1>2. j \in DOMAIN Order /\ \A k \in 1..(j - 1) : k \in 1..(at - 1)
  BY BlockAssumption
<1>3. Uses(t) \subseteq {Order[k] : k \in 1..(j - 1)}
  BY <1>1, <1>2 DEF InOrder
<1>4. QED
  BY <1>2, <1>3 DEF Earlier

LEMMA InOrderStays ==
  ASSUME header' = header
  PROVE  InOrder' = InOrder
BY DEF InOrder, Uses

\* Binding an instance of a block that has a table is no error.
LEMMA NoBindingErrors ==
  ASSUME header \in Headers, NEW b \in Blocks, b \in tabled
  PROVE  BindingErrors(b) = {}
<1>1. Cloned(b) = header[b] /\ Len(header[b]) \in Nat
  BY AllCloned, HeaderOf
<1>2. QED
  BY <1>1 DEF BindingErrors

LEMMA OrderEnter ==
  ASSUME Shape, Typed, TableInv, OrderInv, Enter, phase' = phase
  PROVE  OrderInv'
<1> DEFINE n == Len(creating)
<1>1. /\ UNCHANGED <<header, at>> /\ creating # << >> /\ Earlier' = Earlier
      /\ at \in Nat /\ Len(Order) \in Nat /\ InOrder' = InOrder
  BY InOrderStays, BlockAssumption DEF Enter, Shape, Earlier
<1>2. PICK t \in Blocks, f \in Frame, left \in Seq(Blocks \union {Plain}) :
        /\ n \in Nat \ {0} /\ Len(creating') = n + 1 /\ Top = creating[n]
        /\ t \in Ahead(Top.left) /\ Ahead(left) \subseteq Ahead(Top.left)
        /\ f.left = Cloned(t)
        /\ creating'[n].left = left
        /\ creating'[n + 1] = f
        /\ \A p \in 1..(n - 1) : creating'[p] = creating[p]
        /\ errors' = errors \union BindingErrors(t)
  BY EnterPlaces
<1>3. ASSUME InOrder, phase = "headers"
      PROVE  /\ t \in tabled
             /\ \A p \in 1..Len(creating') : Ahead(creating'[p].left) \subseteq Earlier
  <2>1. /\ \A p \in 1..n : Ahead(creating[p].left) \subseteq Earlier
        /\ at <= Len(Order) /\ \A j \in 1..(at - 1) : j <= Len(Order) => Order[j] \in tabled
    BY <1>1, <1>3 DEF OrderInv, TableInv, Tabled
  <2>2. Ahead(Top.left) \subseteq Earlier
    BY <1>2, <2>1
  <2>3. Earlier \subseteq tabled
    <3>1. \A j \in 1..(at - 1) : j <= Len(Order)
      BY <1>1, <2>1
    <3>2. QED
      BY <2>1, <3>1 DEF Earlier
  <2>4. Ahead(Cloned(t)) \subseteq Earlier
    <3>1. Uses(t) \subseteq Earlier
      BY <1>1, <1>2, <1>3, <2>1, <2>2, EarlierUses
    <3>2. QED
      BY <1>2, <3>1, ClonedAhead DEF Shape
  <2>5. ASSUME NEW p \in 1..Len(creating')
        PROVE  Ahead(creating'[p].left) \subseteq Earlier
    <3>1. p \in 1..(n - 1) \/ p = n \/ p = n + 1
      BY <1>2
    <3>2. CASE p \in 1..(n - 1)
      <4>1. p \in 1..n
        BY <1>2, <3>2
      <4>2. QED
        BY <1>2, <2>1, <3>2, <4>1
    <3>3. CASE p = n
      BY <1>2, <2>2, <3>3
    <3>4. CASE p = n + 1
      BY <1>2, <2>4, <3>4
    <3>5. QED
      BY <3>1, <3>2, <3>3, <3>4
  <2>6. QED
    BY <1>2, <2>2, <2>3, <2>5
<1>4. phase # "check"
  BY <1>1 DEF Shape
<1>5. ASSUME InOrder, phase \in {"headers", "programs"}
      PROVE  errors' = {}
  <2>1. errors = {}
    BY <1>5 DEF OrderInv, OrderedBlocksLink
  <2>2. t \in tabled
    BY <1>2, <1>3, <1>5 DEF TableInv, Tabled
  <2>3. QED
    BY <1>2, <2>1, <2>2, NoBindingErrors DEF Shape
<1>6. QED
  BY <1>1, <1>3, <1>4, <1>5 DEF OrderInv, OrderedBlocksLink

LEMMA OrderLeave ==
  ASSUME Typed, OrderInv, Leave
  PROVE  OrderInv'
<1> DEFINE n == Len(creating)
<1>1. /\ UNCHANGED <<header, phase, at, errors>> /\ creating # << >> /\ Earlier' = Earlier
      /\ creating' = Front(creating) /\ InOrder' = InOrder
  BY InOrderStays DEF Leave, Earlier
<1>2. /\ n \in Nat /\ Len(creating') = n - 1
      /\ \A p \in 1..(n - 1) : creating'[p] = creating[p]
  BY <1>1, FrontOf DEF Typed, Leave
<1>3. \A p \in 1..(n - 1) : p \in 1..n
  BY <1>2
<1>4. QED
  BY <1>1, <1>2, <1>3 DEF OrderInv, OrderedBlocksLink

LEMMA OrderCheck ==
  ASSUME AlarmInv, OrderInv, CheckVariable \/ FollowDependency \/ BlockChecked
  PROVE  OrderInv'
<1>1. /\ header' = header /\ phase' = "check" /\ phase = "check" /\ InOrder' = InOrder
  BY InOrderStays DEF CheckVariable, FollowDependency, BlockChecked, Checking
<1>2. ASSUME InOrder PROVE errors' = {}
  <2>1. errors = {}
    BY <1>1, <1>2 DEF OrderInv, OrderedBlocksLink
  <2>2. ASSUME FollowDependency, Depends(walk, AtBlock)
        PROVE  FALSE
    <3>1. AtBlock \in Blocks /\ Holds(AtBlock, AtBlock)
      BY <2>2, AtBlockIn, AlarmJustified DEF FollowDependency, AlarmInv, Shape, Inside
    <3>2. at \in 1..Len(Order)
      BY <2>2, BlockAssumption DEF FollowDependency, Checking, AlarmInv, Shape
    <3>3. QED
      BY <1>2, <3>1, <3>2, InOrderAcyclic DEF AtBlock
  <2>3. errors' = errors
    BY <2>2 DEF CheckVariable, FollowDependency, BlockChecked, linking
  <2>4. QED
    BY <2>1, <2>3
<1>3. QED
  BY <1>1, <1>2 DEF OrderInv, OrderedBlocksLink

\* The steps between the phases, which look at the errors.
LEMMA OrderGates ==
  ASSUME AlarmInv, OrderInv, GlobalsCreated \/ Checked \/ Linked
  PROVE  OrderInv'
<1>1. /\ header' = header /\ errors' = errors
      /\ phase' \in {"check", "headers"} => errors = {}
      /\ phase' # "programs"
      /\ phase' = "headers" => Checked
  BY DEF GlobalsCreated, Checked, Linked, GateTo, linking
<1>2. phase' = "headers" => creating' = << >>
  BY <1>1 DEF Checked, linking, AlarmInv, Shape
<1>3. phase' = "headers" => \A p \in 1..Len(creating') : FALSE
  BY <1>2
<1>4. QED
  BY <1>1, <1>3 DEF OrderInv, OrderedBlocksLink

LEMMA OrderHeaders ==
  ASSUME Shape, TableInv, OrderInv, FinalizeHeader \/ HeaderFinalized \/ FinalizePrograms
  PROVE  OrderInv'
<1>1. /\ header' = header /\ errors' = errors /\ phase = "headers"
      /\ InOrder' = InOrder /\ header \in Headers
  BY InOrderStays DEF Shape, FinalizeHeader, HeaderFinalized, FinalizePrograms
<1>2. OrderedBlocksLink'
  BY <1>1 DEF OrderInv, OrderedBlocksLink
<1>3. CASE FinalizeHeader
  <2>1. at \in 1..Len(Order) /\ Earlier' = Earlier
    BY <1>3, BlockAssumption DEF FinalizeHeader, Shape, Earlier
  <2>2. AtBlock \in Blocks
    BY <2>1, BlockAssumption DEF AtBlock
  <2>3. creating' = <<List(header[AtBlock])>>
    BY <1>3 DEF FinalizeHeader
  <2>4. header[AtBlock] \in Seq(Blocks \union {Plain}) /\ Uses(AtBlock) = Ahead(header[AtBlock])
    BY <1>1, <2>2, HeaderOf
  <2>5. Len(creating') = 1 /\ creating'[1].left = header[AtBlock]
    BY <2>3 DEF List
  <2>6. InOrder => Uses(AtBlock) \subseteq Earlier
    BY <2>1, BlockAssumption DEF InOrder, AtBlock, Earlier
  <2>7. InOrder => \A p \in 1..Len(creating') : Ahead(creating'[p].left) \subseteq Earlier'
    BY <2>1, <2>4, <2>5, <2>6
  <2>8. QED
    BY <1>1, <1>2, <2>7 DEF OrderInv
<1>4. CASE HeaderFinalized \/ FinalizePrograms
  <2>1. phase' = "headers" => creating' = << >>
    BY <1>4 DEF HeaderFinalized, FinalizePrograms
  <2>2. phase' = "headers" => \A p \in 1..Len(creating') : FALSE
    BY <2>1
  <2>3. QED
    BY <1>2, <2>2 DEF OrderInv
<1>5. QED
  BY <1>3, <1>4

LEMMA OrderStep ==
  AlarmInv /\ Typed /\ TableInv /\ OrderInv /\ [Next]_vars => OrderInv'
<1> SUFFICES ASSUME AlarmInv, Typed, TableInv, OrderInv, [Next]_vars PROVE OrderInv'
  OBVIOUS
<1>1. CASE UNCHANGED vars
  <2>1. /\ UNCHANGED <<header, phase, at, errors, creating>>
        /\ Earlier' = Earlier /\ InOrder' = InOrder
    BY <1>1, InOrderStays DEF vars, Earlier
  <2>2. QED
    BY <2>1 DEF OrderInv, OrderedBlocksLink
<1>2. CASE Enter
  <2>1. CASE phase' = phase
    BY <1>2, <2>1, OrderEnter DEF AlarmInv
  <2>2. CASE phase' = "crashed"
    BY <2>2 DEF OrderInv, OrderedBlocksLink
  <2>3. QED
    BY <1>2, <2>1, <2>2 DEF Enter
<1>3. CASE Leave
  BY <1>3, OrderLeave
<1>4. QED
  BY <1>1, <1>2, <1>3, OrderCheck, OrderGates, OrderHeaders DEF Next, AlarmInv

\* Sources that define every block before they use it are linked: the check
\* does not refuse one of them, and no reference in their statements is found
\* to be undefined from the check on, whatever else the headers have.
THEOREM DefinedBeforeUse == Spec => []OrderedBlocksLink
<1>1. Init => AlarmInv /\ OwnInv /\ TableInv /\ OrderInv
  BY AlarmInit, OwnInit DEF Init, TableInv, Tabled, Complete, ProgramInstancesComplete,
                            OrderInv, OrderedBlocksLink
<1>2. AlarmInv /\ OwnInv /\ TableInv /\ OrderInv /\ [Next]_vars
        => AlarmInv' /\ OwnInv' /\ TableInv' /\ OrderInv'
  BY AlarmStep, OwnStep, TableStep, OrderStep DEF AlarmInv, OwnInv
<1>3. OrderInv => OrderedBlocksLink
  BY DEF OrderInv
<1>4. QED
  BY <1>1, <1>2, <1>3, PTL DEF Spec
=============================================================================
