--------------------------- MODULE LiteralsProofs ---------------------------
(***************************************************************************)
(* What holds of the literals whatever texts are written and whatever the  *)
(* stack held: the comparisons of durations, dates and times fit together, *)
(* an accepted literal is stored as it was written, and a duration that is *)
(* written as it should be is refused only if its whole numbers are too    *)
(* long for a float.                                                       *)
(***************************************************************************)
EXTENDS Literals, SequenceTheorems, TLAPS

WF == INSTANCE WellFoundedInduction

\* Values of each type of variable.
Durations == [UnitSet -> Int]
ValuesOf(k) ==
  CASE k = "TIME" -> Durations
    [] k = "DATE" -> Dates
    [] k = "TIME_OF_DAY" -> Tods
    [] k = "DATE_AND_TIME" -> [date : Dates, tod : Tods]
    [] k = "SINT" -> {CreateValue(IntegerKind, {}, n) : n \in Int}

HeldInv ==
  /\ kind \in Kinds \union {"SINT"}
  /\ held \in [Targets -> ValuesOf(kind)]

\* The parts that were read are the first ones of the text, and the structure
\* has the last number of each of their units.
ReadingInv ==
  /\ reading \in [to : Targets \union {"none"}, text : Seq(Part), left : Seq(Part)]
  /\ duration \in Durations
  /\ count \in Nat
  /\ reading # Nothing =>
       /\ kind = "TIME" /\ reading.to \in Targets /\ outcome = "reading"
       /\ Len(reading.text) = count + Len(reading.left)
       /\ \A i \in 1..Len(reading.left) : reading.left[i] = reading.text[count + i]
       /\ \A i \in 1..count :
            (\A j \in 1..count : reading.text[j].unit = reading.text[i].unit => j <= i)
              => duration[reading.text[i].unit] = reading.text[i].number

LiteralsInv == HeldInv /\ ReadingInv

-----------------------------------------------------------------------------
(* Comparing part by part *)

\* Of two records of numbers, neither greater in a part than the other means
\* that they are the same.
LEMMA SameParts ==
  ASSUME NEW F, NEW a \in [F -> Int], NEW b \in [F -> Int]
  PROVE  /\ (~ \E f \in F : a[f] > b[f]) /\ (~ \E f \in F : a[f] < b[f]) <=> a = b
         /\ (\E f \in F : a[f] > b[f]) <=> (\E f \in F : b[f] < a[f])
<1>1. ASSUME ~ \E f \in F : a[f] > b[f], ~ \E f \in F : a[f] < b[f]
      PROVE  a = b
  <2>1. \A f \in F : a[f] = b[f]
    BY <1>1
  <2> QED
    BY <2>1
<1>2. \A f \in F : a[f] \in Int /\ b[f] \in Int
  OBVIOUS
<1>3. a = b => ~(\E f \in F : a[f] > b[f]) /\ ~(\E f \in F : a[f] < b[f])
  BY <1>2
<1>4. (\E f \in F : a[f] > b[f]) <=> (\E f \in F : b[f] < a[f])
  BY <1>2
<1> QED
  BY <1>1, <1>3, <1>4

\* The comparisons of values of one type fit together.
LEMMA ComparisonsFit ==
  ASSUME NEW k \in Kinds, NEW a \in ValuesOf(k), NEW b \in ValuesOf(k)
  PROVE  /\ Equals(k, a, b) <=> a = b
         /\ Greater(k, a, b) <=> Lesser(k, b, a)
         /\ Later(k, a, b) => Greater(k, a, b)
<1>1. CASE k = "TIME"
  <2>1. a \in [UnitSet -> Int] /\ b \in [UnitSet -> Int]
    BY <1>1 DEF ValuesOf, Durations
  <2>2. /\ Greater(k, a, b) = (\E f \in UnitSet : a[f] > b[f])
        /\ Lesser(k, a, b) = (\E f \in UnitSet : a[f] < b[f])
        /\ Lesser(k, b, a) = (\E f \in UnitSet : b[f] < a[f])
    BY <1>1 DEF Greater, Lesser, DurationGreater, DurationLesser
  <2>3. Later(k, a, b) => \E i \in DOMAIN Units : a[Units[i]] > b[Units[i]]
    BY <1>1 DEF Later
  <2>4. \A i \in DOMAIN Units : Units[i] \in UnitSet
    BY DEF UnitSet
  <2>5. Later(k, a, b) => \E f \in UnitSet : a[f] > b[f]
    BY <2>3, <2>4
  <2> QED
    BY <2>1, <2>2, <2>5, SameParts DEF Equals
<1>2. CASE k = "DATE"
  <2> DEFINE F == {"y", "mon", "day"}
  <2>1. a \in [F -> Int] /\ b \in [F -> Int]
    BY <1>2 DEF ValuesOf, Dates
  <2>2. /\ Greater(k, a, b) = (\E f \in F : a[f] > b[f])
        /\ Lesser(k, a, b) = (\E f \in F : a[f] < b[f])
        /\ Lesser(k, b, a) = (\E f \in F : b[f] < a[f])
    BY <1>2 DEF Greater, Lesser, DateGreater, DateLesser
  <2>3. Later(k, a, b) => \E f \in F : a[f] > b[f]
    BY <1>2 DEF Later
  <2> QED
    BY <2>1, <2>2, <2>3, SameParts DEF Equals
<1>3. CASE k = "TIME_OF_DAY"
  <2> DEFINE F == {"h", "m", "s", "fs"}
  <2>1. a \in [F -> Int] /\ b \in [F -> Int]
    BY <1>3 DEF ValuesOf, Tods
  <2>2. /\ Greater(k, a, b) = (\E f \in F : a[f] > b[f])
        /\ Lesser(k, a, b) = (\E f \in F : a[f] < b[f])
        /\ Lesser(k, b, a) = (\E f \in F : b[f] < a[f])
    BY <1>3 DEF Greater, Lesser, TodGreater, TodLesser
  <2>3. Later(k, a, b) => \E f \in F : a[f] > b[f]
    BY <1>3 DEF Later
  <2> QED
    BY <2>1, <2>2, <2>3, SameParts DEF Equals
<1>4. CASE k = "DATE_AND_TIME"
  <2> DEFINE D == {"y", "mon", "day"}
             T == {"h", "m", "s", "fs"}
  <2>1. a \in [date : Dates, tod : Tods] /\ b \in [date : Dates, tod : Tods]
    BY <1>4 DEF ValuesOf
  <2>2. a.date \in [D -> Int] /\ b.date \in [D -> Int] /\ a.tod \in [T -> Int] /\ b.tod \in [T -> Int]
    BY <2>1 DEF Dates, Tods
  <2>3. /\ Greater(k, a, b) = ((\E f \in D : a.date[f] > b.date[f]) \/ (\E f \in T : a.tod[f] > b.tod[f]))
        /\ Lesser(k, a, b) = ((\E f \in D : a.date[f] < b.date[f]) \/ (\E f \in T : a.tod[f] < b.tod[f]))
        /\ Lesser(k, b, a) = ((\E f \in D : b.date[f] < a.date[f]) \/ (\E f \in T : b.tod[f] < a.tod[f]))
    BY <1>4 DEF Greater, Lesser, DateTodGreater, DateTodLesser, DateGreater, DateLesser, TodGreater, TodLesser
  <2>4. Later(k, a, b) => (\E f \in D : a.date[f] > b.date[f]) \/ (\E f \in T : a.tod[f] > b.tod[f])
    BY <1>4 DEF Later
  <2>5. a = b <=> a.date = b.date /\ a.tod = b.tod
    BY <2>1
  <2> HIDE DEF D, T
  <2>6. /\ (~ \E f \in D : a.date[f] > b.date[f]) /\ (~ \E f \in D : a.date[f] < b.date[f]) <=> a.date = b.date
        /\ (\E f \in D : a.date[f] > b.date[f]) <=> (\E f \in D : b.date[f] < a.date[f])
    BY <2>2, SameParts
  <2>7. /\ (~ \E f \in T : a.tod[f] > b.tod[f]) /\ (~ \E f \in T : a.tod[f] < b.tod[f]) <=> a.tod = b.tod
        /\ (\E f \in T : a.tod[f] > b.tod[f]) <=> (\E f \in T : b.tod[f] < a.tod[f])
    BY <2>2, SameParts
  <2>8. Greater(k, a, b) <=> Lesser(k, b, a)
    BY <2>3, <2>6, <2>7
  <2>9. Equals(k, a, b) <=> a = b
    BY <2>3, <2>5, <2>6, <2>7 DEF Equals
  <2> QED
    BY <2>3, <2>4, <2>8, <2>9
<1> QED
  BY <1>1, <1>2, <1>3, <1>4 DEF Kinds

-----------------------------------------------------------------------------
(* Powers of two *)

\* A set of numbers that has a member has a least one: its predecessor, if
\* there is one, is outside the set.
LEMMA Least ==
  ASSUME NEW T, T \subseteq Nat, T # {}
  PROVE  \E m \in T : m \in Nat /\ (m # 0 => m - 1 \in Nat /\ m - 1 \notin T)
<1> DEFINE R == {ss \in Nat \X Nat : ss[1] < ss[2]}
<1>1. WF!IsWellFoundedOn(R, Nat)
  BY WF!NatLessThanWellFounded DEF WF!OpToRel
<1>2. PICK m \in T : \A y \in T : ~ (<<y, m>> \in R)
  BY <1>1, WF!WFMin
<1>3. m \in Nat
  OBVIOUS
<1>4. ASSUME m # 0, m - 1 \in T PROVE FALSE
  <2>1. m - 1 \in Nat /\ m - 1 < m
    BY <1>3, <1>4
  <2>2. <<m - 1, m>> \in R
    BY <1>3, <2>1
  <2> QED BY <1>2, <1>4, <2>2
<1>5. m # 0 => m - 1 \in Nat
  BY <1>3
<1> QED BY <1>3, <1>4, <1>5

PowersTo(m, f) == f = [n \in 0 .. m |-> IF n = 0 THEN 1 ELSE 2 * f[n - 1]]

LEMMA PowersExist ==
  ASSUME NEW N \in Nat
  PROVE  \E f : PowersTo(N, f)
<1> DEFINE Bad == {m \in Nat : ~ \E f : PowersTo(m, f)}
<1> SUFFICES ASSUME Bad # {} PROVE FALSE
  OBVIOUS
<1>1. PICK m \in Bad : m \in Nat /\ (m # 0 => m - 1 \in Nat /\ m - 1 \notin Bad)
  <2>1. Bad \subseteq Nat
    OBVIOUS
  <2> HIDE DEF Bad
  <2> QED BY <2>1, Least
<1>2. m # 0
  <2>1. PowersTo(0, [n \in 0 .. 0 |-> 1])
    BY DEF PowersTo
  <2> QED BY <2>1
<1>3. PICK f : PowersTo(m - 1, f)
  BY <1>1, <1>2
<1> DEFINE g == [n \in 0 .. m |-> IF n = m THEN 2 * f[m - 1] ELSE f[n]]
<1>4. PowersTo(m, g)
  <2>1. ASSUME NEW n \in 0 .. m
        PROVE  g[n] = IF n = 0 THEN 1 ELSE 2 * g[n - 1]
    <3>1. CASE n = 0
      BY <1>1, <1>2, <1>3, <3>1 DEF PowersTo
    <3>2. CASE n = m
      BY <1>1, <1>2, <3>2
    <3>3. CASE n # 0 /\ n # m
      <4>1. n - 1 \in 0 .. m /\ n - 1 # m /\ n \in 0 .. (m - 1)
        BY <1>1, <3>3
      <4>2. f[n] = 2 * f[n - 1]
        BY <1>3, <4>1, <3>3 DEF PowersTo
      <4> QED BY <3>3, <4>1, <4>2
    <3> QED BY <3>1, <3>2, <3>3
  <2> QED BY <2>1 DEF PowersTo
<1> QED BY <1>1, <1>4

LEMMA PowersAgree ==
  ASSUME NEW M \in Nat, NEW N \in Nat, NEW f, NEW g, PowersTo(M, f), PowersTo(N, g),
         NEW n \in Nat, n <= M, n <= N
  PROVE  f[n] = g[n]
<1> DEFINE Bad == {m \in 0 .. n : f[m] # g[m]}
<1>1. SUFFICES ASSUME Bad # {} PROVE FALSE
  OBVIOUS
<1>2. PICK m \in Bad : m \in Nat /\ (m # 0 => m - 1 \in Nat /\ m - 1 \notin Bad)
  <2>1. Bad \subseteq Nat
    OBVIOUS
  <2> HIDE DEF Bad
  <2> QED BY <1>1, <2>1, Least
<1>3. m \in 0 .. M /\ m \in 0 .. N /\ f[m] # g[m]
  BY <1>2
<1>4. CASE m = 0
  BY <1>3, <1>4 DEF PowersTo
<1>5. CASE m # 0
  <2>1. f[m - 1] = g[m - 1]
    BY <1>2, <1>5
  <2>2. f[m] = 2 * f[m - 1] /\ g[m] = 2 * g[m - 1]
    BY <1>3, <1>5 DEF PowersTo
  <2> QED BY <1>3, <2>1, <2>2
<1> QED BY <1>4, <1>5

\* The function is the one its equations describe.
LEMMA TwoToUnfolds ==
  /\ TwoTo[0] = 1
  /\ \A n \in Nat : TwoTo[n + 1] = 2 * TwoTo[n]
<1> DEFINE F(n) == CHOOSE f : PowersTo(n, f)
           g == [n \in Nat |-> F(n)[n]]
           P(h) == h = [n \in Nat |-> IF n = 0 THEN 1 ELSE 2 * h[n - 1]]
<1>1. \A n \in Nat : PowersTo(n, F(n))
  BY PowersExist, Zenon
<1>2. P(g)
  <2>1. ASSUME NEW n \in Nat
        PROVE  F(n)[n] = IF n = 0 THEN 1 ELSE 2 * g[n - 1]
    <3> HIDE DEF F
    <3>1. CASE n = 0
      <4>1. PowersTo(0, F(0))
        BY <1>1
      <4> QED BY <3>1, <4>1 DEF PowersTo
    <3>2. CASE n # 0
      <4>1. PowersTo(n, F(n)) /\ PowersTo(n - 1, F(n - 1)) /\ n - 1 \in Nat
        BY <1>1, <3>2
      <4>2. F(n)[n] = 2 * F(n)[n - 1]
        BY <3>2, <4>1 DEF PowersTo
      <4>3. F(n)[n - 1] = F(n - 1)[n - 1]
        BY <4>1, PowersAgree
      <4> QED BY <3>2, <4>1, <4>2, <4>3
    <3> QED BY <3>1, <3>2
  <2> HIDE DEF F
  <2> QED BY <2>1
<1>3. TwoTo = CHOOSE h : P(h)
  BY DEF TwoTo
<1> HIDE DEF P, g
<1>4. P(TwoTo)
  BY <1>2, <1>3, Zenon
<1>5. TwoTo = [n \in Nat |-> IF n = 0 THEN 1 ELSE 2 * TwoTo[n - 1]]
  BY <1>4 DEF P
<1>6. TwoTo[0] = 1
  BY <1>5
<1>7. ASSUME NEW n \in Nat PROVE TwoTo[n + 1] = 2 * TwoTo[n]
  <2>1. n + 1 \in Nat /\ n + 1 # 0 /\ (n + 1) - 1 = n
    OBVIOUS
  <2> QED BY <1>5, <2>1
<1> QED BY <1>6, <1>7

LEMMA PowersAreNumbers == \A n \in Nat : TwoTo[n] \in Nat \ {0}
<1> DEFINE Bad == {n \in Nat : TwoTo[n] \notin Nat \ {0}}
<1> SUFFICES ASSUME Bad # {} PROVE FALSE
  OBVIOUS
<1>1. PICK m \in Bad : m \in Nat /\ (m # 0 => m - 1 \in Nat /\ m - 1 \notin Bad)
  <2>1. Bad \subseteq Nat
    OBVIOUS
  <2> HIDE DEF Bad
  <2> QED BY <2>1, Least
<1>2. m # 0
  BY <1>1, TwoToUnfolds
<1>3. TwoTo[m - 1] \in Nat \ {0}
  BY <1>1, <1>2
<1>4. TwoTo[m] = 2 * TwoTo[m - 1]
  <2>1. m - 1 \in Nat /\ (m - 1) + 1 = m
    BY <1>1, <1>2
  <2>2. TwoTo[(m - 1) + 1] = 2 * TwoTo[m - 1]
    BY <2>1, TwoToUnfolds
  <2> QED BY <2>1, <2>2
<1> QED BY <1>1, <1>3, <1>4

LEMMA WordIsNumber == Word \in Nat \ {0}
<1>1. 8 * ByteBits \in Nat
  BY ByteBitsAssumption
<1> QED
  BY <1>1, PowersAreNumbers DEF Word

-----------------------------------------------------------------------------
(* Storing integers *)

\* A number that fits the word does not wrap around.
LEMMA NoWrap ==
  ASSUME NEW n \in Int, -(Word \div 2) < n, n < Word \div 2
  PROVE  Wrap(n) = n
<1>1. Word \in Int
  BY WordIsNumber
<1> DEFINE w == Word
           h == Word \div 2
<1>2. w \in Int /\ h \in Int /\ 2 * h <= w
  BY <1>1
<1>3. Wrap(n) = ((n + h) % w) - h
  BY DEF Wrap
<1>4. -h < n /\ n < h
  OBVIOUS
<1> HIDE DEF w, h
<1>5. n + h \in 0..(w - 1)
  BY <1>2, <1>4
<1>6. (n + h) % w = n + h
  BY <1>2, <1>5
<1> QED
  BY <1>2, <1>3, <1>6

\* What an update makes of a value.
LEMMA ValueUpdated ==
  ASSUME NEW k, NEW t, NEW typeOf, NEW temp, NEW const, NEW v, NEW w
  PROVE  [[k |-> k, t |-> t, typeOf |-> typeOf, temp |-> temp, const |-> const, v |-> v] EXCEPT !.v = w]
           = [k |-> k, t |-> t, typeOf |-> typeOf, temp |-> temp, const |-> const, v |-> w]
OBVIOUS

\* An integer literal that is accepted is stored as it was written.
LEMMA IntegerStored ==
  ASSUME NEW n \in Int, NEW text, text.magnitude \in Nat, text.sign \in {1, -1},
         NEW literal, literal = Explicit(text.type, WrittenInteger(text)),
         Readable(text), AssignableFrom(CreateValue(IntegerKind, {}, n), literal) = "yes"
  PROVE  Assign(CreateValue(IntegerKind, {}, n), literal).v
           = CreateValue(IntegerKind, {}, text.sign * text.magnitude)
<1> DEFINE a == [k |-> "integer", t |-> IntegerKind, typeOf |-> "set", temp |-> FALSE,
                 const |-> FALSE, v |-> n]
           m == text.sign * text.magnitude
<1>1. m \in Int /\ -(Word \div 2) < m /\ m < Word \div 2
  <2>1. Word \div 2 \in Int
    BY WordIsNumber
  <2>2. text.magnitude < Word \div 2
    BY DEF Readable
  <2>3. m = text.magnitude \/ m = -text.magnitude
    OBVIOUS
  <2> DEFINE h == Word \div 2
  <2>4. h \in Int /\ text.magnitude < h
    BY <2>1, <2>2
  <2> HIDE DEF m, h
  <2>5. m \in Int /\ -h < m /\ m < h
    BY <2>3, <2>4
  <2> QED
    BY <2>5 DEF h
<1>2. Wrap(m) = m
  BY <1>1, NoWrap
<1>3. literal.v = m /\ literal.const = TRUE
  BY <1>2 DEF Explicit, WrittenInteger, IntegerLiteral, OverrideType
<1>4. a.k = "integer" /\ a.typeOf = "set" /\ a.t = IntegerKind
  OBVIOUS
<1>5. a = CreateValue(IntegerKind, {}, n)
  BY DEF CreateValue, FamilyOf, Ancestor, IntegerKind, IntegerType
<1>6. [a EXCEPT !.v = m] = CreateValue(IntegerKind, {}, m)
  <2> DEFINE k == "integer"
             typeOf == "set"
             flag == FALSE
             before == [k |-> k, t |-> IntegerKind, typeOf |-> typeOf, temp |-> flag,
                        const |-> flag, v |-> n]
             after == [k |-> k, t |-> IntegerKind, typeOf |-> typeOf, temp |-> flag,
                       const |-> flag, v |-> m]
  <2> HIDE DEF m
  <2>1. CreateValue(IntegerKind, {}, m) = after
    BY DEF CreateValue, FamilyOf, Ancestor, IntegerKind, IntegerType
  <2>2. a = before
    OBVIOUS
  <2> HIDE DEF a, k, typeOf, flag
  <2>3. [before EXCEPT !.v = m] = after
    BY ValueUpdated
  <2> HIDE DEF before, after
  <2> QED
    BY <2>1, <2>2, <2>3, Zenon
<1>7. a.temp = FALSE
  OBVIOUS
<1> HIDE DEF a
<1>8. Has(a, "assign")
  BY <1>4 DEF Has, Methods, IntegerMethods, Common
<1>9. IntegerAssignable(a, literal) = "yes"
  <2>1. AssignableFrom(a, literal) = "yes"
    BY <1>5
  <2> QED
    BY <1>4, <2>1 DEF AssignableFrom
<1>10. Has(literal, "integer") /\ CanHold(a.t, literal) = "yes"
  BY <1>3, <1>4, <1>7, <1>9 DEF IntegerAssignable, Both
<1>11. Assign(a, literal) = NumberAssign(a, literal, "integer")
  BY <1>4, <1>8 DEF Assign
<1>12. NumberAssign(a, literal, "integer") = Done([a EXCEPT !.v = literal.v])
  BY <1>4, <1>10 DEF NumberAssign
<1>13. Assign(a, literal).v = [a EXCEPT !.v = m]
  BY <1>3, <1>11, <1>12 DEF Done
<1> QED
  BY <1>5, <1>6, <1>13

-----------------------------------------------------------------------------
(* The invariant *)

LEMMA InitialsTyped ==
  ASSUME NEW k \in Kinds \union {"SINT"}
  PROVE  InitialValue(k) \in ValuesOf(k)
<1>1. CASE k = "TIME"
  BY <1>1 DEF InitialValue, ValuesOf, Default, DurationDefault, Durations
<1>2. CASE k = "DATE"
  BY <1>2 DEF InitialValue, ValuesOf, Default, DateDefault, Dates
<1>3. CASE k = "TIME_OF_DAY"
  BY <1>3 DEF InitialValue, ValuesOf, Default, TodDefault, Tods
<1>4. CASE k = "DATE_AND_TIME"
  <2>1. DateDefault \in Dates /\ TodDefault \in Tods
    BY DEF DateDefault, TodDefault, Dates, Tods
  <2> QED
    BY <1>4, <2>1 DEF InitialValue, ValuesOf, Default, DateTodDefault
<1>5. CASE k = "SINT"
  BY <1>5 DEF InitialValue, ValuesOf, Default
<1> QED
  BY <1>1, <1>2, <1>3, <1>4, <1>5 DEF Kinds

LEMMA DefaultIsDuration == DurationDefault \in Durations
BY DEF DurationDefault, Durations

LEMMA NothingRead ==
  /\ Nothing \in [to : Targets \union {"none"}, text : Seq(Part), left : Seq(Part)]
  /\ Nothing.left = << >>
BY DEF Nothing

LEMMA LiteralsInit == Init => LiteralsInv
<1> SUFFICES ASSUME Init PROVE LiteralsInv
  OBVIOUS
<1>1. HeldInv
  BY InitialsTyped DEF Init, HeldInv
<1>2. ReadingInv
  BY NothingRead, DefaultIsDuration DEF Init, ReadingInv
<1> QED
  BY <1>1, <1>2 DEF LiteralsInv

\* What a query leaves in the variables.
LEMMA AcceptedTyped ==
  ASSUME HeldInv, kind' = kind, NEW t \in Targets, NEW value \in ValuesOf(kind),
         Accepted(t, value)
  PROVE  HeldInv'
<1>1. held' = [held EXCEPT ![t] = value]
  BY DEF Accepted
<1>2. held \in [Targets -> ValuesOf(kind)] /\ kind \in Kinds \union {"SINT"}
  BY DEF HeldInv
<1>3. held' \in [Targets -> ValuesOf(kind)]
  BY <1>1, <1>2
<1>4. held' \in [Targets -> ValuesOf(kind')]
  BY <1>3
<1> QED
  BY <1>2, <1>4 DEF HeldInv

LEMMA HeldKept ==
  ASSUME HeldInv, kind' = kind, held' = held
  PROVE  HeldInv'
<1>1. held' \in [Targets -> ValuesOf(kind')]
  BY DEF HeldInv
<1> QED
  BY <1>1 DEF HeldInv

LEMMA ReadingKept ==
  ASSUME ReadingInv, UNCHANGED <<kind, reading, locals>>,
         reading = Nothing \/ UNCHANGED outcome
  PROVE  ReadingInv'
BY DEF ReadingInv, locals

LEMMA ReadingOver ==
  ASSUME ReadingInv, reading' = Nothing, Forgotten
  PROVE  ReadingInv'
BY NothingRead, DefaultIsDuration DEF ReadingInv, Forgotten

-----------------------------------------------------------------------------
(* The steps *)

LEMMA BeginStep == LiteralsInv /\ BeginDuration => LiteralsInv'
<1> SUFFICES ASSUME LiteralsInv, BeginDuration PROVE LiteralsInv'
  OBVIOUS
<1>1. HeldInv'
  BY HeldKept DEF BeginDuration, LiteralsInv
<1>2. PICK t \in Targets, text \in DurationTexts : reading' = [to |-> t, text |-> text, left |-> text]
  BY DEF BeginDuration
<1>3. text \in Seq(Part)
  BY TextsAssumption
<1>4. duration' \in Durations
  <2>1. PICK word \in Memory : duration' = [u \in UnitSet |-> word]
    BY DEF BeginDuration
  <2> QED
    BY <2>1, TextsAssumption DEF Durations
<1>5. count' = 0 /\ kind' = "TIME" /\ outcome' = "reading"
  BY DEF BeginDuration
<1>6. reading' \in [to : Targets \union {"none"}, text : Seq(Part), left : Seq(Part)]
  BY <1>2, <1>3
<1>7. /\ reading'.to = t /\ reading'.text = text /\ reading'.left = text
  BY <1>2
<1>8. Len(text) \in Nat
  BY <1>3, LenProperties
<1>9. ReadingInv'
  BY <1>4, <1>5, <1>6, <1>7, <1>8 DEF ReadingInv
<1> QED
  BY <1>1, <1>9 DEF LiteralsInv

\* A part is stored, and it is now the last of its unit.
LEMMA PartStep == LiteralsInv /\ DurationPart => LiteralsInv'
<1> SUFFICES ASSUME LiteralsInv, DurationPart PROVE LiteralsInv'
  OBVIOUS
<1>1. HeldInv'
  BY HeldKept DEF DurationPart, LiteralsInv
<1> DEFINE text == reading.text
           left == reading.left
           part == left[1]
<1>2. /\ reading \in [to : Targets \union {"none"}, text : Seq(Part), left : Seq(Part)]
      /\ text \in Seq(Part) /\ left \in Seq(Part) /\ left # << >>
      /\ duration \in Durations /\ count \in Nat
  BY DEF DurationPart, LiteralsInv, ReadingInv
<1>3. reading # Nothing
  BY <1>2, NothingRead
<1>4. /\ kind = "TIME" /\ reading.to \in Targets /\ outcome = "reading"
      /\ Len(text) = count + Len(left)
      /\ \A i \in 1..Len(left) : left[i] = text[count + i]
      /\ \A i \in 1..count :
           (\A j \in 1..count : text[j].unit = text[i].unit => j <= i)
             => duration[text[i].unit] = text[i].number
  BY <1>3 DEF LiteralsInv, ReadingInv
<1>5. Len(left) \in Nat /\ Len(left) >= 1 /\ part \in Part
  BY <1>2, LenProperties, EmptySeq
<1>6. /\ Tail(left) \in Seq(Part) /\ Len(Tail(left)) = Len(left) - 1
      /\ \A i \in 1..(Len(left) - 1) : Tail(left)[i] = left[i + 1]
  BY <1>2, HeadTailProperties
<1>7. /\ reading' = [reading EXCEPT !.left = Tail(left)]
      /\ duration' = [duration EXCEPT ![part.unit] = part.number]
      /\ count' = count + 1 /\ kind' = kind /\ outcome' = outcome
  BY DEF DurationPart
<1>8. /\ reading' \in [to : Targets \union {"none"}, text : Seq(Part), left : Seq(Part)]
      /\ reading'.to = reading.to /\ reading'.text = text /\ reading'.left = Tail(left)
  BY <1>2, <1>6, <1>7
<1>9. part.unit \in UnitSet /\ part.number \in Int /\ part = text[count + 1]
  BY <1>4, <1>5 DEF Part
<1>10. duration' \in Durations
  BY <1>2, <1>7, <1>9 DEF Durations
<1> HIDE DEF text, left, part
<1>11. Len(text) = (count + 1) + Len(Tail(left))
  BY <1>2, <1>4, <1>5, <1>6
<1>12. \A i \in 1..Len(Tail(left)) : Tail(left)[i] = text[(count + 1) + i]
  <2> TAKE i \in 1..Len(Tail(left))
  <2>1. i \in 1..(Len(left) - 1) /\ i + 1 \in 1..Len(left)
    BY <1>5, <1>6
  <2>2. Tail(left)[i] = left[i + 1] /\ left[i + 1] = text[count + (i + 1)]
    BY <1>4, <1>6, <2>1
  <2>3. count + (i + 1) = (count + 1) + i
    BY <1>2, <2>1
  <2> QED
    BY <2>2, <2>3
<1>13. ASSUME NEW i \in 1..(count + 1),
              \A j \in 1..(count + 1) : text[j].unit = text[i].unit => j <= i
       PROVE  duration'[text[i].unit] = text[i].number
  <2>1. CASE i = count + 1
    BY <1>2, <1>7, <1>9, <2>1 DEF Durations
  <2>2. CASE i # count + 1
    <3>1. i \in 1..count /\ \A j \in 1..count : j \in 1..(count + 1)
      BY <1>2, <2>2
    <3>2. text[count + 1].unit # text[i].unit
      <4>1. count + 1 \in 1..(count + 1) /\ ~(count + 1 <= i)
        BY <1>2, <3>1
      <4> QED
        BY <1>13, <4>1
    <3>3. duration[text[i].unit] = text[i].number
      BY <1>4, <1>13, <3>1
    <3>4. text[i].unit # part.unit
      BY <1>9, <3>2
    <3>5. text[i].unit \in UnitSet
      <4>1. i \in 1..Len(text)
        BY <1>2, <1>4, <1>5, <3>1
      <4>2. text[i] \in Part
        BY <1>2, <4>1, ElementOfSeq
      <4> QED
        BY <4>2 DEF Part
    <3>6. duration'[text[i].unit] = duration[text[i].unit]
      BY <1>2, <1>7, <3>4, <3>5 DEF Durations
    <3> QED
      BY <3>3, <3>6
  <2> QED
    BY <2>1, <2>2
<1>14. /\ Len(reading'.text) = count' + Len(reading'.left)
       /\ \A i \in 1..Len(reading'.left) : reading'.left[i] = reading'.text[count' + i]
  BY <1>7, <1>8, <1>11, <1>12
<1>15. \A i \in 1..count' :
         (\A j \in 1..count' : reading'.text[j].unit = reading'.text[i].unit => j <= i)
           => duration'[reading'.text[i].unit] = reading'.text[i].number
  BY <1>7, <1>8, <1>13
<1>16. kind' = "TIME" /\ outcome' = "reading" /\ reading'.to \in Targets /\ count' \in Nat
  BY <1>2, <1>4, <1>7, <1>8
<1>17. ReadingInv'
  BY <1>8, <1>10, <1>14, <1>15, <1>16, Zenon DEF ReadingInv
<1> QED
  BY <1>1, <1>17 DEF LiteralsInv

LEMMA UnreadableStep == LiteralsInv /\ DurationUnreadable => LiteralsInv'
<1> SUFFICES ASSUME LiteralsInv, DurationUnreadable PROVE LiteralsInv'
  OBVIOUS
<1>1. HeldInv'
  BY HeldKept DEF DurationUnreadable, Rejected, LiteralsInv
<1>2. ReadingInv'
  BY ReadingOver DEF DurationUnreadable, LiteralsInv
<1> QED
  BY <1>1, <1>2 DEF LiteralsInv

LEMMA EndStep == LiteralsInv /\ EndDuration => LiteralsInv'
<1> SUFFICES ASSUME LiteralsInv, EndDuration PROVE LiteralsInv'
  OBVIOUS
<1>1. kind' = kind /\ kind = "TIME" /\ reading.to \in Targets /\ duration \in Durations
  BY DEF EndDuration, LiteralsInv, ReadingInv
<1>2. duration \in ValuesOf(kind)
  BY <1>1 DEF ValuesOf
<1>3. HeldInv'
  <2>1. CASE defined = {} \/ TooManyFractions
    BY <2>1, <1>1, HeldKept DEF EndDuration, Rejected, LiteralsInv
  <2>2. CASE ~(defined = {} \/ TooManyFractions)
    BY <2>2, <1>1, <1>2, AcceptedTyped DEF EndDuration, LiteralsInv
  <2> QED
    BY <2>1, <2>2
<1>4. ReadingInv'
  BY ReadingOver DEF EndDuration, LiteralsInv
<1> QED
  BY <1>3, <1>4 DEF LiteralsInv

\* The literals that are read as a whole.
LEMMA QueryStep ==
  ASSUME LiteralsInv, UNCHANGED <<kind, reading, locals>>, Idle,
         NEW text \in ValuesOf(kind), NEW valid \in BOOLEAN, Query(text, valid)
  PROVE  LiteralsInv'
<1>1. ReadingInv'
  BY ReadingKept DEF LiteralsInv, Idle
<1>2. PICK t \in Targets : IF valid THEN Accepted(t, text) ELSE Rejected
  BY DEF Query
<1>3. HeldInv'
  <2>1. CASE valid
    BY <1>2, <2>1, AcceptedTyped DEF LiteralsInv
  <2>2. CASE ~valid
    BY <1>2, <2>2, HeldKept DEF LiteralsInv, Rejected
  <2> QED
    BY <2>1, <2>2
<1> QED
  BY <1>1, <1>3 DEF LiteralsInv

\* An integer is accepted as it was written.
LEMMA IntegerAccepted ==
  ASSUME HeldInv, kind = "SINT", NEW t \in Targets, NEW text \in IntegerTexts,
         NEW literal, literal = Explicit(text.type, WrittenInteger(text)),
         Readable(text), AssignableFrom(held[t], literal) = "yes"
  PROVE  /\ text.sign * text.magnitude \in Int
         /\ Assign(held[t], literal).v = CreateValue(IntegerKind, {}, text.sign * text.magnitude)
<1>1. PICK n \in Int : held[t] = CreateValue(IntegerKind, {}, n)
  <2>1. held[t] \in ValuesOf(kind)
    BY DEF HeldInv
  <2>2. ValuesOf(kind) = {CreateValue(IntegerKind, {}, n) : n \in Int}
    BY DEF ValuesOf
  <2> QED
    BY <2>1, <2>2
<1>2. text.magnitude \in Nat /\ text.sign \in {1, -1}
  BY TextsAssumption
<1>3. AssignableFrom(CreateValue(IntegerKind, {}, n), literal) = "yes"
  BY <1>1
<1>4. Assign(CreateValue(IntegerKind, {}, n), literal).v
        = CreateValue(IntegerKind, {}, text.sign * text.magnitude)
  BY <1>2, <1>3, IntegerStored
<1> QED
  BY <1>1, <1>2, <1>4

LEMMA IntegerStep == LiteralsInv /\ ReadInteger => LiteralsInv'
<1> SUFFICES ASSUME LiteralsInv, ReadInteger PROVE LiteralsInv'
  OBVIOUS
<1>1. kind = "SINT" /\ UNCHANGED <<kind, reading, locals>> /\ reading = Nothing
  BY DEF ReadInteger, Idle
<1>2. ReadingInv'
  BY <1>1, ReadingKept DEF LiteralsInv
<1>3. PICK t \in Targets, text \in IntegerTexts :
        LET literal == Explicit(text.type, WrittenInteger(text))
        IN IF /\ Readable(text) /\ Holds(text.type, WrittenInteger(text))
              /\ AssignableFrom(held[t], literal) = "yes"
           THEN Accepted(t, Assign(held[t], literal).v)
           ELSE Rejected
  BY DEF ReadInteger
<1> DEFINE literal == Explicit(text.type, WrittenInteger(text))
<1>4. CASE /\ Readable(text) /\ Holds(text.type, WrittenInteger(text))
           /\ AssignableFrom(held[t], literal) = "yes"
  <2> DEFINE value == Assign(held[t], literal).v
             m == text.sign * text.magnitude
  <2>1. m \in Int /\ value = CreateValue(IntegerKind, {}, m)
    BY <1>1, <1>4, IntegerAccepted DEF LiteralsInv
  <2>2. Accepted(t, value)
    BY <1>3, <1>4
  <2> HIDE DEF value, m
  <2>3. ValuesOf(kind) = {CreateValue(IntegerKind, {}, n) : n \in Int}
    BY <1>1 DEF ValuesOf
  <2>4. value \in ValuesOf(kind)
    BY <2>1, <2>3
  <2>5. HeldInv'
    BY <1>1, <2>2, <2>4, AcceptedTyped DEF LiteralsInv
  <2> QED
    BY <1>2, <2>5 DEF LiteralsInv
<1>5. CASE ~(/\ Readable(text) /\ Holds(text.type, WrittenInteger(text))
             /\ AssignableFrom(held[t], literal) = "yes")
  <2>1. Rejected
    BY <1>3, <1>5
  <2>2. HeldInv'
    BY <1>1, <2>1, HeldKept DEF Rejected, LiteralsInv
  <2> QED
    BY <1>2, <2>2 DEF LiteralsInv
<1> QED
  BY <1>4, <1>5

LEMMA LiteralsNext == LiteralsInv /\ [Next]_vars => LiteralsInv'
<1> SUFFICES ASSUME LiteralsInv, [Next]_vars PROVE LiteralsInv'
  OBVIOUS
<1>1. CASE BeginDuration
  BY <1>1, BeginStep
<1>2. CASE DurationPart
  BY <1>2, PartStep
<1>3. CASE DurationUnreadable
  BY <1>3, UnreadableStep
<1>4. CASE EndDuration
  BY <1>4, EndStep
<1>5. CASE ReadDate
  <2>1. PICK text \in DateTexts : Query(text, ValidDate(text))
    BY <1>5 DEF ReadDate
  <2>2. text \in ValuesOf(kind) /\ UNCHANGED <<kind, reading, locals>> /\ Idle
    BY <1>5, TextsAssumption DEF ReadDate, ValuesOf
  <2>3. ValidDate(text) \in BOOLEAN
    BY DEF ValidDate
  <2> QED
    BY <2>1, <2>2, <2>3, QueryStep
<1>6. CASE ReadTod
  <2>1. PICK text \in TodTexts : Query(text, ValidTod(text))
    BY <1>6 DEF ReadTod
  <2>2. text \in ValuesOf(kind) /\ UNCHANGED <<kind, reading, locals>> /\ Idle
    BY <1>6, TextsAssumption DEF ReadTod, ValuesOf
  <2>3. ValidTod(text) \in BOOLEAN
    BY DEF ValidTod
  <2> QED
    BY <2>1, <2>2, <2>3, QueryStep
<1>7. CASE ReadDateTod
  <2>1. PICK date \in DateTexts, tod \in TodTexts :
          Query([date |-> date, tod |-> tod], ValidDate(date) /\ ValidTod(tod))
    BY <1>7 DEF ReadDateTod
  <2>2. [date |-> date, tod |-> tod] \in ValuesOf(kind) /\ UNCHANGED <<kind, reading, locals>> /\ Idle
    BY <1>7, TextsAssumption DEF ReadDateTod, ValuesOf
  <2> QED
    BY <2>1, <2>2, QueryStep
<1>8. CASE ReadInteger
  BY <1>8, IntegerStep
<1>9. CASE Restart
  <2>1. UNCHANGED <<kind, reading, locals>> /\ reading = Nothing
    BY <1>9 DEF Restart, Idle
  <2>2. InitialValue(kind) \in ValuesOf(kind)
    BY InitialsTyped DEF LiteralsInv, HeldInv
  <2>3. held' \in [Targets -> ValuesOf(kind)]
    BY <1>9, <2>2 DEF Restart
  <2>4. held' \in [Targets -> ValuesOf(kind')] /\ kind' \in Kinds \union {"SINT"}
    BY <2>1, <2>3 DEF LiteralsInv, HeldInv
  <2> QED
    BY <2>1, <2>4, ReadingKept DEF LiteralsInv, HeldInv
<1>10. CASE UNCHANGED vars
  <2>1. UNCHANGED <<kind, reading, locals>> /\ UNCHANGED outcome /\ held' = held
    BY <1>10 DEF vars, locals
  <2> QED
    BY <2>1, HeldKept, ReadingKept DEF LiteralsInv
<1> QED
  BY <1>1, <1>2, <1>3, <1>4, <1>5, <1>6, <1>7, <1>8, <1>9, <1>10 DEF Next

-----------------------------------------------------------------------------
(* The theorems *)

LEMMA LiteralsCompare == LiteralsInv => ComparisonsConsistent
<1> SUFFICES ASSUME LiteralsInv, kind \in Kinds, NEW s \in Targets, NEW t \in Targets
             PROVE  /\ Equals(kind, held[s], held[t]) <=> held[s] = held[t]
                    /\ Greater(kind, held[s], held[t]) <=> Lesser(kind, held[t], held[s])
                    /\ Later(kind, held[s], held[t]) => Greater(kind, held[s], held[t])
  BY DEF ComparisonsConsistent
<1>1. held[s] \in ValuesOf(kind) /\ held[t] \in ValuesOf(kind)
  BY DEF LiteralsInv, HeldInv
<1> QED
  BY <1>1, ComparisonsFit

\* An accepted duration has the last number of each unit.
LEMMA DurationStored ==
  ASSUME LiteralsInv, [Next]_vars, reading # Nothing, outcome' = "accepted",
         NEW u \in UnitSet, NEW i \in LastWritten(reading.text, u)
  PROVE  held'[reading.to][u] = reading.text[i].number
<1>1. outcome = "reading" /\ kind = "TIME" /\ reading.to \in Targets
  BY DEF LiteralsInv, ReadingInv
<1>2. EndDuration
  BY <1>1 DEF Next, vars, BeginDuration, DurationPart, DurationUnreadable, Rejected, ReadDate,
              ReadTod, ReadDateTod, ReadInteger, Restart, Idle
<1>3. held' = [held EXCEPT ![reading.to] = duration] /\ reading.left = << >>
  BY <1>2 DEF EndDuration, Rejected, Accepted
<1>4. held'[reading.to] = duration
  BY <1>1, <1>3 DEF LiteralsInv, HeldInv
<1>5. /\ Len(reading.text) = count /\ reading.text \in Seq(Part)
      /\ \A k \in 1..count :
           (\A j \in 1..count : reading.text[j].unit = reading.text[k].unit => j <= k)
             => duration[reading.text[k].unit] = reading.text[k].number
  BY <1>3, EmptySeq DEF LiteralsInv, ReadingInv
<1>6. DOMAIN reading.text = 1..count
  BY <1>5, LenProperties
<1>7. i \in 1..count /\ reading.text[i].unit = u
      /\ \A j \in 1..count : reading.text[j].unit = u => j <= i
  BY <1>6 DEF LastWritten, Written
<1> QED
  BY <1>4, <1>5, <1>7

LEMMA IntegerWritten ==
  ASSUME LiteralsInv, ReadInteger, outcome' = "accepted"
  PROVE  \E t \in Targets, text \in IntegerTexts : held'[t].v = text.sign * text.magnitude
<1>1. PICK t \in Targets, text \in IntegerTexts :
        LET literal == Explicit(text.type, WrittenInteger(text))
        IN IF /\ Readable(text) /\ Holds(text.type, WrittenInteger(text))
              /\ AssignableFrom(held[t], literal) = "yes"
           THEN Accepted(t, Assign(held[t], literal).v)
           ELSE Rejected
  BY DEF ReadInteger
<1> DEFINE literal == Explicit(text.type, WrittenInteger(text))
           value == Assign(held[t], literal).v
           m == text.sign * text.magnitude
<1>2. ~Rejected
  BY DEF Rejected
<1>3. Readable(text) /\ AssignableFrom(held[t], literal) = "yes" /\ Accepted(t, value)
  BY <1>1, <1>2
<1>4. value = CreateValue(IntegerKind, {}, m)
  BY <1>3, IntegerAccepted DEF ReadInteger, LiteralsInv
<1> HIDE DEF value, m
<1>5. held'[t] = value
  BY <1>3 DEF Accepted, LiteralsInv, HeldInv
<1>6. value.v = m
  BY <1>4 DEF CreateValue
<1> QED
  BY <1>5, <1>6 DEF m

LEMMA LiteralsStored ==
  LiteralsInv /\ [Next]_vars =>
    [/\ (reading # Nothing /\ outcome' = "accepted") =>
           \A u \in UnitSet : \A i \in LastWritten(reading.text, u) :
             held'[reading.to][u] = reading.text[i].number
     /\ (ReadInteger /\ outcome' = "accepted") =>
           \E t \in Targets, text \in IntegerTexts : held'[t].v = text.sign * text.magnitude]_vars
BY DurationStored, IntegerWritten

\* Whatever dates, times and durations are assigned and whatever the stack
\* held: of two different values one is greater, the later one is, greater
\* one way is lesser the other way, and equal values are the same.
THEOREM ComparisonsFitTogether == Spec => []ComparisonsConsistent
<1>1. Init => LiteralsInv
  BY LiteralsInit
<1>2. LiteralsInv /\ [Next]_vars => LiteralsInv'
  BY LiteralsNext
<1>3. LiteralsInv => ComparisonsConsistent
  BY LiteralsCompare
<1> QED
  BY <1>1, <1>2, <1>3, PTL DEF Spec

\* Whatever texts are read: an accepted duration has the last number that was
\* written of each unit, and an accepted integer the number that was written,
\* which never wraps around.
THEOREM LiteralsAreKept == Spec => ReadAsWritten
<1>1. Init => LiteralsInv
  BY LiteralsInit
<1>2. LiteralsInv /\ [Next]_vars => LiteralsInv'
  BY LiteralsNext
<1>3. LiteralsInv /\ [Next]_vars =>
    [/\ (reading # Nothing /\ outcome' = "accepted") =>
           \A u \in UnitSet : \A i \in LastWritten(reading.text, u) :
             held'[reading.to][u] = reading.text[i].number
     /\ (ReadInteger /\ outcome' = "accepted") =>
           \E t \in Targets, text \in IntegerTexts : held'[t].v = text.sign * text.magnitude]_vars
  BY LiteralsStored
<1> QED
  BY <1>1, <1>2, <1>3, PTL DEF Spec, ReadAsWritten

-----------------------------------------------------------------------------
(* Fractions *)

\* The flags are those of the parts that were read.
FlagsInv ==
  reading # Nothing =>
    /\ reading.text # << >>
    /\ defined = {reading.text[i].unit : i \in 1..count}
    /\ fractions = {reading.text[i].unit : i \in {j \in 1..count : IsFraction(reading.text[j].number)}}

LEMMA FlagsNext ==
  ASSUME LiteralsInv, FlagsInv, [Next]_vars
  PROVE  FlagsInv'
<1>1. CASE BeginDuration
  <2>1. PICK t \in Targets, text \in DurationTexts : reading' = [to |-> t, text |-> text, left |-> text]
    BY <1>1 DEF BeginDuration
  <2>2. /\ reading'.text = text /\ text # << >>
        /\ defined' = {} /\ fractions' = {} /\ count' = 0
    BY <1>1, <2>1, TextsAssumption DEF BeginDuration
  <2> QED BY <2>2 DEF FlagsInv
<1>2. CASE DurationPart
  <2> DEFINE text == reading.text
             part == reading.left[1]
             n == count + 1
             Fractional(k) == {j \in 1..k : IsFraction(text[j].number)}
  <2>1. /\ reading \in [to : Targets \union {"none"}, text : Seq(Part), left : Seq(Part)]
        /\ reading # Nothing /\ reading.left \in Seq(Part) /\ reading.left # << >> /\ count \in Nat
    BY <1>2, NothingRead DEF DurationPart, LiteralsInv, ReadingInv
  <2>2. part = text[n]
    <3>1. 1 \in 1..Len(reading.left)
      BY <2>1, LenProperties, EmptySeq
    <3> QED BY <2>1, <3>1 DEF LiteralsInv, ReadingInv
  <2>3. text # << >> /\ defined = {text[i].unit : i \in 1..count}
        /\ fractions = {text[i].unit : i \in Fractional(count)}
    BY <2>1 DEF FlagsInv
  <2>4. /\ defined' = defined \union {part.unit} /\ count' = n
        /\ fractions' = fractions \union (IF IsFraction(part.number) THEN {part.unit} ELSE {})
        /\ reading'.text = text
    BY <1>2, <2>1 DEF DurationPart
  <2>5. 1..n = (1..count) \union {n}
    BY <2>1
  <2>6. Fractional(n) = Fractional(count) \union (IF IsFraction(text[n].number) THEN {n} ELSE {})
    BY <2>5
  <2> HIDE DEF text, part, n
  <2>7. defined' = {text[i].unit : i \in 1..n}
    BY <2>2, <2>3, <2>4, <2>5
  <2> HIDE DEF Fractional
  <2>8. fractions' = {text[i].unit : i \in Fractional(n)}
    BY <2>2, <2>3, <2>4, <2>6
  <2>9. fractions' = {reading'.text[i].unit : i \in {j \in 1..count' : IsFraction(reading'.text[j].number)}}
    BY <2>4, <2>8 DEF Fractional
  <2> QED BY <2>3, <2>4, <2>7, <2>9 DEF FlagsInv
<1>3. CASE DurationUnreadable \/ EndDuration
  BY <1>3 DEF DurationUnreadable, EndDuration, FlagsInv
<1>4. CASE ReadDate \/ ReadTod \/ ReadDateTod \/ ReadInteger \/ Restart \/ UNCHANGED vars
  <2>1. UNCHANGED <<reading, defined, fractions, count>>
    BY <1>4 DEF ReadDate, ReadTod, ReadDateTod, ReadInteger, Restart, vars, locals
  <2> QED BY <2>1 DEF FlagsInv
<1> QED BY <1>1, <1>2, <1>3, <1>4 DEF Next

\* A part of the units is not a larger number, and a smaller one when a unit
\* is missing.
LEMMA BitsOfSubset ==
  ASSUME NEW f, NEW d, f \subseteq d, d \subseteq UnitSet
  PROVE  AsBits(f) <= AsBits(d) /\ (AsBits(f) = AsBits(d) => d \subseteq f)
<1>1. UnitSet = {"d", "h", "m", "s", "ms"}
  BY DEF UnitSet, Units
<1> QED BY <1>1 DEF AsBits

\* Units stand at one place.
LEMMA UnitsDiffer ==
  ASSUME NEW m \in DOMAIN Units, NEW n \in DOMAIN Units, m < n
  PROVE  Units[m] # Units[n]
BY DEF Units

\* A whole number is taken for a fraction if a float cannot hold it.
LEMMA WholeFraction ==
  ASSUME NEW n \in Nat, n % Scale = 0, IsFraction(n)
  PROVE  ~InFloat(n \div Scale)
<1> DEFINE q == n \div Scale
           nearest == (n + Scale \div 2) \div Scale
<1>1. n = q * Scale /\ q \in Nat
  BY DEF Scale
<1>2. nearest = q
  BY <1>1 DEF Scale
<1>3. n - nearest * Scale = 0
  BY <1>1, <1>2 DEF Scale
<1>4. AbsOf(0) = 0 /\ ~(10000 * 0 >= Scale)
  BY DEF AbsOf, Scale
<1>5. AbsOf(n - nearest * Scale) = 0
  BY <1>3, <1>4
<1>6. ~InFloat(nearest)
  BY <1>4, <1>5 DEF IsFraction
<1> QED BY <1>2, <1>6

\* A duration that is refused is not written as it should be, or beyond floats.
LEMMA RefusedIsImproper ==
  ASSUME LiteralsInv, FlagsInv, [Next]_vars, reading # Nothing, outcome' = "rejected",
         ProperDuration(reading.text)
  PROVE  BeyondFloats(reading.text)
<1> DEFINE text == reading.text
<1>1. /\ outcome = "reading" /\ text \in Seq(Part) /\ count \in Nat /\ text # << >>
      /\ reading.left \in Seq(Part) /\ Len(text) = count + Len(reading.left)
      /\ \A i \in 1..Len(reading.left) : reading.left[i] = text[count + i]
      /\ DOMAIN text = 1..Len(text) /\ Len(text) \in Nat /\ Len(reading.left) \in Nat
  BY LenProperties DEF LiteralsInv, ReadingInv, FlagsInv
<1>2. DurationUnreadable \/ EndDuration
  BY <1>1 DEF Next, vars, BeginDuration, DurationPart, ReadDate, ReadTod, ReadDateTod,
              ReadInteger, Restart, Idle
<1>3. CASE DurationUnreadable
  <2>1. reading.left # << >> /\ Unreadable(reading.left[1])
    BY <1>3 DEF DurationUnreadable
  <2>2. 1 \in 1..Len(reading.left) /\ count + 1 \in 1..Len(text)
    BY <1>1, <2>1, EmptySeq
  <2>3. Unreadable(text[count + 1])
    BY <1>1, <2>1, <2>2
  <2> QED BY <1>1, <2>2, <2>3 DEF ProperDuration
<1>4. CASE EndDuration
  <2>1. reading.left = << >> /\ (defined = {} \/ TooManyFractions)
    BY <1>4 DEF EndDuration, Accepted
  <2>2. count = Len(text) /\ count \in 1..count
    BY <1>1, <2>1, EmptySeq
  <2>3. /\ defined = {text[i].unit : i \in 1..count}
        /\ fractions = {text[i].unit : i \in {j \in 1..count : IsFraction(text[j].number)}}
    BY DEF FlagsInv
  <2>4. ProperDuration(text)
    OBVIOUS
  <2> HIDE DEF text
  <2>5. \A i \in 1..count : text[i].unit \in UnitSet /\ text[i].number \in Nat
    <3> TAKE i \in 1..count
    <3>1. i \in 1..Len(text)
      BY <2>2
    <3>2. text[i] \in Part
      BY <1>1, <3>1, ElementOfSeq
    <3> QED BY <3>2 DEF Part
  <2>6. fractions \subseteq defined /\ defined \subseteq UnitSet /\ defined # {}
    BY <2>2, <2>3, <2>5
  <2>7. AsBits(fractions) <= AsBits(defined) /\ AsBits(fractions) \in Int /\ AsBits(defined) \in Int
    <3>1. AsBits(fractions) \in Int /\ AsBits(defined) \in Int
      BY DEF AsBits
    <3> QED BY <2>6, <3>1, BitsOfSubset
  <2>8. count > 1 /\ AsBits(fractions) = AsBits(defined)
    BY <2>1, <2>6, <2>7 DEF TooManyFractions
  <2>9. defined \subseteq fractions
    BY <2>6, <2>8, BitsOfSubset
  \* Each part has a unit of its own, so its flag is its own.
  <2>10. \A i, j \in 1..count : j < i => text[j].unit # text[i].unit
    <3> SUFFICES ASSUME NEW i \in 1..count, NEW j \in 1..count, j < i
                 PROVE  text[j].unit # text[i].unit
      OBVIOUS
    <3>1. i \in DOMAIN text /\ j \in 1..i - 1
      BY <1>1, <2>2
    <3>2. \E m, n \in DOMAIN Units : m < n /\ Units[m] = text[j].unit /\ Units[n] = text[i].unit
      BY <2>4, <3>1 DEF ProperDuration
    <3> QED BY <3>2, UnitsDiffer
  <2>11. ASSUME NEW i \in 1..Len(text) - 1
         PROVE  ~InFloat(text[i].number \div Scale)
    <3>1. i \in 1..count /\ i \in DOMAIN text /\ i < Len(text) /\ i \in Int
      BY <1>1, <2>2
    <3>2. PICK j \in 1..count : IsFraction(text[j].number) /\ text[j].unit = text[i].unit
      BY <2>3, <2>9, <3>1
    <3>3. i = j
      BY <2>10, <3>1, <3>2
    <3>4. text[i].number % Scale = 0
      BY <2>4, <3>1 DEF ProperDuration
    <3> QED BY <2>5, <3>1, <3>2, <3>3, <3>4, WholeFraction
  <2> QED BY <2>2, <2>8, <2>11 DEF BeyondFloats, text
<1> QED BY <1>2, <1>3, <1>4

\* Whatever texts are read: a duration whose units go from large to small, each
\* once, and that has a fraction in its last part only, is refused only if no
\* number before the last is one a float can hold, although the code compares
\* flags as numbers.
THEOREM ProperIsAccepted == Spec => ProperAccepted
<1>1. Init => LiteralsInv /\ FlagsInv
  BY LiteralsInit DEF Init, FlagsInv
<1>2. LiteralsInv /\ FlagsInv /\ [Next]_vars => (LiteralsInv /\ FlagsInv)'
  BY LiteralsNext, FlagsNext
<1>3. LiteralsInv /\ FlagsInv /\ [Next]_vars =>
        [(reading # Nothing /\ outcome' = "rejected" /\ ProperDuration(reading.text))
           => BeyondFloats(reading.text)]_vars
  BY RefusedIsImproper
<1> QED
  BY <1>1, <1>2, <1>3, PTL DEF Spec, ProperAccepted
=============================================================================
