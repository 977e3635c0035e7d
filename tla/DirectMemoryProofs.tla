------------------------- MODULE DirectMemoryProofs -------------------------
(***************************************************************************)
(* Variables and direct memory, for every file, every memory and every     *)
(* bits per byte: a field is inside of the memory, what is written to it   *)
(* is read from it, and what is around it stays.                           *)
(***************************************************************************)
EXTENDS DirectMemory, TLAPS

WF == INSTANCE WellFoundedInduction

\* An address of the memory, as the parser checks it.
AddressType ==
  [unit : {"X", "B", "W", "D", "L"}, byte : Nat, bit : Nat, bits : Nat]
Valid(a) == a \in AddressType /\ Inside(a)

\* Every address that was parsed is valid, and the memory keeps its size.
AddressInv ==
  /\ declared \in Layouts
  /\ DOMAIN memory = 0..(Size - 1)
  /\ DOMAIN addresses \subseteq Names
  /\ \A n \in DOMAIN addresses : Valid(addresses[n])

-----------------------------------------------------------------------------

\* A smaller number of bits is not a larger number of bytes.
LEMMA FewerBytes ==
  ASSUME NEW a \in Nat, NEW b \in Nat, NEW c \in Nat \ {0}, a <= b
  PROVE  a \div c \in Nat /\ b \div c \in Nat /\ a \div c <= b \div c
<1>1. a \div c \in Nat
  OBVIOUS
<1>2. b \div c \in Nat
  OBVIOUS
<1>3. a \div c <= b \div c
  OBVIOUS
<1> QED
  BY <1>1, <1>2, <1>3

\* An address that the parser accepts is valid.
LEMMA ParsedIsValid ==
  ASSUME NEW d, d.index \in Nat, d.sub \in Nat, NEW a \in NewAddress(d)
  PROVE  Valid(a)
<1>1. Inside(a) /\ a \in Addresses(d)
  BY DEF NewAddress
<1>2. Unit(d) \in {"X", "B", "W", "D", "L"} /\ Index(d) \in Nat
  BY DEF Unit, Index
<1>3. CASE Unit(d) = "X"
  BY <1>1, <1>2, <1>3 DEF Addresses, Valid, AddressType
<1>4. CASE Unit(d) # "X"
  <2>1. UnitBytes(Unit(d)) \in Nat
    BY <1>2, <1>4 DEF UnitBytes
  <2>2. Index(d) * UnitBytes(Unit(d)) \in Nat /\ UnitBytes(Unit(d)) * ByteBits \in Nat
    BY <1>2, <2>1, ByteBitsAssumption
  <2>3. a = [unit |-> Unit(d), byte |-> Index(d) * UnitBytes(Unit(d)), bit |-> 0,
             bits |-> UnitBytes(Unit(d)) * ByteBits]
    BY <1>1, <1>4 DEF Addresses
  <2> QED
    BY <1>1, <1>2, <2>2, <2>3 DEF Valid, AddressType
<1> QED
  BY <1>3, <1>4

\* The types have their bits.
LEMMA BitsAreNatural ==
  ASSUME NEW id \in IntegerIds
  PROVE  Bits(id) \in Nat
<1>1. id \in SignedIds => SignedBytes[id] \in Nat
  BY DEF SignedIds, SignedBytes
<1>2. id \in UnsignedIds => UnsignedBytes[id] \in Nat
  BY DEF UnsignedIds, UnsignedBytes
<1>3. id \in BitIds => BitBytes[id] \in Nat
  BY DEF BitIds, BitBytes
<1>4. id \in SignedIds \union UnsignedIds \union BitIds
  BY DEF IntegerIds
<1> DEFINE bytes == IF id \in SignedIds THEN SignedBytes[id]
                    ELSE IF id \in UnsignedIds THEN UnsignedBytes[id] ELSE BitBytes[id]
<1>5. bytes \in Nat
  BY <1>1, <1>2, <1>3, <1>4
<1>6. Bits(id) = ByteBits * bytes
  BY DEF Bits
<1> HIDE DEF bytes
<1>7. ByteBits \in Nat
  BY ByteBitsAssumption
<1>8. ByteBits * bytes \in Nat
  BY <1>5, <1>7
<1> QED
  BY <1>6, <1>8

\* A type narrows a valid address to a valid one.
LEMMA NarrowedIsValid ==
  ASSUME NEW t, NEW a, Valid(a), NEW b \in Validated(t, a)
  PROVE  Valid(b)
<1>1. a \in AddressType /\ Inside(a)
  BY DEF Valid
<1>2. CASE b = a
  BY <1>2
<1>3. CASE b # a
  <2>1. /\ BaseClass(t) \in IntegerIds /\ Bits(BaseClass(t)) <= a.bits
        /\ b = [a EXCEPT !.bits = Bits(BaseClass(t))]
    <3> DEFINE narrowed == IF Bits(BaseClass(t)) > a.bits THEN {} ELSE {[a EXCEPT !.bits = Bits(BaseClass(t))]}
    <3>1. \/ Validated(t, a) = {a} \/ Validated(t, a) = {}
          \/ BaseClass(t) \in IntegerIds \ {"LINT"} /\ Validated(t, a) = narrowed
      BY DEF Validated
    <3>2. BaseClass(t) \in IntegerIds \ {"LINT"}
      BY <1>3, <3>1
    <3>3. b \in narrowed
      BY <1>3, <3>1
    <3>4. Bits(BaseClass(t)) \in Nat /\ a.bits \in Nat
      BY <1>1, <3>2, BitsAreNatural DEF AddressType
    <3> QED
      BY <3>2, <3>3, <3>4
  <2> DEFINE n == Bits(BaseClass(t))
  <2>2. n \in Nat
    BY <2>1, BitsAreNatural
  <2>3. b = [a EXCEPT !.bits = n] /\ n <= a.bits
    BY <2>1
  <2> HIDE DEF n
  <2>4. b \in AddressType /\ b.byte = a.byte /\ b.bit = a.bit /\ b.bits = n
    BY <1>1, <2>2, <2>3 DEF AddressType
  <2>5. a.bits \in Nat /\ a.byte \in Nat /\ a.bit \in Nat
    BY <1>1 DEF AddressType
  <2>6. a.bits \div ByteBits \in Nat /\ n \div ByteBits \in Nat /\ n \div ByteBits <= a.bits \div ByteBits
    BY <2>2, <2>3, <2>5, FewerBytes, ByteBitsAssumption
  <2>7. a.bit \div ByteBits \in Nat
    BY <2>5, FewerBytes, ByteBitsAssumption
  <2> DEFINE s == a.byte + a.bit \div ByteBits
  <2>8. s \in Nat /\ Storage(a) = s /\ Storage(b) = s
    BY <2>4, <2>5, <2>7 DEF Storage
  <2> HIDE DEF s
  <2>9. a.byte < Size /\ s < Size /\ s + n \div ByteBits <= Size
    BY <1>1, <2>6, <2>8, SizeAssumption DEF Inside
  <2> QED
    BY <2>4, <2>8, <2>9 DEF Valid, Inside
<1> QED
  BY <1>2, <1>3

\* The field of a valid address is inside of the memory.
LEMMA FieldInside ==
  ASSUME NEW t, NEW a, Valid(a)
  PROVE  FieldBytes(t, a) \subseteq 0..(Size - 1)
<1>1. a.bits \in Nat /\ a.byte \in Nat /\ a.bit \in Nat /\ Inside(a)
  BY DEF Valid, AddressType
<1>2. a.bits \div ByteBits \in Nat /\ a.bit \div ByteBits \in Nat
  BY <1>1, FewerBytes, ByteBitsAssumption
<1> DEFINE s == Storage(a)
           k == a.bits \div ByteBits
<1>3. s \in Nat /\ k \in Nat /\ s < Size /\ s + k <= Size
  BY <1>1, <1>2 DEF Storage, Inside
<1>4. FieldBytes(t, a) \subseteq {s} \union {s + i : i \in 0..(k - 1)}
  BY DEF FieldBytes
<1> HIDE DEF s, k
<1>5. \A i \in 0..(k - 1) : s + i \in 0..(Size - 1)
  BY <1>3, SizeAssumption
<1>6. s \in 0..(Size - 1)
  BY <1>3, SizeAssumption
<1> QED
  BY <1>4, <1>5, <1>6

\* Writing a value leaves the memory its size.
LEMMA SizeKept ==
  ASSUME NEW t, NEW m, NEW a, NEW v
  PROVE  DOMAIN SyncOut(t, m, a, v) = DOMAIN m
BY DEF SyncOut, WriteBool, WriteInteger

-----------------------------------------------------------------------------

LEMMA AddressInit == Init => AddressInv
<1> SUFFICES ASSUME Init PROVE AddressInv
  OBVIOUS
<1>1. DOMAIN addresses = {}
  BY DEF Init
<1> QED
  BY <1>1 DEF Init, AddressInv

\* The address of a declaration is valid when the parser accepts it.
LEMMA ParseStep ==
  ASSUME AddressInv, NEW n \in Names, Parse(n)
  PROVE  AddressInv'
<1>1. declared' = declared /\ memory' = memory
  BY DEF Parse
<1>2. declared[n].index \in Nat /\ declared[n].sub \in Nat
  BY LayoutsAssumption DEF AddressInv, Names
<1>3. CASE NewAddress(declared[n]) = {}
  BY <1>1, <1>3 DEF Parse, AddressInv, Names
<1>4. CASE NewAddress(declared[n]) # {}
  <2> DEFINE a == CHOOSE x \in NewAddress(declared[n]) : TRUE
  <2>1. Valid(a)
    BY <1>2, <1>4, ParsedIsValid
  <2>2. addresses' = [m \in DOMAIN addresses \union {n} |-> IF m = n THEN a ELSE addresses[m]]
    BY <1>4 DEF Parse
  <2> HIDE DEF a
  <2>3. DOMAIN addresses' = DOMAIN addresses \union {n}
    BY <2>2
  <2>4. ASSUME NEW m \in DOMAIN addresses' PROVE Valid(addresses'[m])
    <3>1. CASE m = n
      BY <2>1, <2>2, <2>3, <3>1
    <3>2. CASE m # n
      <4>1. m \in DOMAIN addresses /\ addresses'[m] = addresses[m]
        BY <2>2, <2>3, <2>4, <3>2
      <4> QED
        BY <4>1 DEF AddressInv
    <3> QED
      BY <3>1, <3>2
  <2> QED
    BY <1>1, <2>3, <2>4 DEF AddressInv, Names
<1> QED
  BY <1>3, <1>4

\* So it is when its type is known, whether the check is made or lost.
LEMMA LinkStep ==
  ASSUME AddressInv, Link
  PROVE  AddressInv'
<1> DEFINE final == [n \in Names |-> IF Checked(n) THEN Validated(declared[n].type, addresses[n])
                                     ELSE {addresses[n]}]
<1>1. declared' = declared /\ memory' = memory /\ DOMAIN addresses = Names
  BY DEF Link
<1>2. CASE \E n \in Names : final[n] = {}
  <2>1. addresses' = addresses
    BY <1>2 DEF Link
  <2> QED
    BY <1>1, <2>1 DEF AddressInv, Names
<1>3. CASE ~ \E n \in Names : final[n] = {}
  <2>1. addresses' = [n \in Names |-> CHOOSE a \in final[n] : TRUE]
    BY <1>3 DEF Link
  <2>2. ASSUME NEW n \in Names PROVE Valid(addresses'[n])
    <3>1. addresses'[n] = CHOOSE a \in final[n] : TRUE
      BY <2>1
    <3>2. addresses'[n] \in final[n]
      BY <1>3, <3>1
    <3>3. Valid(addresses[n])
      BY <1>1 DEF AddressInv
    <3>4. CASE Checked(n)
      <4>1. addresses'[n] \in Validated(declared[n].type, addresses[n])
        BY <3>2, <3>4
      <4> QED
        BY <3>3, <4>1, NarrowedIsValid
    <3>5. CASE ~Checked(n)
      BY <3>2, <3>3, <3>5
    <3> QED
      BY <3>4, <3>5
  <2>3. DOMAIN addresses' = Names
    BY <2>1
  <2> QED
    BY <1>1, <2>2, <2>3 DEF AddressInv, Names
<1> QED
  BY <1>2, <1>3

\* No step of the program changes an address or the size of the memory.
LEMMA RunStep ==
  ASSUME AddressInv, UNCHANGED <<declared, addresses>>, DOMAIN memory' = DOMAIN memory
  PROVE  AddressInv'
BY DEF AddressInv, Names

LEMMA AddressNext == AddressInv /\ [Next]_vars => AddressInv'
<1> SUFFICES ASSUME AddressInv, [Next]_vars PROVE AddressInv'
  OBVIOUS
<1>1. CASE \E n \in Names : Parse(n)
  BY <1>1, ParseStep
<1>2. CASE Link
  BY <1>2, LinkStep
<1>3. CASE Reset
  BY <1>3, RunStep DEF Reset
<1>4. CASE \E n \in Names : CrashOn(n)
  BY <1>4, RunStep DEF CrashOn
<1>5. CASE \E n \in Names : Read(n)
  BY <1>5, RunStep DEF Read
<1>6. CASE \E n \in Names, value \in Literals : VariableAssign(n, value)
  <2> PICK n \in Names, value \in Literals : VariableAssign(n, value)
    BY <1>6
  <2>1. UNCHANGED <<declared, addresses>> /\ DOMAIN memory' = DOMAIN memory
    BY SizeKept DEF VariableAssign, Written
  <2> QED
    BY <2>1, RunStep
<1>7. CASE \E n, m \in Names : n # m /\ Copy(n, m)
  <2> PICK n \in Names, m \in Names : Copy(n, m)
    BY <1>7
  <2>1. UNCHANGED <<declared, addresses>>
    BY DEF Copy
  <2>2. DOMAIN memory' = DOMAIN memory
    BY SizeKept DEF Copy
  <2> QED
    BY <2>1, <2>2, RunStep
<1>8. CASE \E n \in Names, increment \in Increments : VariablePlus(n, increment)
  <2> PICK n \in Names, increment \in Increments : VariablePlus(n, increment)
    BY <1>8
  <2>1. UNCHANGED <<declared, addresses>> /\ DOMAIN memory' = DOMAIN memory
    BY SizeKept DEF VariablePlus, Modified, Written
  <2> QED
    BY <2>1, RunStep
<1>9. CASE UNCHANGED vars
  BY <1>9, RunStep DEF vars
<1> QED
  BY <1>1, <1>2, <1>3, <1>4, <1>5, <1>6, <1>7, <1>8, <1>9 DEF Next

LEMMA AddressImplies == AddressInv => FieldsInside
<1> SUFFICES ASSUME AddressInv, NEW n \in DOMAIN addresses
             PROVE  FieldBytes(declared[n].type, addresses[n]) \subseteq DOMAIN memory
  BY DEF FieldsInside
<1>1. Valid(addresses[n]) /\ DOMAIN memory = 0..(Size - 1)
  BY DEF AddressInv
<1> QED
  BY <1>1, FieldInside

\* For every memory, every file and every bits per byte: the bytes that a
\* variable reads and writes are bytes of the memory, however its address is
\* written and narrowed, and also when the check of the type is lost.
THEOREM FieldsAreInside == Spec => []FieldsInside
<1>1. Init => AddressInv
  BY AddressInit
<1>2. AddressInv /\ [Next]_vars => AddressInv'
  BY AddressNext
<1>3. AddressInv => FieldsInside
  BY AddressImplies
<1> QED
  BY <1>1, <1>2, <1>3, PTL DEF Spec

-----------------------------------------------------------------------------
(* Powers of two *)

\* A set of numbers that has a member has a least one: its predecessor, if
\* there is one, is outside the set.
LEMMA Least ==
  ASSUME NEW T, T \subseteq Nat, T # {}
  PROVE  \E m \in T : m \in Nat /\ (m # 0 => m - 1 \in Nat /\ m - 1 \notin T)
<1> DEFINE R == {ss \in Nat \X Nat : ss[1] < ss[2]}
<1>1. WF!IsWellFoundedOn(R, Nat)
  BY WF!NatLessThanWellFounded DEF WF!OpToRel
<1>2. PICK m \in T : \A y \in T : ~ (<<y, m>> \in R)
  BY <1>1, WF!WFMin
<1>3. m \in Nat
  OBVIOUS
<1>4. ASSUME m # 0, m - 1 \in T PROVE FALSE
  <2>1. m - 1 \in Nat /\ m - 1 < m
    BY <1>3, <1>4
  <2>2. <<m - 1, m>> \in R
    BY <1>3, <2>1
  <2> QED BY <1>2, <1>4, <2>2
<1>5. m # 0 => m - 1 \in Nat
  BY <1>3
<1> QED BY <1>3, <1>4, <1>5

PowersTo(m, f) == f = [n \in 0 .. m |-> IF n = 0 THEN 1 ELSE 2 * f[n - 1]]

LEMMA PowersExist ==
  ASSUME NEW N \in Nat
  PROVE  \E f : PowersTo(N, f)
<1> DEFINE Bad == {m \in Nat : ~ \E f : PowersTo(m, f)}
<1> SUFFICES ASSUME Bad # {} PROVE FALSE
  OBVIOUS
<1>1. PICK m \in Bad : m \in Nat /\ (m # 0 => m - 1 \in Nat /\ m - 1 \notin Bad)
  <2>1. Bad \subseteq Nat
    OBVIOUS
  <2> HIDE DEF Bad
  <2> QED BY <2>1, Least
<1>2. m # 0
  <2>1. PowersTo(0, [n \in 0 .. 0 |-> 1])
    BY DEF PowersTo
  <2> QED BY <2>1
<1>3. PICK f : PowersTo(m - 1, f)
  BY <1>1, <1>2
<1> DEFINE g == [n \in 0 .. m |-> IF n = m THEN 2 * f[m - 1] ELSE f[n]]
<1>4. PowersTo(m, g)
  <2>1. ASSUME NEW n \in 0 .. m
        PROVE  g[n] = IF n = 0 THEN 1 ELSE 2 * g[n - 1]
    <3>1. CASE n = 0
      BY <1>1, <1>2, <1>3, <3>1 DEF PowersTo
    <3>2. CASE n = m
      BY <1>1, <1>2, <3>2
    <3>3. CASE n # 0 /\ n # m
      <4>1. n - 1 \in 0 .. m /\ n - 1 # m /\ n \in 0 .. (m - 1)
        BY <1>1, <3>3
      <4>2. f[n] = 2 * f[n - 1]
        BY <1>3, <4>1, <3>3 DEF PowersTo
      <4> QED BY <3>3, <4>1, <4>2
    <3> QED BY <3>1, <3>2, <3>3
  <2> QED BY <2>1 DEF PowersTo
<1> QED BY <1>1, <1>4

LEMMA PowersAgree ==
  ASSUME NEW M \in Nat, NEW N \in Nat, NEW f, NEW g, PowersTo(M, f), PowersTo(N, g),
         NEW n \in Nat, n <= M, n <= N
  PROVE  f[n] = g[n]
<1> DEFINE Bad == {m \in 0 .. n : f[m] # g[m]}
<1>1. SUFFICES ASSUME Bad # {} PROVE FALSE
  OBVIOUS
<1>2. PICK m \in Bad : m \in Nat /\ (m # 0 => m - 1 \in Nat /\ m - 1 \notin Bad)
  <2>1. Bad \subseteq Nat
    OBVIOUS
  <2> HIDE DEF Bad
  <2> QED BY <1>1, <2>1, Least
<1>3. m \in 0 .. M /\ m \in 0 .. N /\ f[m] # g[m]
  BY <1>2
<1>4. CASE m = 0
  BY <1>3, <1>4 DEF PowersTo
<1>5. CASE m # 0
  <2>1. f[m - 1] = g[m - 1]
    BY <1>2, <1>5
  <2>2. f[m] = 2 * f[m - 1] /\ g[m] = 2 * g[m - 1]
    BY <1>3, <1>5 DEF PowersTo
  <2> QED BY <1>3, <2>1, <2>2
<1> QED BY <1>4, <1>5

\* The function is the one its equations describe.
LEMMA TwoToUnfolds ==
  /\ TwoTo[0] = 1
  /\ \A n \in Nat : TwoTo[n + 1] = 2 * TwoTo[n]
<1> DEFINE F(n) == CHOOSE f : PowersTo(n, f)
           g == [n \in Nat |-> F(n)[n]]
           P(h) == h = [n \in Nat |-> IF n = 0 THEN 1 ELSE 2 * h[n - 1]]
<1>1. \A n \in Nat : PowersTo(n, F(n))
  BY PowersExist, Zenon
<1>2. P(g)
  <2>1. ASSUME NEW n \in Nat
        PROVE  F(n)[n] = IF n = 0 THEN 1 ELSE 2 * g[n - 1]
    <3> HIDE DEF F
    <3>1. CASE n = 0
      <4>1. PowersTo(0, F(0))
        BY <1>1
      <4> QED BY <3>1, <4>1 DEF PowersTo
    <3>2. CASE n # 0
      <4>1. PowersTo(n, F(n)) /\ PowersTo(n - 1, F(n - 1)) /\ n - 1 \in Nat
        BY <1>1, <3>2
      <4>2. F(n)[n] = 2 * F(n)[n - 1]
        BY <3>2, <4>1 DEF PowersTo
      <4>3. F(n)[n - 1] = F(n - 1)[n - 1]
        BY <4>1, PowersAgree
      <4> QED BY <3>2, <4>1, <4>2, <4>3
    <3> QED BY <3>1, <3>2
  <2> HIDE DEF F
  <2> QED BY <2>1
<1>3. TwoTo = CHOOSE h : P(h)
  BY DEF TwoTo
<1> HIDE DEF P, g
<1>4. P(TwoTo)
  BY <1>2, <1>3, Zenon
<1>5. TwoTo = [n \in Nat |-> IF n = 0 THEN 1 ELSE 2 * TwoTo[n - 1]]
  BY <1>4 DEF P
<1>6. TwoTo[0] = 1
  BY <1>5
<1>7. ASSUME NEW n \in Nat PROVE TwoTo[n + 1] = 2 * TwoTo[n]
  <2>1. n + 1 \in Nat /\ n + 1 # 0 /\ (n + 1) - 1 = n
    OBVIOUS
  <2> QED BY <1>5, <2>1
<1> QED BY <1>6, <1>7

LEMMA PowersAreNumbers == \A n \in Nat : TwoTo[n] \in Nat \ {0}
<1> DEFINE Bad == {n \in Nat : TwoTo[n] \notin Nat \ {0}}
<1> SUFFICES ASSUME Bad # {} PROVE FALSE
  OBVIOUS
<1>1. PICK m \in Bad : m \in Nat /\ (m # 0 => m - 1 \in Nat /\ m - 1 \notin Bad)
  <2>1. Bad \subseteq Nat
    OBVIOUS
  <2> HIDE DEF Bad
  <2> QED BY <2>1, Least
<1>2. m # 0
  BY <1>1, TwoToUnfolds
<1>3. TwoTo[m - 1] \in Nat \ {0}
  BY <1>1, <1>2
<1>4. TwoTo[m] = 2 * TwoTo[m - 1]
  <2>1. m - 1 \in Nat /\ (m - 1) + 1 = m
    BY <1>1, <1>2
  <2>2. TwoTo[(m - 1) + 1] = 2 * TwoTo[m - 1]
    BY <2>1, TwoToUnfolds
  <2> QED BY <2>1, <2>2
<1> QED BY <1>1, <1>3, <1>4

LEMMA PowerOfSum ==
  ASSUME NEW a \in Nat, NEW b \in Nat
  PROVE  TwoTo[a + b] = TwoTo[a] * TwoTo[b]
<1> DEFINE Bad == {n \in Nat : TwoTo[a + n] # TwoTo[a] * TwoTo[n]}
<1> SUFFICES ASSUME Bad # {} PROVE FALSE
  OBVIOUS
<1>1. PICK m \in Bad : m \in Nat /\ (m # 0 => m - 1 \in Nat /\ m - 1 \notin Bad)
  <2>1. Bad \subseteq Nat
    OBVIOUS
  <2> HIDE DEF Bad
  <2> QED BY <2>1, Least
<1>2. m # 0
  <2>1. TwoTo[a] \in Nat
    BY PowersAreNumbers
  <2> QED BY <1>1, <2>1, TwoToUnfolds
<1> DEFINE k == m - 1
<1>3. k \in Nat /\ m = k + 1 /\ TwoTo[a + k] = TwoTo[a] * TwoTo[k]
  BY <1>1, <1>2
<1>4. TwoTo[m] = 2 * TwoTo[k] /\ TwoTo[a + m] = 2 * TwoTo[a + k]
  <2>1. a + k \in Nat /\ a + m = (a + k) + 1
    BY <1>3
  <2> QED BY <1>3, <2>1, TwoToUnfolds
<1>5. TwoTo[a] \in Nat /\ TwoTo[k] \in Nat
  BY <1>3, PowersAreNumbers
<1>6. TwoTo[a + m] = TwoTo[a] * TwoTo[m]
  <2> DEFINE x == TwoTo[a]
             y == TwoTo[k]
  <2>1. x \in Nat /\ y \in Nat /\ TwoTo[a + m] = 2 * (x * y) /\ TwoTo[m] = 2 * y
    BY <1>3, <1>4, <1>5
  <2> HIDE DEF x, y
  <2>2. 2 * (x * y) = x * (2 * y)
    BY <2>1
  <2> QED BY <2>1, <2>2 DEF x
<1> QED BY <1>1, <1>6

-----------------------------------------------------------------------------
(* Quotients and bits *)

LEMMA Division ==
  ASSUME NEW a \in Int, NEW d \in Nat \ {0}
  PROVE  /\ a \div d \in Int /\ a % d \in Nat /\ a % d < d
         /\ a = (a \div d) * d + (a % d)
<1>1. a \div d \in Int /\ a % d \in Nat /\ a % d < d
  OBVIOUS
<1>2. a = (a \div d) * d + (a % d)
  OBVIOUS
<1> QED BY <1>1, <1>2

LEMMA DivisionIs ==
  ASSUME NEW a \in Int, NEW d \in Nat \ {0}, NEW q \in Int, NEW r \in Nat, r < d, a = q * d + r
  PROVE  a \div d = q /\ a % d = r
<1>1. q * d <= a /\ a < (q + 1) * d
  OBVIOUS
<1>2. a \div d = q
  BY <1>1
<1>3. a = (a \div d) * d + (a % d) /\ a % d \in Int
  BY Division
<1> QED BY <1>2, <1>3

LEMMA SmallRemainder ==
  ASSUME NEW a \in Nat, NEW d \in Nat \ {0}, a < d
  PROVE  a \div d = 0 /\ a % d = a
<1>1. a = 0 * d + a
  OBVIOUS
<1> QED BY <1>1, DivisionIs

\* Adding a multiple of the divisor.
LEMMA QuotientOfSum ==
  ASSUME NEW a \in Int, NEW d \in Nat \ {0}, NEW k \in Int
  PROVE  (a + k * d) \div d = a \div d + k /\ (a + k * d) % d = a % d
<1> DEFINE q == a \div d
           r == a % d
           b == a + k * d
<1>1. q \in Int /\ r \in Nat /\ r < d /\ a = q * d + r
  BY Division
<1> HIDE DEF q, r
<1>2. b \in Int /\ q + k \in Int
  BY <1>1
<1>3. b = (q + k) * d + r
  BY <1>1
<1> HIDE DEF b
<1>4. b \div d = q + k /\ b % d = r
  BY <1>1, <1>2, <1>3, DivisionIs
<1> QED BY <1>4 DEF b, q, r

LEMMA NextQuotient ==
  ASSUME NEW a \in Int, NEW d \in Nat \ {0}
  PROVE  (a + d) \div d = (a \div d) + 1 /\ (a - d) \div d = (a \div d) - 1
<1>1. 1 \in Int /\ -1 \in Int /\ a + 1 * d = a + d /\ a + (-1) * d = a - d
  OBVIOUS
<1>2. (a + 1 * d) \div d = (a \div d) + 1 /\ (a + (-1) * d) \div d = (a \div d) + (-1)
  BY <1>1, QuotientOfSum
<1>3. a \div d \in Int
  BY Division
<1> QED BY <1>1, <1>2, <1>3

\* Dividing by one number after the other.
LEMMA QuotientOfQuotient ==
  ASSUME NEW a \in Int, NEW d \in Nat \ {0}, NEW e \in Nat \ {0}
  PROVE  /\ a \div (d * e) = (a \div d) \div e
         /\ a % (d * e) = (a % d) + ((a \div d) % e) * d
<1> DEFINE q == a \div d
           r == a % d
           p == q \div e
           s == q % e
           f == d * e
<1>1. q \in Int /\ r \in Nat /\ r < d /\ a = q * d + r
  BY Division
<1> HIDE DEF q, r
<1>2. p \in Int /\ s \in Nat /\ s < e /\ q = p * e + s
  BY <1>1, Division
<1> HIDE DEF p, s
<1>3. f \in Nat \ {0}
  OBVIOUS
<1>4. a = p * f + (s * d + r)
  BY <1>1, <1>2
<1>5. s * d + r \in Nat /\ s * d + r < f
  <2>1. s * d \in Nat /\ s * d <= (e - 1) * d
    BY <1>2
  <2>2. (e - 1) * d = f - d
    OBVIOUS
  <2> QED BY <1>1, <1>3, <2>1, <2>2
<1> HIDE DEF f
<1>6. a \div f = p /\ a % f = s * d + r
  BY <1>2, <1>3, <1>4, <1>5, DivisionIs
<1> QED BY <1>6, <1>1, <1>2 DEF f, p, s, q, r

\* A larger power changes the bits below it not at all.
LEMMA LowerBits ==
  ASSUME NEW x \in Int, NEW b \in Nat, NEW c \in Nat, b < c
  PROVE  BitSet(x + TwoTo[c], b) <=> BitSet(x, b)
<1> DEFINE d == TwoTo[b]
           k == TwoTo[(c - b) - 1]
           q == x \div d
<1>1. d \in Nat \ {0} /\ k \in Nat
  BY PowersAreNumbers
<1>2. TwoTo[c] = (2 * k) * d
  <2>1. (c - b) - 1 \in Nat /\ ((c - b) - 1) + 1 = c - b /\ c - b \in Nat /\ b + (c - b) = c
    OBVIOUS
  <2>2. TwoTo[c - b] = 2 * k
    BY <2>1, TwoToUnfolds
  <2>3. TwoTo[b + (c - b)] = TwoTo[b] * TwoTo[c - b]
    BY <2>1, PowerOfSum
  <2>4. TwoTo[c] = d * (2 * k)
    BY <2>1, <2>2, <2>3
  <2> HIDE DEF d, k
  <2> QED BY <1>1, <2>4
<1> HIDE DEF k, d
<1>3. (x + TwoTo[c]) \div d = q + 2 * k
  <2>1. 2 * k \in Int
    BY <1>1
  <2> QED BY <1>1, <1>2, <2>1, QuotientOfSum
<1>4. q \in Int
  BY <1>1, Division
<1> HIDE DEF q
<1>5. (q + 2 * k) % 2 = q % 2
  BY <1>1, <1>4
<1> QED BY <1>3, <1>5 DEF BitSet, q, d

\* With the bit clear, a power does not reach the bits above it.
LEMMA UpperQuotient ==
  ASSUME NEW x \in Int, NEW b \in Nat, NEW c \in Nat, c < b, ~ BitSet(x, c)
  PROVE  (x + TwoTo[c]) \div TwoTo[b] = x \div TwoTo[b]
<1> DEFINE d == TwoTo[c]
           e == TwoTo[(b - c) - 1]
           y == x + d
<1>1. d \in Nat \ {0} /\ e \in Nat \ {0} /\ y \in Int
  BY PowersAreNumbers
<1>2. TwoTo[b] = (d * 2) * e
  <2>1. (b - c) - 1 \in Nat /\ c + 1 \in Nat /\ (c + 1) + ((b - c) - 1) = b
    OBVIOUS
  <2>2. TwoTo[c + 1] = 2 * d
    BY TwoToUnfolds
  <2>3. TwoTo[(c + 1) + ((b - c) - 1)] = TwoTo[c + 1] * TwoTo[(b - c) - 1]
    BY <2>1, PowerOfSum
  <2>4. 2 * d = d * 2
    BY <1>1
  <2> QED BY <2>1, <2>2, <2>3, <2>4
<1>3. (x \div d) % 2 # 1
  BY DEF BitSet
<1> HIDE DEF d, e
<1>4. y \div d = (x \div d) + 1
  BY <1>1, NextQuotient
<1>5. (y \div d) \div 2 = (x \div d) \div 2
  <2> DEFINE q == x \div d
  <2>1. q \in Int
    BY <1>1, Division
  <2> HIDE DEF q
  <2>2. q % 2 # 1 => (q + 1) \div 2 = q \div 2
    BY <2>1
  <2> QED BY <1>3, <1>4, <2>2 DEF q
<1> HIDE DEF y
<1>6. d * 2 \in Nat \ {0} /\ 2 \in Nat \ {0}
  BY <1>1
<1>7. y \div (d * 2) = (y \div d) \div 2 /\ x \div (d * 2) = (x \div d) \div 2
  BY <1>1, <1>6, QuotientOfQuotient
<1>8. y \div ((d * 2) * e) = (y \div (d * 2)) \div e /\ x \div ((d * 2) * e) = (x \div (d * 2)) \div e
  BY <1>1, <1>6, QuotientOfQuotient
<1> QED BY <1>2, <1>5, <1>7, <1>8 DEF y, d

\* Setting a bit that is clear sets this bit, and stays in the range.
LEMMA SetBit ==
  ASSUME NEW x \in Int, NEW c \in Nat, ~ BitSet(x, c)
  PROVE  /\ BitSet(x + TwoTo[c], c)
         /\ \A b \in Nat : b # c => (BitSet(x + TwoTo[c], b) <=> BitSet(x, b))
         /\ \A n \in Nat : c < n /\ x \in 0 .. (TwoTo[n] - 1) => x + TwoTo[c] \in 0 .. (TwoTo[n] - 1)
<1> DEFINE d == TwoTo[c]
           y == x + d
<1>1. d \in Nat \ {0} /\ y \in Int
  BY PowersAreNumbers
<1>2. BitSet(y, c)
  <2> DEFINE q == x \div d
  <2>1. q \in Int /\ q % 2 # 1
    BY <1>1, Division DEF BitSet
  <2>3. y \div d = q + 1
    <3> HIDE DEF d
    <3> QED BY <1>1, NextQuotient
  <2> HIDE DEF q
  <2>4. (q + 1) % 2 = 1
    BY <2>1
  <2> QED BY <2>3, <2>4 DEF BitSet
<1>3. ASSUME NEW b \in Nat, b # c PROVE BitSet(y, b) <=> BitSet(x, b)
  <2>1. CASE b < c
    BY <2>1, LowerBits
  <2>2. CASE c < b
    <3>1. y \div TwoTo[b] = x \div TwoTo[b]
      BY <2>2, UpperQuotient
    <3> QED BY <3>1 DEF BitSet
  <2> QED BY <1>3, <2>1, <2>2
<1>4. ASSUME NEW n \in Nat, c < n, x \in 0 .. (TwoTo[n] - 1) PROVE y \in 0 .. (TwoTo[n] - 1)
  <2> DEFINE e == TwoTo[n]
  <2>1. e \in Nat \ {0}
    BY PowersAreNumbers
  <2>2. y \div e = x \div e
    BY <1>4, UpperQuotient
  <2>3. 0 <= x /\ x < e
    BY <1>4, <2>1
  <2> HIDE DEF e, d, y
  <2>4. x \div e = 0
    <3>1. x \in Nat
      BY <2>1, <2>3
    <3> QED BY <2>1, <2>3, <3>1, SmallRemainder
  <2>5. y = (y \div e) * e + (y % e) /\ y % e \in Nat /\ y % e < e
    BY <1>1, <2>1, Division
  <2>6. y = y % e
    BY <2>1, <2>2, <2>4, <2>5
  <2> QED BY <1>1, <2>1, <2>5, <2>6 DEF e
<1> QED BY <1>2, <1>3, <1>4

\* Clearing a bit that is set undoes it.
LEMMA ClearBit ==
  ASSUME NEW n \in Nat, NEW x \in 0 .. (TwoTo[n] - 1), NEW c \in Nat, BitSet(x, c)
  PROVE  /\ x - TwoTo[c] \in 0 .. (TwoTo[n] - 1)
         /\ ~ BitSet(x - TwoTo[c], c)
         /\ \A b \in Nat : b # c => (BitSet(x - TwoTo[c], b) <=> BitSet(x, b))
<1> DEFINE d == TwoTo[c]
           y == x - d
           q == x \div d
<1>1. d \in Nat \ {0} /\ TwoTo[n] \in Nat /\ x \in Nat /\ y \in Int
  BY PowersAreNumbers
<1>2. q \in Int /\ q % 2 = 1 /\ x = q * d + (x % d) /\ x % d \in Nat /\ x % d < d
  <2>1. q % 2 = 1
    BY DEF BitSet
  <2> HIDE DEF d
  <2> QED BY <1>1, <2>1, Division
<1>3. y \div d = q - 1
  <2> HIDE DEF d
  <2>1. x \in Int
    BY <1>1
  <2>2. (x - d) \div d = (x \div d) - 1
    BY <1>1, <2>1, NextQuotient
  <2> QED BY <2>2
<1>4. ~ BitSet(y, c)
  <2>1. (q - 1) % 2 = 0
    <3> HIDE DEF q
    <3> QED BY <1>2
  <2> QED BY <1>3, <2>1 DEF BitSet
<1>5. d <= x
  <2> HIDE DEF q, d
  <2>1. q >= 1
    <3>1. q # 0
      BY <1>2
    <3>2. ASSUME q < 0 PROVE FALSE
      <4>1. q * d <= (-1) * d
        BY <1>1, <1>2, <3>2
      <4> QED BY <1>1, <1>2, <4>1
    <3> QED BY <1>2, <3>1, <3>2
  <2>2. q * d >= d
    BY <1>1, <1>2, <2>1
  <2> QED BY <1>1, <1>2, <2>2
<1>6. y + d = x
  BY <1>1
<1> HIDE DEF y
<1>7. \A b \in Nat : b # c => (BitSet(y + d, b) <=> BitSet(y, b))
  BY <1>1, <1>4, SetBit
<1>8. y \in 0 .. (TwoTo[n] - 1)
  BY <1>1, <1>5 DEF y
<1> QED BY <1>4, <1>6, <1>7, <1>8 DEF y

-----------------------------------------------------------------------------
(* Numbers in bytes *)

\* The numbers of a byte, and the weight of the byte i in a number.
ByteValues == 0 .. (TwoTo[ByteBits] - 1)
Weight(i) == TwoTo[ByteBits * i]

LEMMA Weights ==
  /\ Weight(0) = 1
  /\ \A i \in Nat : Weight(i) \in Nat \ {0} /\ Weight(i + 1) = Weight(i) * TwoTo[ByteBits]
  /\ TwoTo[ByteBits] \in Nat \ {0}
<1>1. ByteBits \in Nat
  BY ByteBitsAssumption
<1>2. Weight(0) = 1
  BY <1>1, TwoToUnfolds DEF Weight
<1>3. ASSUME NEW i \in Nat PROVE Weight(i) \in Nat \ {0} /\ Weight(i + 1) = Weight(i) * TwoTo[ByteBits]
  <2>1. ByteBits * i \in Nat /\ ByteBits * (i + 1) = (ByteBits * i) + ByteBits
    BY <1>1
  <2>2. TwoTo[(ByteBits * i) + ByteBits] = TwoTo[ByteBits * i] * TwoTo[ByteBits]
    BY <1>1, <2>1, PowerOfSum
  <2> QED BY <2>1, <2>2, PowersAreNumbers DEF Weight
<1> QED BY <1>1, <1>2, <1>3, PowersAreNumbers

NumberTo(m, first, k, f) ==
  f = [i \in 0 .. k |-> IF i = 0 THEN 0 ELSE f[i - 1] + m[first + i - 1] * TwoTo[ByteBits * (i - 1)]]

LEMMA NumberExists ==
  ASSUME NEW m, NEW first, NEW N \in Nat
  PROVE  \E f : NumberTo(m, first, N, f)
<1> DEFINE Next1(i, x) == x + m[first + i - 1] * TwoTo[ByteBits * (i - 1)]
           Bad == {k \in Nat : ~ \E f : NumberTo(m, first, k, f)}
<1> SUFFICES ASSUME Bad # {} PROVE FALSE
  OBVIOUS
<1>1. PICK k \in Bad : k \in Nat /\ (k # 0 => k - 1 \in Nat /\ k - 1 \notin Bad)
  <2>1. Bad \subseteq Nat
    OBVIOUS
  <2> HIDE DEF Bad
  <2> QED BY <2>1, Least
<1>2. k # 0
  <2>1. NumberTo(m, first, 0, [i \in 0 .. 0 |-> 0])
    BY DEF NumberTo
  <2> QED BY <2>1
<1>3. PICK f : NumberTo(m, first, k - 1, f)
  BY <1>1, <1>2
<1>0. f = [i \in 0 .. (k - 1) |-> IF i = 0 THEN 0 ELSE Next1(i, f[i - 1])]
  BY <1>3 DEF NumberTo
<1> HIDE DEF Next1
<1> DEFINE g == [i \in 0 .. k |-> IF i = k THEN Next1(k, f[k - 1]) ELSE f[i]]
<1>4. NumberTo(m, first, k, g)
  <2>1. ASSUME NEW i \in 0 .. k
        PROVE  g[i] = IF i = 0 THEN 0 ELSE Next1(i, g[i - 1])
    <3>1. CASE i = 0
      BY <1>0, <1>1, <1>2, <3>1
    <3>2. CASE i = k
      BY <1>1, <1>2, <3>2
    <3>3. CASE i # 0 /\ i # k
      <4>1. i - 1 \in 0 .. k /\ i - 1 # k /\ i \in 0 .. (k - 1)
        BY <1>1, <3>3
      <4>2. f[i] = Next1(i, f[i - 1])
        BY <1>0, <4>1, <3>3
      <4> QED BY <3>3, <4>1, <4>2
    <3> QED BY <3>1, <3>2, <3>3
  <2>2. g = [i \in 0 .. k |-> IF i = 0 THEN 0 ELSE Next1(i, g[i - 1])]
    BY <2>1
  <2> HIDE DEF g
  <2> QED BY <2>2 DEF NumberTo, Next1
<1> QED BY <1>1, <1>4

\* A number is put together byte by byte.
NumberBy(m, first, n, f) ==
  /\ f[0] = 0
  /\ \A i \in 0 .. (n - 1) : f[i + 1] = f[i] + m[first + i] * Weight(i)
  /\ Number(m, first, n) = f[n]

LEMMA NumberUnfolds ==
  ASSUME NEW m, NEW first \in Nat, NEW n \in Nat
  PROVE  \E f : NumberBy(m, first, n, f)
<1> DEFINE f == CHOOSE h : NumberTo(m, first, n, h)
<1>1. \E h : NumberTo(m, first, n, h)
  BY NumberExists
<1>2. NumberTo(m, first, n, f)
  BY <1>1, Zenon
<1>3. Number(m, first, n) = f[n]
  BY DEF Number, NumberTo
<1> HIDE DEF f
<1>4. f[0] = 0
  BY <1>2 DEF NumberTo
<1>5. ASSUME NEW i \in 0 .. (n - 1)
      PROVE  f[i + 1] = f[i] + m[first + i] * Weight(i)
  <2>1. i + 1 \in 0 .. n /\ i + 1 # 0 /\ (i + 1) - 1 = i /\ first + (i + 1) - 1 = first + i
    OBVIOUS
  <2>2. f[i + 1] = f[(i + 1) - 1] + m[first + (i + 1) - 1] * TwoTo[ByteBits * ((i + 1) - 1)]
    BY <1>2, <2>1 DEF NumberTo
  <2> QED BY <2>1, <2>2 DEF Weight
<1>6. NumberBy(m, first, n, f)
  BY <1>3, <1>4, <1>5 DEF NumberBy
<1> QED BY <1>6

\* The number of bytes is in the range that they have.
LEMMA NumberRange ==
  ASSUME NEW m, NEW first \in Nat, NEW n \in Nat, \A i \in 0 .. (n - 1) : m[first + i] \in ByteValues
  PROVE  Number(m, first, n) \in 0 .. (Weight(n) - 1)
<1>1. PICK f : NumberBy(m, first, n, f)
  BY NumberUnfolds
<1> DEFINE Bad == {i \in 0 .. n : f[i] \notin 0 .. (Weight(i) - 1)}
<1> SUFFICES ASSUME Bad # {} PROVE FALSE
  <2>1. n \in 0 .. n
    OBVIOUS
  <2> QED BY <1>1, <2>1 DEF NumberBy
<1>2. PICK k \in Bad : k \in Nat /\ (k # 0 => k - 1 \in Nat /\ k - 1 \notin Bad)
  <2>1. Bad \subseteq Nat
    OBVIOUS
  <2> HIDE DEF Bad
  <2> QED BY <2>1, Least
<1>3. k # 0
  BY <1>1, <1>2, Weights DEF NumberBy
<1> DEFINE i == k - 1
<1>4. i \in Nat /\ k = i + 1 /\ i \in 0 .. (n - 1) /\ f[i] \in 0 .. (Weight(i) - 1)
  BY <1>2, <1>3
<1>5. f[k] = f[i] + m[first + i] * Weight(i) /\ m[first + i] \in ByteValues
  BY <1>1, <1>4 DEF NumberBy
<1> HIDE DEF i
<1>6. f[k] \in 0 .. (Weight(k) - 1)
  <2> DEFINE x == f[i]
             b == m[first + i]
             w == Weight(i)
             d == TwoTo[ByteBits]
  <2>1. w \in Nat \ {0} /\ d \in Nat \ {0} /\ Weight(k) = w * d
    BY <1>4, Weights
  <2>2. x \in Nat /\ x < w /\ b \in Nat /\ b <= d - 1
    BY <1>4, <1>5, <2>1 DEF ByteValues
  <2>3. f[k] = x + b * w
    BY <1>5
  <2> HIDE DEF x, b, w, d
  <2>4. b * w <= (d - 1) * w /\ b * w \in Nat
    BY <2>1, <2>2
  <2>5. (d - 1) * w = (w * d) - w
    BY <2>1
  <2>6. w * d \in Nat
    BY <2>1
  <2> QED BY <2>1, <2>2, <2>3, <2>4, <2>5, <2>6
<1> QED BY <1>2, <1>6

\* Memories with the same bytes have the same number in them.
LEMMA NumberOfSameBytes ==
  ASSUME NEW m, NEW o, NEW first \in Nat, NEW n \in Nat, \A i \in 0 .. (n - 1) : m[first + i] = o[first + i]
  PROVE  Number(m, first, n) = Number(o, first, n)
<1>1. PICK f : NumberBy(m, first, n, f)
  BY NumberUnfolds
<1>2. PICK g : NumberBy(o, first, n, g)
  BY NumberUnfolds
<1> DEFINE Bad == {i \in 0 .. n : f[i] # g[i]}
<1> SUFFICES ASSUME Bad # {} PROVE FALSE
  <2>1. n \in 0 .. n
    OBVIOUS
  <2> QED BY <1>1, <1>2, <2>1 DEF NumberBy
<1>3. PICK k \in Bad : k \in Nat /\ (k # 0 => k - 1 \in Nat /\ k - 1 \notin Bad)
  <2>1. Bad \subseteq Nat
    OBVIOUS
  <2> HIDE DEF Bad
  <2> QED BY <2>1, Least
<1>4. k # 0
  BY <1>1, <1>2, <1>3 DEF NumberBy
<1> DEFINE i == k - 1
<1>5. i \in Nat /\ k = i + 1 /\ i \in 0 .. (n - 1) /\ f[i] = g[i]
  BY <1>3, <1>4
<1> HIDE DEF i
<1>6. f[k] = f[i] + m[first + i] * Weight(i) /\ g[k] = g[i] + o[first + i] * Weight(i)
  BY <1>1, <1>2, <1>5 DEF NumberBy
<1> QED BY <1>3, <1>5, <1>6

\* The first byte is the number but for the bytes above it.
LEMMA NumberLow ==
  ASSUME NEW m, NEW first \in Nat, NEW n \in Nat \ {0}, \A i \in 0 .. (n - 1) : m[first + i] \in ByteValues
  PROVE  Number(m, first, n) % TwoTo[ByteBits] = m[first]
<1>1. PICK f : NumberBy(m, first, n, f)
  BY NumberUnfolds
<1> DEFINE d == TwoTo[ByteBits]
           Bad == {i \in 0 .. (n - 1) : ~ (f[i + 1] \in Nat /\ f[i + 1] % d = m[first])}
<1> SUFFICES ASSUME Bad # {} PROVE FALSE
  <2>1. n - 1 \in 0 .. (n - 1) /\ (n - 1) + 1 = n
    OBVIOUS
  <2> QED BY <1>1, <2>1 DEF NumberBy
<1>2. PICK k \in Bad : k \in Nat /\ (k # 0 => k - 1 \in Nat /\ k - 1 \notin Bad)
  <2>1. Bad \subseteq Nat
    OBVIOUS
  <2> HIDE DEF Bad
  <2> QED BY <2>1, Least
<1>3. d \in Nat \ {0} /\ k \in 0 .. (n - 1)
  BY <1>2, Weights
<1>4. f[k + 1] = f[k] + m[first + k] * Weight(k) /\ m[first + k] \in Nat /\ m[first + k] < d
  BY <1>1, <1>3 DEF NumberBy, ByteValues
<1>5. CASE k = 0
  <2>1. f[1] = m[first]
    BY <1>1, <1>4, <1>5, Weights DEF NumberBy
  <2>2. m[first] \in Nat /\ m[first] < d
    BY <1>4, <1>5
  <2> DEFINE x == m[first]
  <2> HIDE DEF d, x
  <2>3. x \in Nat /\ x < d
    BY <1>3, <2>2 DEF x
  <2>4. x % d = x
    BY <1>3, <2>3, SmallRemainder
  <2> QED BY <1>2, <1>5, <2>1, <2>2, <2>4 DEF x, d
<1>6. CASE k # 0
  <2> DEFINE i == k - 1
  <2>1. i \in Nat /\ k = i + 1 /\ f[k] \in Nat /\ f[k] % d = m[first]
    BY <1>2, <1>3, <1>6
  <2> DEFINE x == f[k]
             c == m[first + k] * Weight(i)
  <2>2. Weight(k) = Weight(i) * d /\ Weight(i) \in Nat
    BY <2>1, Weights
  <2>3. f[k + 1] = x + c * d /\ c \in Nat
    <3> DEFINE b == m[first + k]
               w == Weight(i)
    <3>1. b \in Nat /\ w \in Nat /\ f[k + 1] = x + b * (w * d) /\ c = b * w
      BY <1>4, <2>2
    <3> HIDE DEF b, w, d, x, c
    <3>2. b * (w * d) = (b * w) * d /\ b * w \in Nat
      BY <1>3, <3>1
    <3> QED BY <3>1, <3>2
  <2> HIDE DEF d, c, x
  <2>4. x \in Int /\ x \in Nat /\ c \in Int
    BY <2>1, <2>3 DEF x
  <2>5. (x + c * d) % d = x % d
    BY <1>3, <2>3, <2>4, QuotientOfSum
  <2>6. c * d \in Nat
    BY <1>3, <2>3
  <2>7. f[k + 1] \in Nat /\ f[k + 1] % d = m[first]
    BY <2>1, <2>3, <2>4, <2>5, <2>6 DEF x
  <2> QED BY <1>2, <2>7 DEF d
<1> QED BY <1>5, <1>6

\* A number that is written byte by byte is read as it was, up to its size.
LEMMA NumberWritten ==
  ASSUME NEW m, NEW first \in Nat, NEW n \in Nat, NEW v \in Int,
         \A i \in 0 .. (n - 1) : m[first + i] = (v \div Weight(i)) % TwoTo[ByteBits]
  PROVE  Number(m, first, n) = v % Weight(n)
<1>1. PICK f : NumberBy(m, first, n, f)
  BY NumberUnfolds
<1> DEFINE Bad == {i \in 0 .. n : f[i] # v % Weight(i)}
<1> SUFFICES ASSUME Bad # {} PROVE FALSE
  <2>1. n \in 0 .. n
    OBVIOUS
  <2> QED BY <1>1, <2>1 DEF NumberBy
<1>2. PICK k \in Bad : k \in Nat /\ (k # 0 => k - 1 \in Nat /\ k - 1 \notin Bad)
  <2>1. Bad \subseteq Nat
    OBVIOUS
  <2> HIDE DEF Bad
  <2> QED BY <2>1, Least
<1>3. k # 0
  <2>1. v % 1 = 0
    OBVIOUS
  <2> QED BY <1>1, <1>2, <2>1, Weights DEF NumberBy
<1> DEFINE i == k - 1
<1>4. i \in Nat /\ k = i + 1 /\ i \in 0 .. (n - 1) /\ f[i] = v % Weight(i)
  BY <1>2, <1>3
<1> HIDE DEF i
<1>5. f[k] = f[i] + m[first + i] * Weight(i) /\ m[first + i] = (v \div Weight(i)) % TwoTo[ByteBits]
  BY <1>1, <1>4 DEF NumberBy
<1> DEFINE w == Weight(i)
           d == TwoTo[ByteBits]
<1>6. w \in Nat \ {0} /\ d \in Nat \ {0} /\ Weight(k) = w * d
  BY <1>4, Weights
<1>7. f[k] = (v % w) + ((v \div w) % d) * w
  BY <1>4, <1>5
<1> HIDE DEF w, d
<1>8. v % (w * d) = (v % w) + ((v \div w) % d) * w
  BY <1>6, QuotientOfQuotient
<1> QED BY <1>2, <1>6, <1>7, <1>8

-----------------------------------------------------------------------------
(* Fields: what is written to one, and what is read from it *)

Memories == [0 .. (Size - 1) -> ByteValues]
Bytes(a) == a.bits \div ByteBits

LEMMA Fields ==
  ASSUME NEW a, Valid(a)
  PROVE  /\ a.bits \in Nat /\ Bytes(a) \in Nat /\ Bit(a) \in Nat /\ Bit(a) < ByteBits
         /\ Storage(a) \in Nat /\ Storage(a) < Size /\ Storage(a) + Bytes(a) <= Size
<1>1. a.bits \in Nat /\ a.byte \in Nat /\ a.bit \in Nat /\ Inside(a)
  BY DEF Valid, AddressType
<1>2. a.bits \div ByteBits \in Nat /\ a.bit \div ByteBits \in Nat
  BY <1>1, FewerBytes, ByteBitsAssumption
<1>3. a.bit % ByteBits \in Nat /\ a.bit % ByteBits < ByteBits
  BY <1>1, ByteBitsAssumption
<1> QED BY <1>1, <1>2, <1>3 DEF Storage, Inside, Bytes, Bit

LEMMA FieldBytesAre ==
  ASSUME NEW t, NEW a
  PROVE  /\ IsBool(t) => FieldBytes(t, a) = {Storage(a)}
         /\ ~ IsBool(t) => FieldBytes(t, a) = {Storage(a) + i : i \in 0 .. (Bytes(a) - 1)}
BY DEF FieldBytes, Bytes

\* A BOOL changes one bit.
LEMMA BoolWritten ==
  ASSUME NEW m \in Memories, NEW a, Valid(a), NEW v
  PROVE  LET o == WriteBool(m, a, v)
         IN /\ o \in Memories
            /\ BitSet(o[Storage(a)], Bit(a)) <=> v # 0
            /\ \A i \in 0 .. (Size - 1) : i # Storage(a) => o[i] = m[i]
            /\ \A b \in Nat : b # Bit(a) => (BitSet(o[Storage(a)], b) <=> BitSet(m[Storage(a)], b))
<1> DEFINE s == Storage(a)
           c == Bit(a)
           x == m[s]
           d == TwoTo[c]
           y == IF BitSet(x, c) THEN x - d ELSE x
           z == IF v = 0 THEN y ELSE y + d
           o == WriteBool(m, a, v)
<1>1. s \in 0 .. (Size - 1) /\ c \in Nat /\ c < ByteBits /\ ByteBits \in Nat
  BY Fields, SizeAssumption, ByteBitsAssumption
<1>2. x \in ByteValues /\ x \in Int /\ x \in Nat
  <2>1. x \in ByteValues
    BY <1>1 DEF Memories
  <2>2. TwoTo[ByteBits] \in Nat
    BY Weights
  <2> QED BY <2>1, <2>2 DEF ByteValues
<1>3. o = [m EXCEPT ![s] = z]
  BY DEF WriteBool
<1> HIDE DEF s, x
<1>4. y \in ByteValues /\ ~ BitSet(y, c) /\ \A b \in Nat : b # c => (BitSet(y, b) <=> BitSet(x, b))
  <2>1. CASE BitSet(x, c)
    <3>1. x \in 0 .. (TwoTo[ByteBits] - 1)
      BY <1>2 DEF ByteValues
    <3>2. /\ x - TwoTo[c] \in 0 .. (TwoTo[ByteBits] - 1)
          /\ ~ BitSet(x - TwoTo[c], c)
          /\ \A b \in Nat : b # c => (BitSet(x - TwoTo[c], b) <=> BitSet(x, b))
      BY <1>1, <2>1, <3>1, ClearBit
    <3> QED BY <2>1, <3>2 DEF ByteValues
  <2>2. CASE ~ BitSet(x, c)
    BY <1>2, <2>2
  <2> QED BY <2>1, <2>2
<1> HIDE DEF y
<1>5. /\ z \in ByteValues /\ (BitSet(z, c) <=> v # 0)
      /\ \A b \in Nat : b # c => (BitSet(z, b) <=> BitSet(x, b))
  <2>1. CASE v = 0
    BY <1>4, <2>1
  <2>2. CASE v # 0
    <3>1. y \in Int /\ y \in 0 .. (TwoTo[ByteBits] - 1)
      BY <1>4, Weights DEF ByteValues
    <3>2. /\ BitSet(y + TwoTo[c], c)
          /\ \A b \in Nat : b # c => (BitSet(y + TwoTo[c], b) <=> BitSet(y, b))
          /\ y + TwoTo[c] \in 0 .. (TwoTo[ByteBits] - 1)
      BY <1>1, <1>4, <3>1, SetBit
    <3> QED BY <1>4, <2>2, <3>2 DEF ByteValues
  <2> QED BY <2>1, <2>2
<1> HIDE DEF z
<1>6. o \in Memories /\ o[s] = z /\ \A i \in 0 .. (Size - 1) : i # s => o[i] = m[i]
  BY <1>1, <1>3, <1>5 DEF Memories
<1> HIDE DEF o
<1>7. /\ o \in Memories
      /\ BitSet(o[s], c) <=> v # 0
      /\ \A i \in 0 .. (Size - 1) : i # s => o[i] = m[i]
      /\ \A b \in Nat : b # c => (BitSet(o[s], b) <=> BitSet(x, b))
  BY <1>5, <1>6
<1> QED BY <1>7 DEF s, x, o

\* An integer changes the bytes of its field, which have its digits then.
LEMMA IntegerWritten ==
  ASSUME NEW m \in Memories, NEW a, Valid(a), NEW v \in Int
  PROVE  LET o == WriteInteger(m, a, v)
         IN /\ o \in Memories
            /\ \A i \in 0 .. (Bytes(a) - 1) : o[Storage(a) + i] = (v \div Weight(i)) % TwoTo[ByteBits]
            /\ \A j \in 0 .. (Size - 1) : (\A i \in 0 .. (Bytes(a) - 1) : j # Storage(a) + i) => o[j] = m[j]
<1> DEFINE s == Storage(a)
           n == Bytes(a)
           o == WriteInteger(m, a, v)
           Digit(i) == (v \div Weight(i)) % TwoTo[ByteBits]
<1>1. s \in Nat /\ n \in Nat /\ s < Size /\ s + n <= Size /\ Size \in Nat
  BY Fields, SizeAssumption
<1>2. DOMAIN m = 0 .. (Size - 1)
  BY DEF Memories
<1>3. o = [j \in 0 .. (Size - 1) |-> IF j \in s .. (s + n - 1) THEN Digit(j - s) ELSE m[j]]
  BY <1>2 DEF WriteInteger, Bytes, Weight
<1>4. ASSUME NEW i \in Nat PROVE Digit(i) \in ByteValues
  <2> DEFINE w == Weight(i)
             d == TwoTo[ByteBits]
             q == v \div w
  <2>1. w \in Nat \ {0} /\ d \in Nat \ {0}
    BY Weights
  <2>2. q \in Int
    BY <2>1, Division
  <2> HIDE DEF w, q
  <2>3. q % d \in Nat /\ q % d < d
    BY <2>1, <2>2, Division
  <2> QED BY <2>1, <2>3 DEF ByteValues, w, q
<1> HIDE DEF Digit, s, n, o
<1>5. o \in Memories
  <2>1. ASSUME NEW j \in 0 .. (Size - 1)
        PROVE  (IF j \in s .. (s + n - 1) THEN Digit(j - s) ELSE m[j]) \in ByteValues
    <3>1. j \in s .. (s + n - 1) => j - s \in Nat
      BY <1>1
    <3> QED BY <1>4, <3>1 DEF Memories
  <2> QED BY <1>3, <2>1 DEF Memories
<1>6. ASSUME NEW i \in 0 .. (n - 1) PROVE o[s + i] = Digit(i)
  <2>1. s + i \in 0 .. (Size - 1) /\ s + i \in s .. (s + n - 1) /\ (s + i) - s = i
    BY <1>1
  <2> QED BY <1>3, <2>1
<1>7. ASSUME NEW j \in 0 .. (Size - 1), \A i \in 0 .. (n - 1) : j # s + i PROVE o[j] = m[j]
  <2>1. j \notin s .. (s + n - 1)
    <3> SUFFICES ASSUME j \in s .. (s + n - 1) PROVE FALSE
      OBVIOUS
    <3>1. j - s \in 0 .. (n - 1) /\ j = s + (j - s)
      BY <1>1
    <3> QED BY <1>7, <3>1
  <2> QED BY <1>3, <2>1
<1> QED BY <1>5, <1>6, <1>7 DEF s, n, o, Digit

\* What is written to a field is still a memory, and leaves the bytes around
\* the field alone.
LEMMA FieldWritten ==
  ASSUME NEW t, NEW m \in Memories, NEW a, Valid(a), NEW v \in Int
  PROVE  /\ SyncOut(t, m, a, v) \in Memories
         /\ \A i \in 0 .. (Size - 1) : i \notin FieldBytes(t, a) => SyncOut(t, m, a, v)[i] = m[i]
<1>1. CASE IsBool(t)
  <2>1. SyncOut(t, m, a, v) = WriteBool(m, a, v) /\ FieldBytes(t, a) = {Storage(a)}
    BY <1>1, FieldBytesAre DEF SyncOut
  <2>2. WriteBool(m, a, v) \in Memories /\ \A i \in 0 .. (Size - 1) : i # Storage(a) => WriteBool(m, a, v)[i] = m[i]
    BY BoolWritten
  <2> QED BY <2>1, <2>2
<1>2. CASE ~ IsBool(t)
  <2>1. /\ SyncOut(t, m, a, v) = WriteInteger(m, a, v)
        /\ FieldBytes(t, a) = {Storage(a) + i : i \in 0 .. (Bytes(a) - 1)}
    BY <1>2, FieldBytesAre DEF SyncOut
  <2>2. /\ WriteInteger(m, a, v) \in Memories
        /\ \A j \in 0 .. (Size - 1) :
             (\A i \in 0 .. (Bytes(a) - 1) : j # Storage(a) + i) => WriteInteger(m, a, v)[j] = m[j]
    BY IntegerWritten
  <2> QED BY <2>1, <2>2
<1> QED BY <1>1, <1>2

\* The bytes of a field are bytes.
LEMMA FieldRead ==
  ASSUME NEW m \in Memories, NEW a, Valid(a)
  PROVE  /\ \A i \in 0 .. (Bytes(a) - 1) : m[Storage(a) + i] \in ByteValues
         /\ m[Storage(a)] \in ByteValues
         /\ Number(m, Storage(a), Bytes(a)) \in 0 .. (Weight(Bytes(a)) - 1)
<1> DEFINE s == Storage(a)
           n == Bytes(a)
<1>1. s \in Nat /\ n \in Nat /\ s < Size /\ s + n <= Size /\ Size \in Nat
  BY Fields, SizeAssumption
<1> HIDE DEF s, n
<1>2. \A i \in 0 .. (n - 1) : s + i \in 0 .. (Size - 1)
  BY <1>1
<1>3. s \in 0 .. (Size - 1)
  BY <1>1
<1>4. \A i \in 0 .. (n - 1) : m[s + i] \in ByteValues
  BY <1>2 DEF Memories
<1>5. m[s] \in ByteValues
  BY <1>3 DEF Memories
<1>6. Number(m, s, n) \in 0 .. (Weight(n) - 1)
  BY <1>1, <1>4, NumberRange
<1> QED BY <1>4, <1>5, <1>6 DEF s, n

-----------------------------------------------------------------------------
(* Types: what fits into the field of a type is read as it was written *)

LEMMA PowersGrow ==
  ASSUME NEW a \in Nat, NEW b \in Nat, a <= b
  PROVE  TwoTo[a] <= TwoTo[b]
<1> DEFINE x == TwoTo[a]
           y == TwoTo[b - a]
<1>1. b - a \in Nat /\ a + (b - a) = b
  OBVIOUS
<1>2. TwoTo[a + (b - a)] = x * y
  BY <1>1, PowerOfSum
<1>3. x \in Nat \ {0} /\ y \in Nat \ {0}
  BY <1>1, PowersAreNumbers
<1>4. TwoTo[b] = x * y
  BY <1>1, <1>2
<1> HIDE DEF y, x
<1>5. x * y >= x
  BY <1>3
<1> QED BY <1>4, <1>5 DEF x

\* Half of a power is the one before.
LEMMA Halves ==
  ASSUME NEW n \in Nat \ {0}
  PROVE  TwoTo[n - 1] \in Nat \ {0} /\ TwoTo[n] = 2 * TwoTo[n - 1] /\ TwoTo[n] \div 2 = TwoTo[n - 1]
<1>1. n - 1 \in Nat /\ (n - 1) + 1 = n
  OBVIOUS
<1> DEFINE h == TwoTo[n - 1]
<1>2. h \in Nat \ {0} /\ TwoTo[n] = 2 * h
  BY <1>1, TwoToUnfolds, PowersAreNumbers
<1> HIDE DEF h
<1>3. (2 * h) \div 2 = h
  BY <1>2
<1> QED BY <1>2, <1>3 DEF h

LEMMA HalfWord ==
  /\ Word \in Nat \ {0} /\ Word \div 2 \in Nat \ {0} /\ Word = 2 * (Word \div 2)
  /\ \A n \in Nat : n <= 4 * ByteBits => TwoTo[n] <= Word \div 2
  /\ \A n \in Nat \ {0} : n <= 8 * ByteBits => TwoTo[n - 1] <= Word \div 2
<1>1. ByteBits \in Nat \ {0} /\ 8 * ByteBits \in Nat \ {0} /\ 8 * ByteBits - 1 \in Nat
  BY ByteBitsAssumption
<1>2. /\ Word = 2 * TwoTo[8 * ByteBits - 1] /\ Word \div 2 = TwoTo[8 * ByteBits - 1]
      /\ TwoTo[8 * ByteBits - 1] \in Nat \ {0}
  BY <1>1, Halves DEF Word
<1>3. ASSUME NEW n \in Nat, n <= 8 * ByteBits - 1 PROVE TwoTo[n] <= Word \div 2
  BY <1>1, <1>2, <1>3, PowersGrow
<1>4. ASSUME NEW n \in Nat, n <= 4 * ByteBits PROVE TwoTo[n] <= Word \div 2
  <2>1. n <= 8 * ByteBits - 1
    BY <1>1, <1>4
  <2> QED BY <1>3, <2>1
<1>5. ASSUME NEW n \in Nat \ {0}, n <= 8 * ByteBits PROVE TwoTo[n - 1] <= Word \div 2
  <2>1. n - 1 \in Nat /\ n - 1 <= 8 * ByteBits - 1
    BY <1>1, <1>5
  <2> QED BY <1>3, <2>1
<1> QED BY <1>2, <1>4, <1>5

\* The types that an address is checked against, and their bytes.
CheckedIds == IntegerIds \ {"LINT"}
KeptSigned == {"SINT", "INT", "DINT", "ULINT", "LWORD"}

LEMMA Lengths ==
  ASSUME NEW id \in CheckedIds
  PROVE  \E n \in {1, 2, 4, 8} :
           /\ Bits(id) = ByteBits * n /\ Bits(id) \div ByteBits = n
           /\ ReadsSigned(id, n) <=> id \in KeptSigned
           /\ id \notin KeptSigned => n # 8
<1> DEFINE n == IF id \in SignedIds THEN SignedBytes[id]
                ELSE IF id \in UnsignedIds THEN UnsignedBytes[id]
                ELSE BitBytes[id]
<1>1. /\ id \in {"SINT", "INT", "DINT"} \union {"USINT", "UINT", "UDINT", "ULINT"} \union {"BYTE", "WORD", "DWORD", "LWORD"}
      /\ SignedIds = {"SINT", "INT", "DINT", "LINT"} /\ UnsignedIds = {"USINT", "UINT", "UDINT", "ULINT"}
  BY DEF CheckedIds, IntegerIds, SignedIds, UnsignedIds, BitIds, SignedBytes, UnsignedBytes, BitBytes
<1>2. /\ n \in {1, 2, 4, 8}
      /\ ReadsSigned(id, n) <=> id \in KeptSigned
      /\ id \notin KeptSigned => n # 8
  <2>1. CASE id \in {"SINT", "INT", "DINT"}
    BY <1>1, <2>1 DEF SignedBytes, ReadsSigned, KeptSigned
  <2>2. CASE id \in {"USINT", "UINT", "UDINT", "ULINT"}
    BY <1>1, <2>2 DEF UnsignedBytes, ReadsSigned, KeptSigned
  <2>3. CASE id \in {"BYTE", "WORD", "DWORD", "LWORD"}
    BY <1>1, <2>3 DEF BitBytes, ReadsSigned, KeptSigned
  <2> QED BY <1>1, <2>1, <2>2, <2>3
<1>3. Bits(id) = ByteBits * n
  BY DEF Bits
<1> HIDE DEF n
<1>4. (ByteBits * n) \div ByteBits = n
  <2>1. n \in Int /\ 0 \in Nat /\ ByteBits \in Nat \ {0} /\ ByteBits * n \in Int /\ ByteBits * n = n * ByteBits + 0
    BY <1>2, ByteBitsAssumption
  <2> QED BY <2>1, DivisionIs
<1> QED BY <1>2, <1>3, <1>4

\* Reading a pattern as a signed number.
LEMMA SignedIs ==
  ASSUME NEW bits \in Nat \ {0}, NEW x \in 0 .. (TwoTo[bits] - 1)
  PROVE  /\ Signed(x, bits) \in Int
         /\ Signed(x, bits) = IF x >= TwoTo[bits - 1] THEN x - TwoTo[bits] ELSE x
         /\ -TwoTo[bits - 1] <= Signed(x, bits) /\ Signed(x, bits) < TwoTo[bits - 1]
<1>1. TwoTo[bits - 1] \in Nat \ {0} /\ TwoTo[bits] = 2 * TwoTo[bits - 1]
  BY Halves
<1>2. TwoTo[bits] \in Nat \ {0} /\ x \in Nat /\ x < TwoTo[bits]
  BY <1>1
<1>3. Unsigned(x, bits) = x
  BY <1>2, SmallRemainder DEF Unsigned
<1>4. Signed(x, bits) = IF x >= TwoTo[bits - 1] THEN x - TwoTo[bits] ELSE x
  BY <1>3 DEF Signed
<1> QED BY <1>1, <1>2, <1>4

\* A value of the type fits into its bits.
LEMMA RangeFits ==
  ASSUME NEW id \in CheckedIds, NEW v \in Int, v >= TypeMin(id), v <= TypeMax(id),
         NEW bits \in Nat \ {0}, bits = Bits(id)
  PROVE  IF id \in KeptSigned THEN Signed(v % TwoTo[bits], bits) = v ELSE v % TwoTo[bits] = v
<1> DEFINE w == TwoTo[bits]
           h == TwoTo[bits - 1]
<1>1. h \in Nat \ {0} /\ w = 2 * h /\ w \in Nat \ {0}
  BY Halves, PowersAreNumbers
<1>2. /\ v % w \in 0 .. (w - 1)
      /\ 0 <= v /\ v < w => v % w = v
      /\ v < 0 /\ 0 - w <= v => v % w = v + w
  <2> HIDE DEF w, h
  <2>1. v % w \in 0 .. (w - 1)
    BY <1>1, Division
  <2>2. ASSUME 0 <= v, v < w PROVE v % w = v
    BY <1>1, <2>2, SmallRemainder
  <2>3. ASSUME v < 0, 0 - w <= v PROVE v % w = v + w
    <3>1. v + w \in Nat /\ v + w < w /\ v = (-1) * w + (v + w) /\ -1 \in Int
      BY <1>1, <2>3
    <3> QED BY <1>1, <3>1, DivisionIs
  <2> QED BY <2>1, <2>2, <2>3
<1>3. CASE id \in {"SINT", "INT", "DINT"}
  <2>1. TypeMax(id) = h - 1 /\ TypeMin(id) = -(h - 1)
    BY <1>3 DEF TypeMax, TypeMin, SignedIds, SignedBytes
  <2>2. 0 - (h - 1) <= v /\ v <= h - 1
    BY <1>1, <2>1
  <2>3. id \in KeptSigned
    BY <1>3 DEF KeptSigned
  <2>4. Signed(v % w, bits) = v
    <3>1. Signed(v % w, bits) = IF v % w >= h THEN (v % w) - w ELSE v % w
      BY <1>2, SignedIs
    <3> HIDE DEF w, h
    <3>2. CASE 0 <= v
      <4>1. v % w = v /\ v < h
        BY <1>1, <1>2, <2>2, <3>2
      <4> QED BY <1>1, <3>1, <4>1
    <3>3. CASE v < 0
      <4>1. v % w = v + w /\ v + w >= h
        BY <1>1, <1>2, <2>2, <3>3
      <4> QED BY <1>1, <3>1, <4>1
    <3> QED BY <3>2, <3>3
  <2> QED BY <2>3, <2>4
<1>4. CASE id = "ULINT"
  <2>1. TypeMax(id) = Word \div 2 - 2 /\ TypeMin(id) = 0 /\ id \in KeptSigned
    BY <1>4 DEF TypeMax, TypeMin, SignedIds, SignedBytes, KeptSigned
  <2>2. w = Word
    <3>1. Bits(id) = ByteBits * 8
      BY <1>4 DEF Bits, UnsignedIds, UnsignedBytes, SignedIds, SignedBytes
    <3>2. ByteBits * 8 = 8 * ByteBits
      BY ByteBitsAssumption
    <3> QED BY <3>1, <3>2 DEF Word
  <2>3. Word \div 2 = h
    BY <1>1, <2>2, HalfWord
  <2>4. 0 <= v /\ v < h
    BY <1>1, <2>1, <2>3
  <2>5. Signed(v % w, bits) = IF v % w >= h THEN (v % w) - w ELSE v % w
    BY <1>2, SignedIs
  <2> HIDE DEF w, h
  <2>6. v % w = v
    BY <1>1, <1>2, <2>4
  <2>7. Signed(v % w, bits) = v
    BY <1>1, <2>4, <2>5, <2>6
  <2> QED BY <2>1, <2>7 DEF w
<1>5. CASE id = "LWORD"
  <2>1. TypeMax(id) = -1 /\ TypeMin(id) = 0
    BY <1>5 DEF TypeMax, TypeMin, SignedIds, SignedBytes
  <2> QED BY <2>1
<1>6. CASE id \in {"USINT", "UINT", "UDINT", "BYTE", "WORD", "DWORD"}
  <2>1. TypeMax(id) = w - 1 /\ TypeMin(id) = 0 /\ id \notin KeptSigned
    BY <1>6 DEF TypeMax, TypeMin, SignedIds, SignedBytes, KeptSigned
  <2>2. 0 <= v /\ v < w
    BY <1>1, <2>1
  <2> HIDE DEF w, h
  <2>3. v % w = v
    BY <1>1, <1>2, <2>2
  <2> QED BY <2>1, <2>3 DEF w
<1>7. id \in {"SINT", "INT", "DINT", "ULINT", "LWORD", "USINT", "UINT", "UDINT", "BYTE", "WORD", "DWORD"}
  BY DEF CheckedIds, IntegerIds, SignedIds, UnsignedIds, BitIds, SignedBytes, UnsignedBytes, BitBytes
<1> QED BY <1>3, <1>4, <1>5, <1>6, <1>7

\* What is read from a field is a number; of a field that was checked it is
\* one of the word.
LEMMA ReadIsNumber ==
  ASSUME NEW t, NEW m \in Memories, NEW a, Valid(a), NEW old \in Int
  PROVE  SyncIn(t, m, a, old) \in Int
<1>1. CASE IsBool(t)
  <2>1. SyncIn(t, m, a, old) = ReadBool(m, a)
    BY <1>1 DEF SyncIn
  <2>2. TwoTo[Bit(a)] \in Nat
    BY Fields, PowersAreNumbers
  <2> QED BY <2>1, <2>2 DEF ReadBool
<1>2. CASE ~ IsBool(t)
  <2> DEFINE n == Bytes(a)
             x == Number(m, Storage(a), n)
  <2>1. /\ a.bits \in Nat /\ n \in Nat
        /\ SyncIn(t, m, a, old) = IF n = 0 THEN old
                                  ELSE IF ReadsSigned(BaseClass(t), n) THEN Signed(x, a.bits) ELSE x
    BY <1>2, Fields DEF SyncIn, ReadInteger, Bytes
  <2>2. x \in 0 .. (Weight(n) - 1) /\ Weight(n) \in Nat
    BY <2>1, FieldRead, Weights
  <2>3. Signed(x, a.bits) \in Int \/ n = 0
    <3>1. ASSUME n # 0 PROVE a.bits - 1 \in Nat
      <4> HIDE DEF x
      <4>1. a.bits # 0
        <5> SUFFICES ASSUME a.bits = 0 PROVE FALSE
          OBVIOUS
        <5>1. ByteBits \in Nat \ {0} /\ 0 < ByteBits
          BY ByteBitsAssumption
        <5>2. 0 \div ByteBits = 0
          BY <5>1, SmallRemainder
        <5> QED BY <3>1, <5>2 DEF Bytes
      <4> QED BY <2>1, <4>1
    <3>2. x \in Int /\ TwoTo[a.bits] \in Nat \ {0}
      BY <2>1, <2>2, PowersAreNumbers
    <3> HIDE DEF x
    <3>3. x % TwoTo[a.bits] \in Int
      BY <3>2, Division
    <3> QED BY <3>1, <3>2, <3>3, PowersAreNumbers DEF Signed, Unsigned
  <2> QED BY <2>1, <2>2, <2>3
<1> QED BY <1>1, <1>2

\* An address that was checked against its type.
CheckedAddress(t, a) ==
  /\ Valid(a)
  /\ IsBool(t) \/ (BaseClass(t) \in CheckedIds /\ a.bits = Bits(BaseClass(t)))

LEMMA IntegerRead ==
  ASSUME NEW t, NEW m \in Memories, NEW a, CheckedAddress(t, a), ~ IsBool(t), NEW old
  PROVE  LET w == TwoTo[a.bits]
             x == Number(m, Storage(a), Bytes(a))
         IN /\ a.bits \in Nat \ {0} /\ Bytes(a) \in Nat \ {0} /\ w = Weight(Bytes(a)) /\ x \in 0 .. (w - 1)
            /\ BaseClass(t) \notin KeptSigned => a.bits <= 4 * ByteBits
            /\ a.bits <= 8 * ByteBits
            /\ SyncIn(t, m, a, old) = IF BaseClass(t) \in KeptSigned THEN Signed(x, a.bits) ELSE x
<1> DEFINE x == Number(m, Storage(a), Bytes(a))
           id == BaseClass(t)
<1>1. ~ IsBool(t) /\ id \in CheckedIds /\ a.bits = Bits(id) /\ Valid(a)
  BY DEF CheckedAddress
<1> HIDE DEF id
<1>2. PICK n \in {1, 2, 4, 8} :
        /\ Bits(id) = ByteBits * n /\ Bits(id) \div ByteBits = n
        /\ ReadsSigned(id, n) <=> id \in KeptSigned
        /\ id \notin KeptSigned => n # 8
  BY <1>1, Lengths
<1>3. Bytes(a) = n /\ a.bits = ByteBits * n
  BY <1>1, <1>2 DEF Bytes
<1>4. ByteBits \in Nat \ {0}
  BY ByteBitsAssumption
<1>5. /\ a.bits \in Nat \ {0} /\ n \in Nat \ {0}
      /\ n # 8 => a.bits <= 4 * ByteBits
      /\ a.bits <= 8 * ByteBits
  <2>1. /\ ByteBits * 1 = ByteBits /\ ByteBits * 2 = 2 * ByteBits
        /\ ByteBits * 4 = 4 * ByteBits /\ ByteBits * 8 = 8 * ByteBits
    BY <1>4
  <2>2. n \in Nat \ {0}
    BY <1>2
  <2> QED BY <1>3, <1>4, <2>1, <2>2
<1>6. TwoTo[a.bits] = Weight(Bytes(a))
  BY <1>3 DEF Weight
<1>7. x \in 0 .. (Weight(Bytes(a)) - 1)
  BY <1>1, FieldRead
<1>8. SyncIn(t, m, a, old) = IF id \in KeptSigned THEN Signed(x, a.bits) ELSE x
  BY <1>1, <1>2, <1>3, <1>5 DEF SyncIn, ReadInteger, Bytes, id
<1> QED BY <1>2, <1>3, <1>5, <1>6, <1>7, <1>8 DEF id

LEMMA ReadIsInWord ==
  ASSUME NEW t, NEW m \in Memories, NEW a, CheckedAddress(t, a), ~ IsBool(t), NEW old
  PROVE  /\ SyncIn(t, m, a, old) \in Int
         /\ Wrap(SyncIn(t, m, a, old)) = SyncIn(t, m, a, old)
<1> DEFINE x == Number(m, Storage(a), Bytes(a))
           y == SyncIn(t, m, a, old)
           h == Word \div 2
<1>1. h \in Nat \ {0} /\ Word = 2 * h /\ Word \in Nat \ {0}
  BY HalfWord
<1>2. y \in Int /\ 0 - h <= y /\ y < h
  <2>1. /\ a.bits \in Nat \ {0} /\ x \in 0 .. (TwoTo[a.bits] - 1)
        /\ BaseClass(t) \notin KeptSigned => a.bits <= 4 * ByteBits
        /\ a.bits <= 8 * ByteBits
        /\ y = IF BaseClass(t) \in KeptSigned THEN Signed(x, a.bits) ELSE x
    BY IntegerRead
  <2> HIDE DEF x, y
  <2>2. CASE BaseClass(t) \in KeptSigned
    <3>1. TwoTo[a.bits - 1] <= h /\ TwoTo[a.bits - 1] \in Nat
      BY <2>1, HalfWord, Halves
    <3>2. y \in Int /\ -TwoTo[a.bits - 1] <= y /\ y < TwoTo[a.bits - 1]
      BY <2>1, <2>2, SignedIs
    <3> HIDE DEF h
    <3> QED BY <1>1, <3>1, <3>2
  <2>3. CASE BaseClass(t) \notin KeptSigned
    <3>1. TwoTo[a.bits] <= h /\ TwoTo[a.bits] \in Nat
      BY <2>1, <2>3, HalfWord, PowersAreNumbers
    <3> HIDE DEF h
    <3> QED BY <1>1, <2>1, <2>3, <3>1
  <2> QED BY <2>2, <2>3
<1>3. Wrap(y) = ((y + h) % Word) - h
  BY DEF Wrap
<1> HIDE DEF y, h
<1>4. y + h \in Nat /\ y + h < Word
  BY <1>1, <1>2
<1>5. (y + h) % Word = y + h
  BY <1>1, <1>4, SmallRemainder
<1> QED BY <1>1, <1>2, <1>3, <1>5 DEF y

\* A value of the type that is written to the field is read from it.
LEMMA ReadAsWasWritten ==
  ASSUME NEW t, NEW m \in Memories, NEW a, CheckedAddress(t, a), ~ IsBool(t),
         NEW v \in Int, v >= TypeMin(BaseClass(t)), v <= TypeMax(BaseClass(t)), NEW old
  PROVE  SyncIn(t, SyncOut(t, m, a, v), a, old) = v
<1> DEFINE id == BaseClass(t)
           o == WriteInteger(m, a, v)
           n == Bytes(a)
           x == Number(o, Storage(a), n)
<1>1. ~ IsBool(t) /\ id \in CheckedIds /\ a.bits = Bits(id) /\ Valid(a)
  BY DEF CheckedAddress
<1>2. SyncOut(t, m, a, v) = o
  BY <1>1 DEF SyncOut
<1>3. o \in Memories /\ \A i \in 0 .. (n - 1) : o[Storage(a) + i] = (v \div Weight(i)) % TwoTo[ByteBits]
  BY <1>1, IntegerWritten
<1> HIDE DEF o
<1>4. /\ a.bits \in Nat \ {0} /\ n \in Nat \ {0} /\ TwoTo[a.bits] = Weight(n)
      /\ SyncIn(t, o, a, old) = IF id \in KeptSigned THEN Signed(x, a.bits) ELSE x
  BY <1>3, IntegerRead
<1>5. x = v % TwoTo[a.bits]
  <2>1. Storage(a) \in Nat
    BY <1>1, Fields
  <2> HIDE DEF n
  <2>2. Number(o, Storage(a), n) = v % Weight(n)
    BY <1>3, <1>4, <2>1, NumberWritten
  <2> QED BY <1>4, <2>2
<1>6. IF id \in KeptSigned THEN Signed(v % TwoTo[a.bits], a.bits) = v ELSE v % TwoTo[a.bits] = v
  BY <1>1, <1>4, RangeFits
<1> QED BY <1>2, <1>4, <1>5, <1>6

\* A BOOL is read as it was written.
LEMMA BoolAsWasWritten ==
  ASSUME NEW t, NEW m \in Memories, NEW a, Valid(a), IsBool(t), NEW v, NEW old
  PROVE  /\ SyncIn(t, SyncOut(t, m, a, v), a, old) \in Int
         /\ SyncIn(t, SyncOut(t, m, a, v), a, old) # 0 <=> v # 0
<1> DEFINE o == WriteBool(m, a, v)
<1>1. SyncIn(t, SyncOut(t, m, a, v), a, old) = IF BitSet(o[Storage(a)], Bit(a)) THEN TwoTo[Bit(a)] ELSE 0
  BY DEF SyncIn, SyncOut, ReadBool
<1>2. BitSet(o[Storage(a)], Bit(a)) <=> v # 0
  BY BoolWritten
<1>3. TwoTo[Bit(a)] \in Nat \ {0}
  BY Fields, PowersAreNumbers
<1> HIDE DEF o
<1> QED BY <1>1, <1>2, <1>3

\* A field is read from its bytes, a BOOL from its bit.
LEMMA ReadFromField ==
  ASSUME NEW t, NEW m \in Memories, NEW o \in Memories, NEW a, Valid(a), NEW old,
         \/ \A i \in FieldBytes(t, a) : m[i] = o[i]
         \/ IsBool(t) /\ (BitSet(m[Storage(a)], Bit(a)) <=> BitSet(o[Storage(a)], Bit(a)))
  PROVE  SyncIn(t, m, a, old) = SyncIn(t, o, a, old)
<1>1. CASE IsBool(t)
  <2>1. BitSet(m[Storage(a)], Bit(a)) <=> BitSet(o[Storage(a)], Bit(a))
    BY <1>1, FieldBytesAre
  <2> QED BY <1>1, <2>1 DEF SyncIn, ReadBool
<1>2. CASE ~ IsBool(t)
  <2>1. \A i \in 0 .. (Bytes(a) - 1) : m[Storage(a) + i] = o[Storage(a) + i]
    BY <1>2, FieldBytesAre
  <2>2. Storage(a) \in Nat /\ Bytes(a) \in Nat
    BY Fields
  <2>3. Number(m, Storage(a), Bytes(a)) = Number(o, Storage(a), Bytes(a))
    BY <2>1, <2>2, NumberOfSameBytes
  <2> QED BY <1>2, <2>3 DEF SyncIn, ReadInteger, Bytes
<1> QED BY <1>1, <1>2

-----------------------------------------------------------------------------
(* What is known of the variables *)

\* The value of a variable of type t, whatever its flags were created with.
ValueIs(t, v) == \E flags : \E x \in Int : v = CreateValue(t, flags, x)

\* The memory has bytes; while the program runs, each variable has a value,
\* and a checked one has an address that fits its type.
DataInv ==
  /\ AddressInv /\ memory \in Memories /\ DOMAIN known = Names
  /\ phase = "parsing" => \A n \in Names : known[n] = {}
  /\ phase = "running" =>
       /\ DOMAIN addresses = Names /\ DOMAIN values = Names
       /\ \A n \in Names : ValueIs(declared[n].type, values[n])
       /\ \A n \in Names : Checked(n) => CheckedAddress(declared[n].type, addresses[n])
\* What is known of a variable is what its value and its bytes say.
KnownInv ==
  phase = "running" =>
    \A n \in Names : Checked(n) => \A k \in known[n] :
      /\ Meaning(n, values[n].v) = k
      /\ Meaning(n, SyncIn(declared[n].type, memory, addresses[n], values[n].v)) = k

\* Its parts, and the same value with another number in it.
LEMMA CreatedValue ==
  ASSUME NEW t, NEW f, NEW x
  PROVE  /\ CreateValue(t, f, x).k = Ancestor(t).k /\ CreateValue(t, f, x).t = t
         /\ CreateValue(t, f, x).v = x
BY DEF CreateValue, FamilyOf

LEMMA ChangedValue ==
  ASSUME NEW t, NEW f, NEW x, NEW y
  PROVE  [CreateValue(t, f, x) EXCEPT !.v = y] = CreateValue(t, f, y)
<1> DEFINE temp == ClassUninitialised(t) /\ "temp" \in f
           const == ClassUninitialised(t) /\ "const" \in f
           Rec(z) == [k |-> FamilyOf(t), t |-> t, typeOf |-> "set",
                      temp |-> temp, const |-> const, v |-> z]
<1>1. \A z : CreateValue(t, f, z) = Rec(z)
  BY DEF CreateValue
<1> HIDE DEF temp, const
<1>2. [Rec(x) EXCEPT !.v = y] = Rec(y)
  OBVIOUS
<1> HIDE DEF Rec
<1> QED BY <1>1, <1>2

LEMMA MethodsOfNumbers ==
  ASSUME NEW v, v.k \in {"integer", "bool"}
  PROVE  /\ v.k = "integer" => Has(v, "assign") /\ Has(v, "integer")
         /\ v.k = "bool" => Has(v, "assign") /\ Has(v, "bool") /\ ~ Has(v, "plus")
<1>1. CASE v.k = "integer"
  <2>1. Methods(v) = IF v.typeOf = "null" THEN IntegerMethods \ {"type_of"} ELSE IntegerMethods
    BY <1>1 DEF Methods
  <2> QED BY <1>1, <2>1 DEF Has, IntegerMethods, Common
<1>2. CASE v.k = "bool"
  <2>1. Methods(v) = IF v.typeOf = "null" THEN BoolMethods \ {"type_of"} ELSE BoolMethods
    BY <1>2 DEF Methods
  <2> QED BY <1>2, <2>1 DEF Has, BoolMethods, Common
<1> QED BY <1>1, <1>2

\* A value that may be assigned to an integer or a BOOL is a number.
IsNumber(b) == Has(b, "integer") \/ Has(b, "bool") => b.v \in Int

\* An assignment stores a value of the type, or leaves the value as it was.
LEMMA AssignedNumber ==
  ASSUME NEW t, CanSync(t), NEW a, ValueIs(t, a), NEW b, IsNumber(b), NEW r, r = Assign(a, b)
  PROVE  /\ r.r = "ok" => ValueIs(t, r.v) /\ r.v.v \in Int /\ b.v \in Int
         /\ r.r # "ok" => r.v = a
         /\ r.r = "ok" /\ IsBool(t) => r.v.v = IF b.v # 0 THEN 1 ELSE 0
         /\ r.r = "ok" /\ ~ IsBool(t) => r.v.v = b.v
         /\ r.r = "ok" /\ ~ IsBool(t) /\ ~ a.temp =>
              b.v >= TypeMin(BaseClass(t)) /\ b.v <= TypeMax(BaseClass(t))
<1>1. PICK f : \E x \in Int : a = CreateValue(t, f, x)
  BY DEF ValueIs
<1>2. /\ a.k = Ancestor(t).k /\ a.t = t
      /\ \A y : [a EXCEPT !.v = y] = CreateValue(t, f, y)
      /\ \A y : CreateValue(t, f, y).v = y
  <2>1. a.k = Ancestor(t).k /\ a.t = t
    BY <1>1, CreatedValue
  <2>2. \A y : [a EXCEPT !.v = y] = CreateValue(t, f, y)
    BY <1>1, ChangedValue
  <2>3. \A y : CreateValue(t, f, y).v = y
    BY CreatedValue
  <2> QED BY <2>1, <2>2, <2>3
<1>3. a.k \in {"integer", "bool"} /\ Has(a, "assign")
  BY <1>2, MethodsOfNumbers DEF CanSync
<1>4. CASE a.k = "bool"
  <2>1. r = BoolAssign(a, b) /\ IsBool(t)
    BY <1>2, <1>3, <1>4 DEF Assign, IsBool
  <2>2. CASE ~ Has(b, "bool")
    BY <2>1, <2>2 DEF BoolAssign, Failed
  <2>3. CASE Has(b, "bool")
    <3> DEFINE y == IF b.v # 0 THEN 1 ELSE 0
    <3>1. r = [r |-> "ok", v |-> [a EXCEPT !.v = y]] /\ b.v \in Int /\ y \in Int
      BY <2>1, <2>3 DEF BoolAssign, Done, IsNumber
    <3> HIDE DEF y
    <3>2. r.v = CreateValue(t, f, y) /\ r.v.v = y /\ r.r = "ok"
      BY <1>2, <3>1
    <3> QED BY <2>1, <3>1, <3>2 DEF ValueIs, y
  <2> QED BY <2>2, <2>3
<1>5. CASE a.k = "integer"
  <2>1. r = NumberAssign(a, b, "integer") /\ ~ IsBool(t)
    BY <1>2, <1>3, <1>5 DEF Assign, IsBool
  <2>2. CanHold(a.t, b) = YesIf(Has(b, "integer") /\ b.v >= TypeMin(BaseClass(t)) /\ b.v <= TypeMax(BaseClass(t)))
    BY <1>2, <1>5 DEF CanHold, IntegerHolds, BaseClass
  <2>3. CASE ~ a.temp /\ CanHold(a.t, b) = "no"
    <3>1. r = Failed(a, "error")
      BY <2>1, <2>3 DEF NumberAssign
    <3> QED BY <3>1 DEF Failed
  <2>4. CASE (a.temp \/ CanHold(a.t, b) # "no") /\ Has(b, "integer")
    <3>1. ~ a.temp => CanHold(a.t, b) = "yes" /\ b.v >= TypeMin(BaseClass(t)) /\ b.v <= TypeMax(BaseClass(t))
      BY <2>2, <2>4 DEF YesIf
    <3>2. r = [r |-> "ok", v |-> [a EXCEPT !.v = b.v]]
      BY <2>1, <2>4, <3>1 DEF NumberAssign, Done
    <3>3. b.v \in Int
      BY <2>4 DEF IsNumber
    <3>4. r.v = CreateValue(t, f, b.v) /\ r.v.v = b.v /\ r.r = "ok"
      BY <1>2, <3>2
    <3> QED BY <2>1, <3>1, <3>3, <3>4 DEF ValueIs
  <2>5. CASE a.temp /\ ~ Has(b, "integer")
    <3>1. r = Failed(a, "crash")
      BY <2>1, <2>5 DEF NumberAssign
    <3> QED BY <3>1 DEF Failed
  <2>6. ~ a.temp /\ CanHold(a.t, b) # "no" => Has(b, "integer")
    BY <2>2 DEF YesIf
  <2> QED BY <2>3, <2>4, <2>5, <2>6
<1> QED BY <1>3, <1>4, <1>5

-----------------------------------------------------------------------------
(* The steps, and what is in the variables *)

\* What has been read from the bytes of a checked address does not depend on
\* the value the variable had.
LEMMA ReadWithoutValue ==
  ASSUME NEW t, NEW m \in Memories, NEW a, CheckedAddress(t, a), NEW x, NEW y
  PROVE  SyncIn(t, m, a, x) = SyncIn(t, m, a, y)
<1>1. CASE IsBool(t)
  BY <1>1 DEF SyncIn
<1>2. CASE ~ IsBool(t)
  <2>1. \A old : SyncIn(t, m, a, old) =
          IF BaseClass(t) \in KeptSigned THEN Signed(Number(m, Storage(a), Bytes(a)), a.bits)
          ELSE Number(m, Storage(a), Bytes(a))
    BY <1>2, IntegerRead
  <2> QED BY <2>1
<1> QED BY <1>1, <1>2

\* The read of a variable gives a number.
LEMMA ReadValue ==
  ASSUME DataInv, phase = "running", NEW n \in Names
  PROVE  /\ ValueIs(declared[n].type, VariableValue(n))
         /\ VariableValue(n).v = SyncIn(declared[n].type, memory, addresses[n], values[n].v)
         /\ VariableValue(n).v \in Int
<1> DEFINE t == declared[n].type
           y == SyncIn(t, memory, addresses[n], values[n].v)
<1>1. PICK f : \E x \in Int : values[n] = CreateValue(t, f, x)
  BY DEF DataInv, ValueIs
<1>2. values[n].v \in Int
  BY <1>1, CreatedValue
<1>3. y \in Int
  BY <1>2, ReadIsNumber DEF DataInv, AddressInv
<1>4. VariableValue(n) = [values[n] EXCEPT !.v = y]
  BY DEF VariableValue, ValueAt
<1> HIDE DEF y
<1>5. VariableValue(n) = CreateValue(t, f, y)
  BY <1>1, <1>4, ChangedValue
<1>6. VariableValue(n).v = y
  BY <1>5, CreatedValue
<1> QED BY <1>3, <1>5, <1>6 DEF ValueIs, y

\* The write of a variable that shares no bits with another one leaves what
\* is read from the other.
Apart(t, a, u, b) ==
  IF IsBool(t) /\ IsBool(u) THEN ~ (Storage(a) = Storage(b) /\ Bit(a) = Bit(b))
  ELSE FieldBytes(t, a) \cap FieldBytes(u, b) = {}
LEMMA WrittenApart ==
  ASSUME NEW t, NEW a, Valid(a), NEW u, NEW b, Valid(b), Apart(t, a, u, b),
         NEW m \in Memories, NEW v \in Int, NEW old
  PROVE  SyncIn(u, SyncOut(t, m, a, v), b, old) = SyncIn(u, m, b, old)
<1> DEFINE o == SyncOut(t, m, a, v)
<1>1. o \in Memories /\ \A i \in 0 .. (Size - 1) : i \notin FieldBytes(t, a) => o[i] = m[i]
  BY FieldWritten
<1>2. CASE FieldBytes(t, a) \cap FieldBytes(u, b) = {}
  <2>1. \A i \in FieldBytes(u, b) : i \in 0 .. (Size - 1) /\ i \notin FieldBytes(t, a)
    BY <1>2, FieldInside
  <2>2. \A i \in FieldBytes(u, b) : o[i] = m[i]
    BY <1>1, <2>1
  <2> HIDE DEF o
  <2>3. SyncIn(u, o, b, old) = SyncIn(u, m, b, old)
    BY <1>1, <2>2, ReadFromField
  <2> QED BY <2>3 DEF o
<1>3. CASE IsBool(t) /\ IsBool(u) /\ ~ (Storage(a) = Storage(b) /\ Bit(a) = Bit(b))
  <2>1. Bit(b) \in Nat /\ Storage(b) \in 0 .. (Size - 1)
    BY Fields, SizeAssumption
  <2>2. /\ o = WriteBool(m, a, v)
        /\ \A i \in 0 .. (Size - 1) : i # Storage(a) => o[i] = m[i]
        /\ \A c \in Nat : c # Bit(a) => (BitSet(o[Storage(a)], c) <=> BitSet(m[Storage(a)], c))
    BY <1>3, BoolWritten DEF SyncOut
  <2> HIDE DEF o
  <2>3. BitSet(o[Storage(b)], Bit(b)) <=> BitSet(m[Storage(b)], Bit(b))
    <3>1. CASE Storage(b) # Storage(a)
      BY <2>1, <2>2, <3>1
    <3>2. CASE Storage(b) = Storage(a)
      BY <1>3, <2>1, <2>2, <3>2
    <3> QED BY <3>1, <3>2
  <2>4. SyncIn(u, o, b, old) = SyncIn(u, m, b, old)
    BY <1>1, <1>3, <2>3, ReadFromField
  <2> QED BY <2>4 DEF o
<1> QED BY <1>2, <1>3 DEF Apart

LEMMA UntouchedIsApart ==
  ASSUME NEW m, NEW n, ~ Touches(m, n)
  PROVE  Apart(declared[n].type, addresses[n], declared[m].type, addresses[m])
BY DEF Touches, Apart

\* What is known of the variables, when they have these values.
KnownOf(vs, ks) ==
  \A n \in Names : Checked(n) => \A k \in ks[n] :
    /\ Meaning(n, vs[n].v) = k
    /\ Meaning(n, SyncIn(declared[n].type, memory, addresses[n], vs[n].v)) = k

\* A write of n leaves of the others what is known afterwards.
LEMMA KnownAfterWrite ==
  ASSUME DataInv, phase = "running", NEW n \in Names,
         NEW vs, DOMAIN vs = Names, NEW ks, DOMAIN ks = Names, KnownOf(vs, ks),
         NEW y, y.v \in Int, NEW new,
         Checked(n) => \A k \in new :
           /\ Meaning(n, y.v) = k
           /\ Meaning(n, SyncIn(declared[n].type, SyncOut(declared[n].type, memory, addresses[n], y.v),
                                addresses[n], y.v)) = k,
         values' = [vs EXCEPT ![n] = y],
         memory' = SyncOut(declared[n].type, memory, addresses[n], y.v),
         known' = Overwritten([ks EXCEPT ![n] = new], n),
         UNCHANGED <<declared, addresses>>
  PROVE  KnownInv'
<1>1. \A l \in Names : Valid(addresses[l])
  BY DEF DataInv, AddressInv
<1>2. Names' = Names /\ \A l : Checked(l)' <=> Checked(l)
  BY DEF Names, Checked
<1>3. \A l, x : Meaning(l, x)' = Meaning(l, x)
  BY DEF Meaning
<1>4. memory \in Memories
  BY DEF DataInv
<1>5. ASSUME NEW l \in Names, Checked(l), NEW k \in known'[l]
      PROVE  /\ Meaning(l, values'[l].v) = k
             /\ Meaning(l, SyncIn(declared[l].type, memory', addresses[l], values'[l].v)) = k
  <2>1. known'[l] = IF l # n /\ Touches(l, n) THEN {} ELSE [ks EXCEPT ![n] = new][l]
    BY DEF Overwritten
  <2>2. CASE l = n
    <3>1. values'[l] = y /\ k \in new
      BY <1>5, <2>1, <2>2
    <3> QED BY <1>5, <2>2, <3>1
  <2>3. CASE l # n
    <3>1. ~ Touches(l, n) /\ k \in ks[l] /\ values'[l] = vs[l]
      BY <1>5, <2>1, <2>3
    <3>2. SyncIn(declared[l].type, memory', addresses[l], vs[l].v)
            = SyncIn(declared[l].type, memory, addresses[l], vs[l].v)
      BY <1>1, <1>4, <3>1, UntouchedIsApart, WrittenApart
    <3>3. /\ Meaning(l, vs[l].v) = k
          /\ Meaning(l, SyncIn(declared[l].type, memory, addresses[l], vs[l].v)) = k
      BY <1>5, <3>1 DEF KnownOf
    <3> QED BY <3>1, <3>2, <3>3
  <2> QED BY <2>2, <2>3
<1> QED BY <1>2, <1>3, <1>5 DEF KnownInv

\* What is assigned is what a checked variable means then, and what is read
\* from its bytes, unless a temporary is given a number they cannot keep.
LEMMA AssignedIsKept ==
  ASSUME DataInv, phase = "running", NEW n \in Names, Callable(n), Checked(n),
         NEW b, IsNumber(b), NEW r, r = Assign(values[n], b), r.r = "ok",
         ~ values[n].temp \/ Keeps(n, b.v)
  PROVE  /\ Meaning(n, r.v.v) = Meaning(n, b.v)
         /\ Meaning(n, SyncIn(declared[n].type, SyncOut(declared[n].type, memory, addresses[n], r.v.v),
                              addresses[n], r.v.v)) = Meaning(n, b.v)
<1> DEFINE t == declared[n].type
           a == addresses[n]
           y == r.v.v
           z == SyncIn(t, SyncOut(t, memory, a, y), a, y)
<1>1. memory \in Memories /\ CheckedAddress(t, a) /\ Valid(a) /\ CanSync(t) /\ ValueIs(t, values[n])
  BY DEF DataInv, AddressInv, CheckedAddress, Callable
<1>2. /\ y \in Int /\ b.v \in Int
      /\ IsBool(t) => y = IF b.v # 0 THEN 1 ELSE 0
      /\ ~ IsBool(t) => y = b.v
      /\ ~ IsBool(t) /\ ~ values[n].temp => b.v >= TypeMin(BaseClass(t)) /\ b.v <= TypeMax(BaseClass(t))
  BY <1>1, AssignedNumber
<1> HIDE DEF y
<1>3. CASE IsBool(t)
  <2>1. z # 0 <=> y # 0
    BY <1>1, <1>3, BoolAsWasWritten
  <2> HIDE DEF z, a
  <2>2. \A x : Meaning(n, x) = IF x # 0 THEN 1 ELSE x
    BY <1>3 DEF Meaning
  <2>3. Meaning(n, y) = Meaning(n, b.v) /\ Meaning(n, z) = Meaning(n, b.v)
    BY <1>2, <1>3, <2>1, <2>2
  <2> QED BY <2>3 DEF z, y, a
<1>4. CASE ~ IsBool(t) /\ ~ values[n].temp
  <2>1. z = y
    BY <1>1, <1>2, <1>4, ReadAsWasWritten
  <2> QED BY <1>2, <1>4, <2>1 DEF y
<1>5. CASE ~ IsBool(t) /\ Keeps(n, b.v)
  BY <1>2, <1>5 DEF Keeps, y
<1> QED BY <1>3, <1>4, <1>5

\* What a FOR counts to.
LEMMA Counted ==
  ASSUME NEW t, CanSync(t), NEW a, ValueIs(t, a), Has(a, "plus"), NEW increment \in Int,
         NEW r, r = Operate("plus", a, IntegerLiteral(increment))
  PROVE  /\ ~ IsBool(t) /\ r.r = "ok" /\ a.v \in Int
         /\ ValueIs(t, r.v) /\ r.v.v = Wrap(a.v + increment) /\ r.v.v \in Int
<1> DEFINE b == IntegerLiteral(increment)
           y == Wrap(a.v + increment)
<1>1. PICK f : \E x \in Int : a = CreateValue(t, f, x)
  BY DEF ValueIs
<1>2. a.k = Ancestor(t).k /\ a.v \in Int
  BY <1>1, CreatedValue
<1>3. a.k = "integer" /\ ~ IsBool(t)
  <2>1. a.k \in {"integer", "bool"}
    BY <1>2 DEF CanSync
  <2> QED BY <1>2, <2>1, MethodsOfNumbers DEF IsBool
<1>4. b.k = "integer" /\ b.v = increment
  BY DEF IntegerLiteral
<1> HIDE DEF b
<1>5. Accessor(a) = "integer" /\ Has(b, "integer")
  BY <1>3, <1>4, MethodsOfNumbers DEF Accessor
<1>6. r = [r |-> "ok", v |-> [a EXCEPT !.v = y]]
  <2>1. r = IntegerSum("plus", a, b)
    BY <1>3, <1>5 DEF Operate, b
  <2> QED BY <1>4, <2>1 DEF IntegerSum, Done
<1>7. y \in Int
  <2>1. Word \in Nat \ {0} /\ Word \div 2 \in Int
    BY HalfWord
  <2>2. (a.v + increment) + Word \div 2 \in Int
    BY <1>2, <2>1
  <2>3. ((a.v + increment) + Word \div 2) % Word \in Int
    BY <2>1, <2>2, Division
  <2> QED BY <2>1, <2>3 DEF Wrap
<1> HIDE DEF y
<1>8. r.r = "ok" /\ r.v = CreateValue(t, f, y)
  BY <1>1, <1>6, ChangedValue
<1>9. r.v.v = y
  BY <1>8, CreatedValue
<1> QED BY <1>2, <1>3, <1>7, <1>8, <1>9 DEF ValueIs, y

-----------------------------------------------------------------------------

DataAndKnown == DataInv /\ KnownInv

LEMMA DataInit == Init => DataAndKnown
<1> SUFFICES ASSUME Init PROVE DataAndKnown
  OBVIOUS
<1>1. AddressInv
  BY AddressInit
<1>2. 0 \in ByteValues
  <2>1. TwoTo[ByteBits] \in Nat \ {0}
    BY Weights
  <2> QED BY <2>1 DEF ByteValues
<1>3. memory \in Memories
  BY <1>2 DEF Init, Memories
<1>4. DOMAIN known = Names /\ phase = "parsing" /\ \A n \in Names : known[n] = {}
  BY DEF Init, Names
<1> QED BY <1>1, <1>3, <1>4 DEF DataAndKnown, DataInv, KnownInv

\* Before the program runs nothing is known.
LEMMA ParsingStep ==
  ASSUME DataAndKnown, AddressInv', phase = "parsing", phase' \in {"parsing", "rejected"},
         UNCHANGED <<declared, memory, known>>
  PROVE  DataAndKnown'
BY DEF DataAndKnown, DataInv, KnownInv, Names

\* The resolved types check their addresses, and the values are created.
LEMMA LinkData ==
  ASSUME DataAndKnown, AddressInv', Link
  PROVE  DataAndKnown'
<1> DEFINE final == [n \in Names |-> IF Checked(n) THEN Validated(declared[n].type, addresses[n])
                                     ELSE {addresses[n]}]
<1>1. phase = "parsing" /\ UNCHANGED <<declared, memory, known>> /\ DOMAIN addresses = Names
  BY DEF Link
<1>2. CASE \E n \in Names : final[n] = {}
  BY <1>1, <1>2, ParsingStep DEF Link
<1>3. CASE ~ \E n \in Names : final[n] = {}
  <2>1. /\ phase' = "running"
        /\ addresses' = [n \in Names |-> CHOOSE a \in final[n] : TRUE]
        /\ \E garbage \in [Names -> Garbage] :
             values' = [n \in Names |-> CreateValue(declared[n].type, garbage[n].flags, garbage[n].number)]
    BY <1>3 DEF Link
  <2>2. Names' = Names /\ \A n : Checked(n)' <=> Checked(n)
    BY <1>1 DEF Names, Checked
  <2>3. ASSUME NEW n \in Names PROVE ValueIs(declared[n].type, values'[n])
    <3>1. PICK garbage \in [Names -> Garbage] :
            values' = [l \in Names |-> CreateValue(declared[l].type, garbage[l].flags, garbage[l].number)]
      BY <2>1
    <3>2. garbage[n] \in Garbage
      OBVIOUS
    <3>3. garbage[n].number \in Int
      BY <3>2, GarbageAssumption
    <3>4. values'[n] = CreateValue(declared[n].type, garbage[n].flags, garbage[n].number)
      BY <3>1
    <3> QED BY <3>3, <3>4 DEF ValueIs
  <2>4. ASSUME NEW n \in Names, Checked(n) PROVE CheckedAddress(declared[n].type, addresses'[n])
    <3> DEFINE t == declared[n].type
               a == addresses[n]
               b == addresses'[n]
               narrowed == IF Bits(BaseClass(t)) > a.bits THEN {} ELSE {[a EXCEPT !.bits = Bits(BaseClass(t))]}
    <3>1. b \in Validated(t, a)
      <4>1. b = CHOOSE x \in final[n] : TRUE
        BY <2>1
      <4>2. b \in final[n]
        BY <1>3, <4>1
      <4> QED BY <2>4, <4>2
    <3>2. Valid(a)
      BY <1>1 DEF DataAndKnown, DataInv, AddressInv
    <3>3. Valid(b)
      BY <3>1, <3>2, NarrowedIsValid
    <3>4. ASSUME ~ IsBool(t) PROVE BaseClass(t) \in CheckedIds /\ b.bits = Bits(BaseClass(t))
      <4>1. \/ BaseClass(t) \in CheckedIds /\ Validated(t, a) = narrowed
            \/ Validated(t, a) = {}
        BY <3>4 DEF Validated, CheckedIds
      <4>2. BaseClass(t) \in CheckedIds /\ b \in narrowed
        BY <3>1, <4>1
      <4>3. b = [a EXCEPT !.bits = Bits(BaseClass(t))] /\ a \in AddressType
        BY <3>2, <4>2 DEF Valid
      <4>4. b.bits = Bits(BaseClass(t))
        BY <4>3 DEF AddressType
      <4> QED BY <4>2, <4>4
    <3> QED BY <3>3, <3>4 DEF CheckedAddress
  <2>5. \A n \in Names : known'[n] = {}
    BY <1>1 DEF DataAndKnown, DataInv
  <2>6. memory' \in Memories /\ DOMAIN known' = Names /\ DOMAIN values' = Names /\ DOMAIN addresses' = Names
    BY <1>1, <2>1 DEF DataAndKnown, DataInv
  <2>7. DataInv'
    BY <1>1, <2>1, <2>2, <2>3, <2>4, <2>6 DEF DataInv
  <2>8. KnownInv'
    BY <2>2, <2>5 DEF KnownInv
  <2> QED BY <2>7, <2>8 DEF DataAndKnown
<1> QED BY <1>2, <1>3

\* A step of the running program that leaves numbers in the values.
LEMMA RunningData ==
  ASSUME DataAndKnown, AddressInv', phase = "running", phase' \in {"running", "crashed"},
         UNCHANGED <<declared, addresses>>, memory' \in Memories, DOMAIN known' = Names,
         DOMAIN values' = Names, \A n \in Names : ValueIs(declared[n].type, values'[n])
  PROVE  DataInv'
<1>1. Names' = Names /\ \A n : Checked(n)' <=> Checked(n)
  BY DEF Names, Checked
<1> QED BY <1>1 DEF DataAndKnown, DataInv

LEMMA ResetData ==
  ASSUME DataAndKnown, AddressInv', Reset
  PROVE  DataAndKnown'
<1>1. /\ phase = "running" /\ phase' = "running" /\ UNCHANGED <<declared, addresses, memory>>
      /\ values' = [n \in Names |-> [values[n] EXCEPT !.v = 0]]
      /\ known' = [n \in Names |-> {}]
  BY DEF Reset
<1>2. ASSUME NEW n \in Names PROVE ValueIs(declared[n].type, values'[n])
  <2>1. PICK f : \E x \in Int : values[n] = CreateValue(declared[n].type, f, x)
    BY <1>1 DEF DataAndKnown, DataInv, ValueIs
  <2>2. values'[n] = [values[n] EXCEPT !.v = 0]
    BY <1>1
  <2>3. values'[n] = CreateValue(declared[n].type, f, 0)
    BY <2>1, <2>2, ChangedValue
  <2> QED BY <2>3 DEF ValueIs
<1>3. memory' \in Memories
  BY <1>1 DEF DataAndKnown, DataInv
<1>4. DataInv'
  BY <1>1, <1>2, <1>3, RunningData
<1>5. KnownInv'
  BY <1>1 DEF KnownInv, Names
<1> QED BY <1>4, <1>5 DEF DataAndKnown

\* A read makes known what the bytes say.
LEMMA ReadKnown ==
  ASSUME DataAndKnown, phase = "running", NEW n \in Names
  PROVE  LET vs == [values EXCEPT ![n] = VariableValue(n)]
             ks == [known EXCEPT ![n] = {Meaning(n, VariableValue(n).v)}]
         IN KnownOf(vs, ks) /\ \A l \in Names : ValueIs(declared[l].type, vs[l])
<1> DEFINE w == VariableValue(n)
           vs == [values EXCEPT ![n] = w]
           ks == [known EXCEPT ![n] = {Meaning(n, w.v)}]
           t == declared[n].type
<1>1. DOMAIN values = Names /\ DOMAIN known = Names /\ memory \in Memories
  BY DEF DataAndKnown, DataInv
<1>2. /\ ValueIs(t, w)
      /\ w.v = SyncIn(t, memory, addresses[n], values[n].v)
  BY ReadValue DEF DataAndKnown
<1> HIDE DEF w
<1>3. ASSUME NEW l \in Names PROVE ValueIs(declared[l].type, vs[l])
  <2>1. vs[l] = IF l = n THEN w ELSE values[l]
    BY <1>1
  <2> QED BY <1>2, <2>1 DEF DataAndKnown, DataInv
<1>4. ASSUME NEW l \in Names, Checked(l), NEW k \in ks[l]
      PROVE  /\ Meaning(l, vs[l].v) = k
             /\ Meaning(l, SyncIn(declared[l].type, memory, addresses[l], vs[l].v)) = k
  <2>1. CASE l = n
    <3>1. vs[l] = w /\ k = Meaning(n, w.v)
      BY <1>1, <1>4, <2>1
    <3>2. CheckedAddress(t, addresses[n])
      BY <1>4, <2>1 DEF DataAndKnown, DataInv
    <3>3. SyncIn(t, memory, addresses[n], w.v) = w.v
      BY <1>1, <1>2, <3>2, ReadWithoutValue
    <3> QED BY <2>1, <3>1, <3>3
  <2>2. CASE l # n
    <3>1. vs[l] = values[l] /\ k \in known[l]
      BY <1>1, <1>4, <2>2
    <3> QED BY <1>4, <3>1 DEF DataAndKnown, KnownInv
  <2> QED BY <2>1, <2>2
<1>5. KnownOf(vs, ks)
  BY <1>4 DEF KnownOf
<1> QED BY <1>3, <1>5 DEF w

LEMMA ReadData ==
  ASSUME DataAndKnown, AddressInv', NEW n \in Names, Read(n)
  PROVE  DataAndKnown'
<1>1. /\ phase = "running" /\ phase' = "running" /\ UNCHANGED <<declared, addresses, memory>>
      /\ values' = [values EXCEPT ![n] = VariableValue(n)]
      /\ known' = [known EXCEPT ![n] = {Meaning(n, VariableValue(n).v)}]
  BY DEF Read, VariableValue
<1>2. KnownOf(values', known') /\ \A l \in Names : ValueIs(declared[l].type, values'[l])
  BY <1>1, ReadKnown
<1>3. memory' \in Memories /\ DOMAIN known' = Names /\ DOMAIN values' = Names
  BY <1>1 DEF DataAndKnown, DataInv
<1>4. DataInv'
  BY <1>1, <1>2, <1>3, RunningData
<1>5. KnownInv'
  <2>1. Names' = Names /\ \A l : Checked(l)' <=> Checked(l)
    BY <1>1 DEF Names, Checked
  <2>2. \A l, x : Meaning(l, x)' = Meaning(l, x)
    BY <1>1 DEF Meaning
  <2> QED BY <1>1, <1>2, <2>1, <2>2 DEF KnownInv, KnownOf
<1> QED BY <1>4, <1>5 DEF DataAndKnown

\* A write keeps what is known, when it succeeds with a value of the type
\* and what it makes known is what was written.
LEMMA WriteData ==
  ASSUME DataAndKnown, AddressInv', phase = "running", phase' \in {"running", "crashed"},
         NEW n \in Names,
         NEW vs, DOMAIN vs = Names, \A l \in Names : ValueIs(declared[l].type, vs[l]),
         NEW ks, DOMAIN ks = Names, KnownOf(vs, ks),
         NEW r, r.r = "ok" => ValueIs(declared[n].type, r.v), r.r # "ok" => r.v = vs[n],
         NEW new,
         Checked(n) /\ r.r = "ok" => \A k \in new :
           /\ Meaning(n, r.v.v) = k
           /\ Meaning(n, SyncIn(declared[n].type, SyncOut(declared[n].type, memory, addresses[n], r.v.v),
                                addresses[n], r.v.v)) = k,
         UNCHANGED <<declared, addresses>>,
         values' = [vs EXCEPT ![n] = r.v],
         memory' = IF r.r = "ok" THEN SyncOut(declared[n].type, memory, addresses[n], r.v.v) ELSE memory,
         known' = IF r.r = "ok" THEN Overwritten([ks EXCEPT ![n] = new], n) ELSE ks
  PROVE  DataAndKnown'
<1>1. DataInv /\ memory \in Memories /\ Valid(addresses[n])
  BY DEF DataAndKnown, DataInv, AddressInv
<1>2. CASE r.r = "ok"
  <2>1. PICK f : \E x \in Int : r.v = CreateValue(declared[n].type, f, x)
    BY <1>2 DEF ValueIs
  <2>2. r.v.v \in Int
    BY <2>1, CreatedValue
  <2>3. memory' \in Memories
    BY <1>1, <1>2, <2>2, FieldWritten
  <2>4. DOMAIN known' = Names /\ DOMAIN values' = Names
    BY <1>2 DEF Overwritten
  <2>5. ASSUME NEW l \in Names PROVE ValueIs(declared[l].type, values'[l])
    <3>1. values'[l] = IF l = n THEN r.v ELSE vs[l]
      OBVIOUS
    <3> QED BY <1>2, <3>1
  <2>6. DataInv'
    BY <2>3, <2>4, <2>5, RunningData
  <2>7. /\ memory' = SyncOut(declared[n].type, memory, addresses[n], r.v.v)
        /\ known' = Overwritten([ks EXCEPT ![n] = new], n)
        /\ Checked(n) => \A k \in new :
             /\ Meaning(n, r.v.v) = k
             /\ Meaning(n, SyncIn(declared[n].type, SyncOut(declared[n].type, memory, addresses[n], r.v.v),
                                  addresses[n], r.v.v)) = k
    BY <1>2
  <2>8. KnownInv'
    BY <1>1, <2>2, <2>7, KnownAfterWrite
  <2> QED BY <2>6, <2>8 DEF DataAndKnown
<1>3. CASE r.r # "ok"
  <2>1. memory' = memory /\ known' = ks /\ r.v = vs[n]
    BY <1>3
  <2>2. \A l \in Names : values'[l] = vs[l]
    BY <2>1
  <2>3. DOMAIN values' = Names
    OBVIOUS
  <2>4. DataInv'
    BY <1>1, <2>1, <2>2, <2>3, RunningData
  <2>5. KnownInv'
    <3>1. Names' = Names /\ \A l : Checked(l)' <=> Checked(l)
      BY DEF Names, Checked
    <3>2. \A l, x : Meaning(l, x)' = Meaning(l, x)
      BY DEF Meaning
    <3> QED BY <2>1, <2>2, <3>1, <3>2 DEF KnownInv, KnownOf
  <2> QED BY <2>4, <2>5 DEF DataAndKnown
<1> QED BY <1>2, <1>3

LEMMA KnownBefore ==
  ASSUME DataAndKnown, phase = "running"
  PROVE  /\ DOMAIN values = Names /\ DOMAIN known = Names /\ KnownOf(values, known)
         /\ \A l \in Names : ValueIs(declared[l].type, values[l])
BY DEF DataAndKnown, DataInv, KnownInv, KnownOf

LEMMA AssignData ==
  ASSUME DataAndKnown, AddressInv', NEW n \in Names, NEW value \in Literals, VariableAssign(n, value)
  PROVE  DataAndKnown'
<1> DEFINE r == Assign(values[n], value)
           new == Known(n, value.v)
<1>1. /\ phase = "running" /\ Callable(n)
      /\ UNCHANGED <<declared, addresses>>
      /\ values' = [values EXCEPT ![n] = r.v]
      /\ memory' = IF r.r = "ok" THEN SyncOut(declared[n].type, memory, addresses[n], r.v.v) ELSE memory
      /\ known' = IF r.r = "ok" THEN Overwritten([known EXCEPT ![n] = new], n) ELSE known
      /\ phase' = IF r.r = "crash" THEN "crashed" ELSE phase
  BY DEF VariableAssign, Written
<1>2. IsNumber(value)
  BY LiteralsAssumption DEF IsNumber
<1>3. /\ DOMAIN values = Names /\ DOMAIN known = Names /\ KnownOf(values, known)
      /\ \A l \in Names : ValueIs(declared[l].type, values[l])
  BY <1>1, KnownBefore
<1>4. r.r = "ok" => ValueIs(declared[n].type, r.v)
  BY <1>1, <1>2, <1>3, AssignedNumber DEF Callable
<1>5. r.r # "ok" => r.v = values[n]
  BY <1>1, <1>2, <1>3, AssignedNumber DEF Callable
<1>6. Checked(n) /\ r.r = "ok" => \A k \in new :
        /\ Meaning(n, r.v.v) = k
        /\ Meaning(n, SyncIn(declared[n].type, SyncOut(declared[n].type, memory, addresses[n], r.v.v),
                             addresses[n], r.v.v)) = k
  <2>1. ASSUME NEW k \in new PROVE k = Meaning(n, value.v) /\ (~ values[n].temp \/ Keeps(n, value.v))
    BY <2>1 DEF Known
  <2> HIDE DEF new
  <2> QED BY <1>1, <1>2, <2>1, AssignedIsKept DEF DataAndKnown
<1>7. phase' \in {"running", "crashed"}
  BY <1>1
<1> HIDE DEF r, new
<1> QED BY <1>1, <1>3, <1>4, <1>5, <1>6, <1>7, WriteData

LEMMA CopyData ==
  ASSUME DataAndKnown, AddressInv', NEW n \in Names, NEW m \in Names, n # m, Copy(n, m)
  PROVE  DataAndKnown'
<1> DEFINE from == VariableValue(m)
           r == Assign(values[n], from)
           vs == [values EXCEPT ![m] = from]
           ks == [known EXCEPT ![m] = {Meaning(m, from.v)}]
           new == Known(n, from.v)
<1>1. /\ phase = "running" /\ phase' = "running" /\ Callable(n)
      /\ UNCHANGED <<declared, addresses>>
      /\ values' = [vs EXCEPT ![n] = r.v]
      /\ memory' = IF r.r = "ok" THEN SyncOut(declared[n].type, memory, addresses[n], r.v.v) ELSE memory
      /\ known' = IF r.r = "ok" THEN Overwritten([ks EXCEPT ![n] = new], n) ELSE ks
  BY DEF Copy
<1>2. IsNumber(from)
  BY <1>1, ReadValue DEF IsNumber, DataAndKnown
<1>3. /\ DOMAIN values = Names /\ DOMAIN known = Names
      /\ \A l \in Names : ValueIs(declared[l].type, values[l])
  BY <1>1, KnownBefore
<1>4. KnownOf(vs, ks) /\ \A l \in Names : ValueIs(declared[l].type, vs[l])
  BY <1>1, ReadKnown
<1>5. DOMAIN vs = Names /\ DOMAIN ks = Names /\ vs[n] = values[n]
  BY <1>3
<1> HIDE DEF from
<1>6. r.r = "ok" => ValueIs(declared[n].type, r.v)
  BY <1>1, <1>2, <1>3, AssignedNumber DEF Callable
<1>7. r.r # "ok" => r.v = vs[n]
  <2>1. r.r # "ok" => r.v = values[n]
    BY <1>1, <1>2, <1>3, AssignedNumber DEF Callable
  <2> QED BY <1>5, <2>1
<1>8. Checked(n) /\ r.r = "ok" => \A k \in new :
        /\ Meaning(n, r.v.v) = k
        /\ Meaning(n, SyncIn(declared[n].type, SyncOut(declared[n].type, memory, addresses[n], r.v.v),
                             addresses[n], r.v.v)) = k
  <2>1. ASSUME NEW k \in new PROVE k = Meaning(n, from.v) /\ (~ values[n].temp \/ Keeps(n, from.v))
    BY <2>1 DEF Known
  <2> HIDE DEF new
  <2> QED BY <1>1, <1>2, <2>1, AssignedIsKept DEF DataAndKnown
<1> HIDE DEF r, new, vs, ks
<1> QED BY <1>1, <1>4, <1>5, <1>6, <1>7, <1>8, WriteData

\* A FOR adds to the value a variable has; what was known is what it has,
\* and when the bytes can hold the sum it does not wrap around.
LEMMA PlusData ==
  ASSUME DataAndKnown, AddressInv', NEW n \in Names, NEW increment \in Increments,
         VariablePlus(n, increment)
  PROVE  DataAndKnown'
<1> DEFINE t == declared[n].type
           a == addresses[n]
           r == Operate("plus", values[n], IntegerLiteral(increment))
           new == {k + increment : k \in {old \in known[n] : Keeps(n, old + increment)}}
<1>1. /\ phase = "running" /\ Callable(n) /\ Has(values[n], "plus")
      /\ UNCHANGED <<declared, addresses>>
      /\ values' = [values EXCEPT ![n] = r.v]
      /\ memory' = IF r.r = "ok" THEN SyncOut(declared[n].type, memory, addresses[n], r.v.v) ELSE memory
      /\ known' = IF r.r = "ok" THEN Overwritten([known EXCEPT ![n] = new], n) ELSE known
      /\ phase' = IF r.r = "crash" THEN "crashed" ELSE phase
  BY DEF VariablePlus, Modified, Written
<1>2. /\ DOMAIN values = Names /\ DOMAIN known = Names /\ KnownOf(values, known)
      /\ \A l \in Names : ValueIs(declared[l].type, values[l])
  BY <1>1, KnownBefore
<1>3. increment \in Int
  BY LiteralsAssumption
<1>4. /\ ~ IsBool(t) /\ r.r = "ok" /\ values[n].v \in Int
      /\ ValueIs(t, r.v) /\ r.v.v = Wrap(values[n].v + increment)
  BY <1>1, <1>2, <1>3, Counted DEF Callable
<1>5. \A x : Meaning(n, x) = x
  BY <1>4 DEF Meaning
<1> HIDE DEF r
<1>6. ASSUME Checked(n), NEW k \in new
      PROVE  r.v.v = k /\ SyncIn(t, SyncOut(t, memory, a, r.v.v), a, r.v.v) = k
  <2>1. PICK old \in known[n] : k = old + increment /\ Keeps(n, old + increment)
    BY <1>6
  <2>2. old = values[n].v
    BY <1>2, <1>5, <1>6, <2>1 DEF KnownOf
  <2>3. k \in Int /\ k = values[n].v + increment
    BY <1>3, <1>4, <2>1, <2>2
  <2>4. SyncIn(t, SyncOut(t, memory, a, k), a, k) = k
    BY <1>5, <2>1 DEF Keeps
  <2>5. memory \in Memories /\ CheckedAddress(t, a) /\ Valid(a)
    BY <1>1, <1>6 DEF DataAndKnown, DataInv, CheckedAddress
  <2>6. SyncOut(t, memory, a, k) \in Memories
    BY <2>3, <2>5, FieldWritten
  <2>7. Wrap(k) = k
    <3>1. Wrap(SyncIn(t, SyncOut(t, memory, a, k), a, k)) = SyncIn(t, SyncOut(t, memory, a, k), a, k)
      BY <1>4, <2>5, <2>6, ReadIsInWord
    <3> QED BY <2>4, <3>1
  <2>8. r.v.v = k
    BY <1>4, <2>3, <2>7
  <2> QED BY <2>4, <2>8
<1>7. Checked(n) /\ r.r = "ok" => \A k \in new :
        /\ Meaning(n, r.v.v) = k
        /\ Meaning(n, SyncIn(t, SyncOut(t, memory, a, r.v.v), a, r.v.v)) = k
  BY <1>5, <1>6
<1>8. phase' \in {"running", "crashed"} /\ (r.r # "ok" => r.v = values[n])
  BY <1>1, <1>4
<1>9. r.r = "ok" => ValueIs(declared[n].type, r.v)
  BY <1>4
<1> HIDE DEF new
<1> QED BY <1>1, <1>2, <1>7, <1>8, <1>9, WriteData

LEMMA DataNext == DataAndKnown /\ [Next]_vars => DataAndKnown'
<1> SUFFICES ASSUME DataAndKnown, [Next]_vars PROVE DataAndKnown'
  OBVIOUS
<1>0. AddressInv'
  BY AddressNext DEF DataAndKnown, DataInv
<1>1. CASE \E n \in Names : Parse(n)
  <2>1. phase = "parsing" /\ phase' \in {"parsing", "rejected"} /\ UNCHANGED <<declared, memory, known>>
    BY <1>1 DEF Parse
  <2> QED BY <1>0, <2>1, ParsingStep
<1>2. CASE Link
  BY <1>0, <1>2, LinkData
<1>3. CASE Reset
  BY <1>0, <1>3, ResetData
<1>4. CASE \E n \in Names : CrashOn(n)
  <2>1. /\ phase = "running" /\ phase' = "crashed"
        /\ UNCHANGED <<declared, addresses, values, memory, known>>
    BY <1>4 DEF CrashOn
  <2>2. DataInv'
    BY <1>0, <2>1 DEF DataAndKnown, DataInv, Names
  <2>3. KnownInv'
    BY <2>1 DEF KnownInv
  <2> QED BY <2>2, <2>3 DEF DataAndKnown
<1>5. CASE \E n \in Names : Read(n)
  BY <1>0, <1>5, ReadData
<1>6. CASE \E n \in Names, value \in Literals : VariableAssign(n, value)
  BY <1>0, <1>6, AssignData
<1>7. CASE \E n, m \in Names : n # m /\ Copy(n, m)
  BY <1>0, <1>7, CopyData
<1>8. CASE \E n \in Names, increment \in Increments : VariablePlus(n, increment)
  BY <1>0, <1>8, PlusData
<1>9. CASE UNCHANGED vars
  <2>1. UNCHANGED <<declared, addresses, values, memory, phase, known>>
    BY <1>9 DEF vars
  <2>2. DataInv'
    BY <1>0, <2>1 DEF DataAndKnown, DataInv, Names, Checked
  <2>3. KnownInv'
    BY <2>1 DEF DataAndKnown, KnownInv, Names, Checked, Meaning
  <2> QED BY <2>2, <2>3 DEF DataAndKnown
<1> QED BY <1>1, <1>2, <1>3, <1>4, <1>5, <1>6, <1>7, <1>8, <1>9 DEF Next

\* For every file, every memory and every bits per byte: what was last
\* written, counted or read of a variable with a checked address is what its
\* value says and what its bytes say, until a variable that shares bits with
\* it is written or the program is started again, however many variables
\* overlap.
THEOREM KnownValuesAreKept == Spec => []KnownValuesKept
<1>1. Init => DataAndKnown
  BY DataInit
<1>2. DataAndKnown /\ [Next]_vars => DataAndKnown'
  BY DataNext
<1>3. DataAndKnown => KnownValuesKept
  <2> SUFFICES ASSUME DataAndKnown, phase = "running", NEW n \in Names, NEW k \in known[n], Checked(n)
               PROVE  Meaning(n, values[n].v) = k /\ Meaning(n, ValueAt(n, memory).v) = k
    BY DEF KnownValuesKept
  <2>1. ValueAt(n, memory).v = SyncIn(declared[n].type, memory, addresses[n], values[n].v)
    BY ReadValue DEF VariableValue, DataAndKnown
  <2> QED BY <2>1 DEF DataAndKnown, KnownInv
<1> QED BY <1>1, <1>2, <1>3, PTL DEF Spec

-----------------------------------------------------------------------------
(* What a write leaves alone *)

\* A statement that writes n writes its field with a number, or fails.
LEMMA WriteOf ==
  ASSUME DataAndKnown, NEW n \in Names, Writes(n)
  PROVE  \/ memory' = memory
         \/ \E x \in Int : memory' = SyncOut(declared[n].type, memory, addresses[n], x)
<1> DEFINE Same(r) == r.r = "ok" => r.v.v \in Int
           Stores(r) == memory' = IF r.r = "ok"
                                    THEN SyncOut(declared[n].type, memory, addresses[n], r.v.v) ELSE memory
<1>1. \E r : Same(r) /\ Stores(r)
  <2>1. CASE \E value \in Literals : VariableAssign(n, value)
    <3>1. PICK value \in Literals : VariableAssign(n, value)
      BY <2>1
    <3> DEFINE r == Assign(values[n], value)
    <3>2. phase = "running" /\ Callable(n) /\ Stores(r)
      BY <3>1 DEF VariableAssign, Written
    <3>3. IsNumber(value)
      BY LiteralsAssumption DEF IsNumber
    <3>4. Same(r)
      BY <3>2, <3>3, KnownBefore, AssignedNumber DEF Callable
    <3> QED BY <3>2, <3>4
  <2>2. CASE \E m \in Names \ {n} : Copy(n, m)
    <3>1. PICK m \in Names \ {n} : Copy(n, m)
      BY <2>2
    <3> DEFINE from == VariableValue(m)
               r == Assign(values[n], from)
    <3>2. phase = "running" /\ Callable(n) /\ Stores(r)
      BY <3>1 DEF Copy
    <3>3. IsNumber(from)
      BY <3>2, ReadValue DEF IsNumber, DataAndKnown
    <3> HIDE DEF from
    <3>4. Same(r)
      BY <3>2, <3>3, KnownBefore, AssignedNumber DEF Callable
    <3> QED BY <3>2, <3>4
  <2>3. CASE \E increment \in Increments : VariablePlus(n, increment)
    <3>1. PICK increment \in Increments : VariablePlus(n, increment)
      BY <2>3
    <3> DEFINE r == Operate("plus", values[n], IntegerLiteral(increment))
    <3>2. phase = "running" /\ Callable(n) /\ Has(values[n], "plus") /\ Stores(r)
      BY <3>1 DEF VariablePlus, Modified, Written
    <3>3. increment \in Int
      BY LiteralsAssumption
    <3>4. Same(r)
      BY <3>2, <3>3, KnownBefore, Counted DEF Callable
    <3> QED BY <3>2, <3>4
  <2> QED BY <2>1, <2>2, <2>3 DEF Writes
<1> QED BY <1>1

LEMMA BitsAround ==
  ASSUME DataAndKnown, NEW n \in Names, n \in DOMAIN addresses, Writes(n),
         NEW i \in DOMAIN memory, NEW b \in 0 .. (ByteBits - 1),
         ~ (BitSet(memory'[i], b) <=> BitSet(memory[i], b))
  PROVE  IF IsBool(declared[n].type) THEN i = Storage(addresses[n]) /\ b = Bit(addresses[n])
         ELSE i \in FieldBytes(declared[n].type, addresses[n])
<1> DEFINE t == declared[n].type
           a == addresses[n]
<1>1. memory \in Memories /\ Valid(a) /\ i \in 0 .. (Size - 1) /\ b \in Nat
  BY ByteBitsAssumption DEF DataAndKnown, DataInv, AddressInv
<1>2. PICK x \in Int : memory' = SyncOut(t, memory, a, x)
  BY WriteOf
<1>3. CASE IsBool(t)
  <2>1. /\ memory' = WriteBool(memory, a, x)
        /\ \A j \in 0 .. (Size - 1) : j # Storage(a) => memory'[j] = memory[j]
        /\ \A c \in Nat : c # Bit(a) => (BitSet(memory'[Storage(a)], c) <=> BitSet(memory[Storage(a)], c))
    BY <1>1, <1>2, <1>3, BoolWritten DEF SyncOut
  <2> QED BY <1>1, <1>3, <2>1
<1>4. CASE ~ IsBool(t)
  <2>1. \A j \in 0 .. (Size - 1) : j \notin FieldBytes(t, a) => memory'[j] = memory[j]
    BY <1>1, <1>2, FieldWritten
  <2> QED BY <1>1, <1>4, <2>1
<1> QED BY <1>3, <1>4

\* For every file, every memory and every bits per byte: a statement that
\* writes a BOOL changes no other bit of its byte, one that writes an integer
\* no byte around its field, also when the statement fails.
THEOREM OtherBitsAreKept == Spec => OtherBitsKept
<1> DEFINE Around == \A n \in Names : OnlyOwnBitsChange(n) \/ ~ Writes(n)
<1>1. Init => DataAndKnown
  BY DataInit
<1>2. DataAndKnown /\ [Next]_vars => DataAndKnown'
  BY DataNext
<1>3. DataAndKnown => [Around]_memory
  <2> SUFFICES ASSUME DataAndKnown, NEW n \in Names, Writes(n),
                      NEW i \in DOMAIN memory, NEW b \in 0..(ByteBits - 1),
                      BitSet(memory'[i], b) # BitSet(memory[i], b)
               PROVE  OwnBit(n, i, b)
    BY DEF OnlyOwnBitsChange
  <2>1. ~ (BitSet(memory'[i], b) <=> BitSet(memory[i], b))
    BY DEF BitSet
  <2>2. phase = "running"
    BY DEF Writes, VariableAssign, Copy, VariablePlus
  <2>3. n \in DOMAIN addresses
    BY <2>2 DEF DataAndKnown, DataInv
  <2> QED BY <2>1, <2>3, BitsAround DEF OwnBit
<1>4. OtherBitsKept <=> [][Around]_memory
  BY PTL DEF OtherBitsKept
<1> QED BY <1>1, <1>2, <1>3, <1>4, PTL DEF Spec

-----------------------------------------------------------------------------
(* Addresses in expressions *)

\* The first byte of an integer's field is the lowest digit of the integer.
LEMMA FirstByte ==
  ASSUME NEW t, NEW m \in Memories, NEW a, CheckedAddress(t, a), ~ IsBool(t), NEW old
  PROVE  SyncIn(t, m, a, old) % TwoTo[ByteBits] = m[Storage(a)]
<1> DEFINE n == Bytes(a)
           d == TwoTo[ByteBits]
           w == TwoTo[a.bits]
           x == Number(m, Storage(a), n)
           y == SyncIn(t, m, a, old)
<1>1. /\ a.bits \in Nat \ {0} /\ n \in Nat \ {0} /\ w = Weight(n) /\ x \in 0 .. (w - 1)
      /\ y = IF BaseClass(t) \in KeptSigned THEN Signed(x, a.bits) ELSE x
  BY IntegerRead
<1>2. Storage(a) \in Nat /\ \A i \in 0 .. (n - 1) : m[Storage(a) + i] \in ByteValues
  BY Fields, FieldRead DEF CheckedAddress
<1>3. x % d = m[Storage(a)]
  BY <1>1, <1>2, NumberLow
<1>4. /\ d \in Nat \ {0} /\ n - 1 \in Nat /\ Weight(n - 1) \in Nat \ {0}
      /\ Weight(n) = Weight(n - 1) * d
  <2> HIDE DEF n, d
  <2>1. n - 1 \in Nat /\ (n - 1) + 1 = n
    BY <1>1
  <2> QED BY <2>1, Weights DEF d
<1>5. CASE y = x
  BY <1>3, <1>5
<1>6. CASE y # x
  <2>1. y = x - w
    BY <1>1, <1>6, SignedIs
  <2> DEFINE k == Weight(n - 1)
  <2>2. x \in Int /\ y = x - k * d /\ k \in Nat
    BY <1>1, <1>4, <2>1
  <2> HIDE DEF x, d, k, y
  <2>3. x - k * d = x + (-k) * d /\ -k \in Int
    BY <1>4, <2>2
  <2>4. (x + (-k) * d) % d = x % d
    BY <1>4, <2>2, <2>3, QuotientOfSum
  <2> QED BY <1>3, <2>2, <2>3, <2>4 DEF y, d
<1> QED BY <1>5, <1>6

\* For every file, every memory and every bits per byte: an address in an
\* expression agrees with a variable that is declared there, whatever was
\* written through any variable.
THEOREM TermsDoAgree == Spec => []TermsAgree
<1>1. Init => DataAndKnown
  BY DataInit
<1>2. DataAndKnown /\ [Next]_vars => DataAndKnown'
  BY DataNext
<1>3. DataAndKnown => TermsAgree
  <2> SUFFICES ASSUME DataAndKnown, phase = "running", NEW n \in Names, NEW d \in Terms,
                      NEW a \in NewAddress(d), Checked(n), Storage(a) = Storage(addresses[n])
               PROVE  /\ IsBool(declared[n].type) /\ a.unit = "X" /\ Bit(a) = Bit(addresses[n]) =>
                           /\ (TermValue(a) # 0) = (ValueAt(n, memory).v # 0)
                           /\ \A b \in BOOLEAN :
                                TermEquals(a, BoolLiteral(b)) => b = (ValueAt(n, memory).v # 0)
                      /\ ~ IsBool(declared[n].type) /\ a.unit # "X" =>
                           TermValue(a) = ValueAt(n, memory).v % TwoTo[ByteBits]
    BY DEF TermsAgree
  <2> DEFINE x == ValueAt(n, memory).v
  <2>1. x = SyncIn(declared[n].type, memory, addresses[n], values[n].v)
    BY ReadValue DEF VariableValue, DataAndKnown
  <2>2. memory \in Memories /\ CheckedAddress(declared[n].type, addresses[n])
    BY DEF DataAndKnown, DataInv
  <2> HIDE DEF x
  <2>3. ASSUME IsBool(declared[n].type), a.unit = "X", Bit(a) = Bit(addresses[n])
        PROVE  /\ (TermValue(a) # 0) = (x # 0)
               /\ \A b \in BOOLEAN : TermEquals(a, BoolLiteral(b)) => b = (x # 0)
    <3>1. TermValue(a) = x
      BY <2>1, <2>3 DEF SyncIn, ReadBool, TermValue
    <3>2. ASSUME NEW b \in BOOLEAN, TermEquals(a, BoolLiteral(b)) PROVE b = (x # 0)
      <4>1. x = IF BoolLiteral(b).v # 0 THEN 1 ELSE 0
        BY <2>3, <3>1, <3>2 DEF TermEquals
      <4>2. BoolLiteral(b).v = IF b THEN 1 ELSE 0
        BY DEF BoolLiteral
      <4>3. CASE b
        <5>1. x # 0
          BY <4>1, <4>2, <4>3
        <5>2. b = TRUE /\ (x # 0) = TRUE
          BY <4>3, <5>1
        <5> QED BY <5>2
      <4>4. CASE ~ b
        BY <4>1, <4>2, <4>4
      <4> QED BY <4>3, <4>4
    <3> QED BY <3>1, <3>2
  <2>4. ASSUME ~ IsBool(declared[n].type), a.unit # "X"
        PROVE  TermValue(a) = x % TwoTo[ByteBits]
    BY <2>1, <2>2, <2>4, FirstByte DEF TermValue
  <2> QED BY <2>3, <2>4 DEF x
<1> QED BY <1>1, <1>2, <1>3, PTL DEF Spec
=============================================================================
