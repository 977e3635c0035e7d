---------------------------- MODULE DirectMemory ----------------------------
(***************************************************************************)
(* Variables and direct memory (elements/variable.c, directmemory.c,       *)
(* parser/pdirectmemory.c, expressions/direct_address_term.c and the       *)
(* sync_direct_memory of integers.c and derived.c).                        *)
(*                                                                         *)
(* A variable with an address keeps its value twice: in its value and in   *)
(* the bytes at the address.  A read copies the bytes to the value, a      *)
(* successful write the value to the bytes; a FOR adds to the value        *)
(* without reading the bytes.  Addresses may overlap.  A new value has     *)
(* uninitialised flags: one that is taken for a temporary is given numbers *)
(* its type cannot hold.                                                   *)
(***************************************************************************)
EXTENDS TypeChecks

CONSTANTS
  \* The bytes of the memory.
  Size,
  \* The sets of declarations a file may have: functions from names.
  Layouts,
  \* The literals a program assigns, and the increments of its FORs.
  Literals, Increments,
  \* The addresses a program reads in its expressions.
  Terms,
  \* What the memory of a new value may hold: the flags and the number.
  Garbage,
  \* Bound: no FOR counts to this value.
  Highest

\* The parser reads the numbers of an address without a sign.
ASSUME SizeAssumption == Size \in Nat
ASSUME LayoutsAssumption ==
  \A layout \in Layouts : \A n \in DOMAIN layout :
    layout[n].index \in Nat /\ layout[n].sub \in Nat
\* What an integer or a BOOL can be assigned from is a number.
ASSUME LiteralsAssumption ==
  /\ \A value \in Literals : Has(value, "integer") \/ Has(value, "bool") => value.v \in Int
  /\ Increments \subseteq Int
ASSUME GarbageAssumption == \A garbage \in Garbage : garbage.number \in Int

VARIABLES
  declared,    \* the declarations of the file
  addresses,   \* the addresses parsed so far
  values,      \* the value of each variable
  memory,      \* the bytes
  phase,       \* "parsing", "running", "rejected" or "crashed"
  known        \* what the writes and reads so far say of each variable: at
               \* most one value

vars == <<declared, addresses, values, memory, phase, known>>

Names == DOMAIN declared

----------------------------------------------------------------------------
(* Addresses *)

\* Without a unit, and with a unit in lower case, the address is of a bit.
UnitBytes(unit) ==
  CASE unit = "B" -> 1 [] unit = "W" -> 2 [] unit = "D" -> 4 [] unit = "L" -> 8

\* The letters are compared as they are, although the scanner takes both
\* cases: "%i" is memory, and the digits after a lower case unit are not read.
Area(d) == IF d.area \in {"I", "Q"} THEN d.area ELSE "M"
Unit(d) == IF d.unit \in {"B", "W", "D", "L"} THEN d.unit ELSE "X"
Index(d) == IF d.unit \in {"b", "w", "d", "l", "x"} THEN 0 ELSE d.index

\* The address a representation stands for; none when it is not supported.
Addresses(d) ==
  IF Area(d) # "M" \/ (Unit(d) # "X" /\ d.sub # 0) THEN {}
  ELSE IF Unit(d) = "X"
    THEN {[unit |-> "X", byte |-> Index(d), bit |-> d.sub, bits |-> 1]}
  ELSE {[unit |-> Unit(d), byte |-> Index(d) * UnitBytes(Unit(d)), bit |-> 0,
         bits |-> UnitBytes(Unit(d)) * ByteBits]}

Storage(a) == a.byte + a.bit \div ByteBits

\* Mutant: the size of the field is not looked at.
FirstByteInside(a) == a.byte < Size /\ Storage(a) < Size
\* The checks of the offset of an address.
Inside(a) == a.byte < Size /\ Storage(a) < Size /\ Storage(a) + a.bits \div ByteBits <= Size

NewAddress(d) == {a \in Addresses(d) : Inside(a)}

----------------------------------------------------------------------------
(* sync_direct_memory *)

Bit(a) == a.bit % ByteBits
BitSet(byte, i) == (byte \div TwoTo[i]) % 2 = 1
IsBool(t) == Ancestor(t).k = "bool"

\* The bytes a variable of this type reads and writes.
FieldBytes(t, a) ==
  IF IsBool(t) THEN {Storage(a)}
  ELSE {Storage(a) + i : i \in 0..(a.bits \div ByteBits - 1)}

\* The number in n bytes, the least significant byte first.
Number(m, first, n) ==
  LET part[i \in 0..n] == IF i = 0 THEN 0 ELSE part[i - 1] + m[first + i - 1] * TwoTo[ByteBits * (i - 1)]
  IN part[n]

\* A DINT in four bytes, an INT in two and a SINT in one keep their sign, and
\* so does everything in eight.
ReadsSigned(id, n) ==
  n = 8 \/ (n = 4 /\ id = "DINT") \/ (n = 2 /\ id = "INT") \/ (n = 1 /\ id = "SINT")

ReadInteger(id, m, a, old) ==
  LET n == a.bits \div ByteBits
      number == Number(m, Storage(a), n)
  IN IF n = 0 THEN old ELSE IF ReadsSigned(id, n) THEN Signed(number, a.bits) ELSE number

WriteInteger(m, a, v) ==
  LET last == Storage(a) + a.bits \div ByteBits - 1
  IN [i \in DOMAIN m |->
        IF i \in Storage(a)..last THEN (v \div TwoTo[ByteBits * (i - Storage(a))]) % TwoTo[ByteBits]
        ELSE m[i]]

ReadBool(m, a) == IF BitSet(m[Storage(a)], Bit(a)) THEN TwoTo[Bit(a)] ELSE 0

\* Mutant: the other bits of the byte are cleared.
WriteWholeByte(m, a, v) == [m EXCEPT ![Storage(a)] = IF v # 0 THEN TwoTo[Bit(a)] ELSE 0]
WriteBool(m, a, v) ==
  LET byte == m[Storage(a)]
      cleared == IF BitSet(byte, Bit(a)) THEN byte - TwoTo[Bit(a)] ELSE byte
  IN [m EXCEPT ![Storage(a)] = IF v = 0 THEN cleared ELSE cleared + TwoTo[Bit(a)]]

\* Types that can be kept in memory; a derived type asks its ancestor.
CanSync(t) == Ancestor(t).k \in {"integer", "bool"}
SyncIn(t, m, a, old) ==
  IF IsBool(t) THEN ReadBool(m, a) ELSE ReadInteger(BaseClass(t), m, a, old)
SyncOut(t, m, a, v) == IF IsBool(t) THEN WriteBool(m, a, v) ELSE WriteInteger(m, a, v)

\* The address as the type narrows it.  LINT has no validation of its own.
Validated(t, a) ==
  CASE IsBool(t) -> {a}
    [] BaseClass(t) \in IntegerIds \ {"LINT"} ->
         IF Bits(BaseClass(t)) > a.bits THEN {} ELSE {[a EXCEPT !.bits = Bits(BaseClass(t))]}
    [] OTHER -> {}

----------------------------------------------------------------------------
(* From the file to the program *)

Parse(n) ==
  /\ phase = "parsing" /\ n \in Names \ DOMAIN addresses
  /\ \E found \in {NewAddress(declared[n])} :
       IF found = {}
         THEN phase' = "rejected" /\ UNCHANGED addresses
         ELSE /\ addresses' = [m \in DOMAIN addresses \union {n} |->
                                 IF m = n THEN CHOOSE a \in found : TRUE ELSE addresses[m]]
              /\ UNCHANGED phase
  /\ UNCHANGED <<declared, values, memory, known>>

\* The check of an address waits for the type of the variable in a pool of
\* references.  The pool of global variables is merged into that of the file,
\* and the checks that wait in it are lost.
Checked(n) == ~declared[n].global

\* Resolving the types, and creating the values.
Link ==
  /\ phase = "parsing" /\ DOMAIN addresses = Names
  /\ \E final \in {[n \in Names |-> IF Checked(n) THEN Validated(declared[n].type, addresses[n])
                                      ELSE {addresses[n]}]} :
       IF \E n \in Names : final[n] = {}
         THEN phase' = "rejected" /\ UNCHANGED <<addresses, values>>
         ELSE /\ phase' = "running"
              /\ addresses' = [n \in Names |-> CHOOSE a \in final[n] : TRUE]
              /\ \E garbage \in [Names -> Garbage] :
                   values' = [n \in Names |-> CreateValue(declared[n].type, garbage[n].flags,
                                                         garbage[n].number)]
  /\ UNCHANGED <<declared, memory, known>>

\* st_start: the values get the default of their type (the value of a
\* declaration is dropped), the bytes stay.
Reset ==
  /\ phase = "running"
  /\ values' = [n \in Names |-> [values[n] EXCEPT !.v = 0]]
  /\ known' = [n \in Names |-> {}]
  /\ UNCHANGED <<declared, addresses, memory, phase>>

----------------------------------------------------------------------------
(* The variable interface.  The variable of a VAR_EXTERNAL hands every call *)
(* to the global variable of its name.                                      *)

ValueAt(n, m) ==
  [values[n] EXCEPT !.v = SyncIn(declared[n].type, m, addresses[n], values[n].v)]

VariableValue(n) == ValueAt(n, memory)

\* What a variable means: an integer itself, a BOOL whether it is zero.
Meaning(n, v) == IF IsBool(declared[n].type) /\ v # 0 THEN 1 ELSE v

Touches(m, n) ==
  IF IsBool(declared[m].type) /\ IsBool(declared[n].type)
    THEN Storage(addresses[m]) = Storage(addresses[n]) /\ Bit(addresses[m]) = Bit(addresses[n])
  ELSE FieldBytes(declared[m].type, addresses[m]) \cap FieldBytes(declared[n].type, addresses[n]) # {}
Overwritten(k, n) == [m \in Names |-> IF m # n /\ Touches(m, n) THEN {} ELSE k[m]]

\* Whether the address of n keeps v without loss.
Keeps(n, v) ==
  LET t == declared[n].type
  IN Meaning(n, SyncIn(t, SyncOut(t, memory, addresses[n], v), addresses[n], v)) = Meaning(n, v)

\* What n is known to hold when v is assigned to it.  The numbers given to an
\* integer are checked, unless its flags say that it is a temporary: of one its
\* address cannot keep nothing is known.
Known(n, v) == IF values[n].temp /\ ~Keeps(n, v) THEN {} ELSE {Meaning(n, v)}

\* A variable as it is when the copy is verified: flags as created, and a number
\* that fits (one that does not, of a variable taken for a constant, has the
\* program refused).
Linked(n) == [values[n] EXCEPT !.v = 0]

\* A type that cannot be kept in memory has no function to call.
Callable(n) == CanSync(declared[n].type)
CrashOn(n) ==
  /\ phase = "running" /\ ~Callable(n) /\ phase' = "crashed"
  /\ UNCHANGED <<declared, addresses, values, memory, known>>

\* Reading n, in an expression or a query.
Read(n) ==
  /\ phase = "running" /\ Callable(n)
  /\ values' = [values EXCEPT ![n] = VariableValue(n)]
  /\ known' = [known EXCEPT ![n] = {Meaning(n, ValueAt(n, memory).v)}]
  /\ UNCHANGED <<declared, addresses, memory, phase>>

\* n takes the value the operation r left in it; a success is written to the
\* bytes.
Written(n, r, k) ==
  /\ values' = [values EXCEPT ![n] = r.v]
  /\ memory' = IF r.r = "ok" THEN SyncOut(declared[n].type, memory, addresses[n], r.v.v) ELSE memory
  /\ known' = IF r.r = "ok" THEN Overwritten([known EXCEPT ![n] = k], n) ELSE known
  /\ phase' = IF r.r = "crash" THEN "crashed" ELSE phase
  /\ UNCHANGED <<declared, addresses>>

\* n := value; the program was accepted, so n takes values of this kind.
VariableAssign(n, value) ==
  /\ phase = "running" /\ Callable(n)
  /\ AssignableFrom(values[n], value) = "yes"
  /\ Written(n, Assign(values[n], value), Known(n, value.v))

\* n := m, where m is read first.
Copy(n, m) ==
  /\ phase = "running" /\ Callable(n) /\ Callable(m)
  /\ AssignableFrom(values[n], Linked(m)) = "yes"
  /\ \E from \in {VariableValue(m)} : \E r \in {Assign(values[n], from)} :
       /\ r.r # "crash"
       /\ values' = [values EXCEPT ![m] = from, ![n] = r.v]
       /\ memory' = IF r.r = "ok" THEN SyncOut(declared[n].type, memory, addresses[n], r.v.v) ELSE memory
       /\ known' = LET read == [known EXCEPT ![m] = {Meaning(m, from.v)}]
                   IN IF r.r = "ok" THEN Overwritten([read EXCEPT ![n] = Known(n, from.v)], n) ELSE read
  /\ UNCHANGED <<declared, addresses, phase>>

\* Mutant: the result stays in the value.
UnwrittenModify(n, r, k) ==
  /\ values' = [values EXCEPT ![n] = r.v]
  /\ known' = Overwritten([known EXCEPT ![n] = k], n)
  /\ UNCHANGED <<declared, addresses, memory, phase>>
Modified(n, r, k) == Written(n, r, k)

\* The increment of a FOR on n.  It adds to the value n has, whatever the
\* bytes are by now; what was not known before is not known afterwards.
VariablePlus(n, increment) ==
  /\ phase = "running" /\ Callable(n) /\ Has(values[n], "plus")
  /\ AbsOf(values[n].v + increment) < Highest
  /\ Modified(n, Operate("plus", values[n], IntegerLiteral(increment)),
              {k + increment : k \in {old \in known[n] : Keeps(n, old + increment)}})

----------------------------------------------------------------------------
(* A direct address in an expression *)

\* Mutant: the bit is not taken within its byte.
UnfoldedTerm(a) ==
  IF a.unit = "X"
    THEN IF BitSet(memory[Storage(a)], a.bit) THEN TwoTo[a.bit] ELSE 0
    ELSE memory[Storage(a)]
\* The bit where it stands in its byte; of larger fields the cases fall
\* through to the first byte.
TermValue(a) ==
  IF a.unit = "X"
    THEN IF BitSet(memory[Storage(a)], Bit(a)) THEN TwoTo[Bit(a)] ELSE 0
    ELSE memory[Storage(a)]

\* A bit is compared with 0 and 1, whatever its place in the byte.
TermEquals(a, value) ==
  IF a.unit = "X" THEN TermValue(a) = (IF value.v # 0 THEN 1 ELSE 0)
  ELSE TermValue(a) = value.v

----------------------------------------------------------------------------

Init ==
  /\ declared \in Layouts
  /\ addresses = <<>>
  /\ values = <<>>
  /\ memory = [i \in 0..(Size - 1) |-> 0]
  /\ phase = "parsing"
  /\ known = [n \in DOMAIN declared |-> {}]

Next ==
  \/ \E n \in Names : Parse(n)
  \/ Link
  \/ Reset
  \/ \E n \in Names : CrashOn(n)
  \/ \E n \in Names : Read(n)
  \/ \E n \in Names, value \in Literals : VariableAssign(n, value)
  \/ \E n, m \in Names : n # m /\ Copy(n, m)
  \/ \E n \in Names, increment \in Increments : VariablePlus(n, increment)

Spec == Init /\ [][Next]_vars

----------------------------------------------------------------------------
(* Properties *)

\* However an address is written and narrowed, the bytes its variable reads
\* and writes are bytes of the memory.
FieldsInside ==
  \A n \in DOMAIN addresses :
    CanSync(declared[n].type) => FieldBytes(declared[n].type, addresses[n]) \subseteq DOMAIN memory

\* What was last written or counted to a variable is what its value and its
\* bytes say, until a variable that shares bits with it is written or the
\* program is started again.  Only of an integer whose uninitialised flags say
\* that it is a temporary must the number be one its address can keep.
KnownValuesKept ==
  phase = "running" =>
    \A n \in Names : \A k \in known[n] : Checked(n) =>
      /\ Meaning(n, values[n].v) = k
      /\ Meaning(n, ValueAt(n, memory).v) = k

\* An address in an expression agrees with a variable that is declared there:
\* the bit is set when the BOOL is TRUE, a byte is the number, a larger field
\* its first byte.  A bit that equals TRUE or FALSE is that (the converse
\* only holds for the first bit of a byte).
TermsAgree ==
  phase = "running" =>
    \A n \in Names, d \in Terms : \A a \in NewAddress(d) :
      Checked(n) /\ Storage(a) = Storage(addresses[n]) =>
        /\ IsBool(declared[n].type) /\ a.unit = "X" /\ Bit(a) = Bit(addresses[n]) =>
             /\ (TermValue(a) # 0) = (ValueAt(n, memory).v # 0)
             /\ \A b \in BOOLEAN : TermEquals(a, BoolLiteral(b)) => b = (ValueAt(n, memory).v # 0)
        /\ ~IsBool(declared[n].type) /\ a.unit # "X" =>
             TermValue(a) = ValueAt(n, memory).v % TwoTo[ByteBits]

\* The bits of n: that of a BOOL, the bytes of an integer's field.
OwnBit(n, i, b) ==
  IF IsBool(declared[n].type) THEN i = Storage(addresses[n]) /\ b = Bit(addresses[n])
  ELSE i \in FieldBytes(declared[n].type, addresses[n])
OnlyOwnBitsChange(n) ==
  \A i \in DOMAIN memory, b \in 0..(ByteBits - 1) :
    BitSet(memory'[i], b) # BitSet(memory[i], b) => OwnBit(n, i, b)

\* A statement that writes a BOOL changes no other bit of its byte, one that
\* writes an integer no byte around its field, also when the statement fails.
Writes(n) ==
  \/ \E value \in Literals : VariableAssign(n, value)
  \/ \E m \in Names \ {n} : Copy(n, m)
  \/ \E increment \in Increments : VariablePlus(n, increment)
OtherBitsKept == [][\A n \in Names : OnlyOwnBitsChange(n) \/ ~Writes(n)]_memory
=============================================================================
