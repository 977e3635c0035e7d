------------------------------ MODULE Values ------------------------------
(***************************************************************************)
(* Types and values (elements/itype.h, ivalue.h).                          *)
(*                                                                         *)
(* A value of the program is a C structure of function pointers; which of  *)
(* them are NULL depends on the function that created the value, and the   *)
(* rest of the interpreter calls most of them without looking.  A value is *)
(* a record here: the family k that its constructor belongs to, the type,  *)
(* what type_of does ("null": the pointer is NULL; "none": it is there and *)
(* returns NULL; "set": it returns the type), the two flags of its class   *)
(* and its data v.  Methods(k) is the set of pointers that are not NULL.   *)
(* A check returns "yes", "no" or "crash": "crash" is the call of a NULL   *)
(* pointer, the read through one, or a trap of the processor.              *)
(*                                                                         *)
(* Data: an integer is an integer of ByteBits * 8 bits (64 in the code), a *)
(* real an integer (its digits are not distinguished), a string its        *)
(* length, an enumerated value its name.  Date and time values are in      *)
(* DateTime, arrays and structures in Arrays.                              *)
(***************************************************************************)
EXTENDS Integers, Sequences, FiniteSets

CONSTANT
  \* Bits per byte of the model: 8 in the code, less in the runs.
  ByteBits

ASSUME ByteBitsAssumption == ByteBits \in Nat \ {0}

\* The powers of two.
TwoTo[n \in Nat] == IF n = 0 THEN 1 ELSE 2 * TwoTo[n - 1]

Word == TwoTo[8 * ByteBits]

\* The value a 64 bit signed integer has after an operation that may
\* overflow: the builds wrap around.
Wrap(n) == ((n + Word \div 2) % Word) - Word \div 2

----------------------------------------------------------------------------
(* Types *)

NoType == [k |-> "none", id |-> "none"]

\* The size in bytes of the elementary integer types, by group.
SignedBytes == [id \in {"SINT", "INT", "DINT", "LINT"} |->
                  CASE id = "SINT" -> 1 [] id = "INT" -> 2
                    [] id = "DINT" -> 4 [] id = "LINT" -> 8]
UnsignedBytes == [id \in {"USINT", "UINT", "UDINT", "ULINT"} |->
                  CASE id = "USINT" -> 1 [] id = "UINT" -> 2
                    [] id = "UDINT" -> 4 [] id = "ULINT" -> 8]
BitBytes == [id \in {"BYTE", "WORD", "DWORD", "LWORD"} |->
                  CASE id = "BYTE" -> 1 [] id = "WORD" -> 2
                    [] id = "DWORD" -> 4 [] id = "LWORD" -> 8]
SignedIds == DOMAIN SignedBytes
UnsignedIds == DOMAIN UnsignedBytes
BitIds == DOMAIN BitBytes
IntegerIds == SignedIds \union UnsignedIds \union BitIds

Bits(id) == ByteBits * (IF id \in SignedIds THEN SignedBytes[id]
                        ELSE IF id \in UnsignedIds THEN UnsignedBytes[id]
                        ELSE BitBytes[id])

\* min and max of the templates: the signed types are symmetric, LINT and
\* ULINT one short of the word, and the maximum of LWORD is all ones, which
\* as a signed integer is -1.
TypeMax(id) ==
  CASE id \in {"LINT", "ULINT"} -> Word \div 2 - 2
    [] id = "LWORD" -> -1
    [] id \in SignedIds \ {"LINT"} -> TwoTo[Bits(id) - 1] - 1
    [] OTHER -> TwoTo[Bits(id)] - 1
TypeMin(id) == IF id \in SignedIds THEN -TypeMax(id) ELSE 0

IntegerType(id) == [k |-> "integer", id |-> id]
BoolType == [k |-> "bool", id |-> "BOOL"]
RealType(id) == [k |-> "real", id |-> id]
\* The elementary string types have no length limit: length 0.
StringType(id) == [k |-> "string", id |-> id, length |-> 0]
EnumType(items) == [k |-> "enum", id |-> "ENUM", items |-> items]
SubrangeType(of, min, max) ==
  [k |-> "subrange", id |-> of.id, of |-> of, min |-> min, max |-> max]
DerivedType(ancestor) == [k |-> "derived", id |-> ancestor.id, ancestor |-> ancestor]

\* A STRING[n] is accepted for a positive n only.
CustomStrings(id, n) ==
  IF n > 0 THEN {[k |-> "string", id |-> id, length |-> n]} ELSE {}

\* A subrange needs integer bounds in order.
Subranges(of, min, max) == IF min > max THEN {} ELSE {SubrangeType(of, min, max)}

Ancestor(t) == IF t.k = "derived" THEN t.ancestor ELSE t

\* The class of a type without the DERIVED and SUBRANGE flags: each
\* elementary type has a flag of its own.
BaseClass(t) == Ancestor(t).id

----------------------------------------------------------------------------
(* Values *)

Common == {"display", "assign", "type_of", "assignable_from", "comparable_to", "class"}

IntegerMethods ==
  Common \union {"operates_with", "create_temp_from", "override_type", "greater",
    "lesser", "equals", "negate", "plus", "minus", "multiply", "divide",
    "modulus", "to_power", "integer"}
BoolMethods ==
  Common \union {"operates_with", "create_temp_from", "override_type", "equals",
    "not", "xor", "and", "or", "bool"}
RealMethods ==
  Common \union {"operates_with", "create_temp_from", "override_type", "greater",
    "lesser", "equals", "negate", "plus", "minus", "multiply", "divide",
    "to_power", "real"}
StringMethods == Common \union {"equals", "override_type", "string"}
LiteralStringMethods == {"display", "comparable_to", "type_of", "equals", "string"}
EnumMethods == Common \union {"equals", "override_type", "enumeration"}
\* A name that is no variable is taken for an enumerated value.
InlineEnumMethods == {"comparable_to", "equals", "enumeration"}
SubrangeMethods ==
  Common \union {"operates_with", "override_type", "create_temp_from", "integer",
    "greater", "lesser", "equals"}
\* The a..b of a case label.
CaseRangeMethods == {"comparable_to", "equals"}

Methods(v) ==
  LET Typed(all) == IF v.typeOf = "null" THEN all \ {"type_of"} ELSE all
  IN Typed(CASE v.k = "integer" -> IntegerMethods
             [] v.k = "bool" -> BoolMethods
             [] v.k = "real" -> RealMethods
             [] v.k = "string" -> StringMethods
             [] v.k = "literal_string" -> LiteralStringMethods
             [] v.k = "enum" -> EnumMethods
             [] v.k = "inline_enum" -> InlineEnumMethods
             [] v.k = "subrange" -> SubrangeMethods
             [] v.k = "case_range" -> CaseRangeMethods)

Has(v, m) == m \in Methods(v)

\* create_value_of: integer, boolean and real values do not initialise the
\* flags of their class, which hold what the memory held before.
FamilyOf(t) == Ancestor(t).k
ClassUninitialised(t) == FamilyOf(t) \in {"integer", "bool", "real"}

CreateValue(t, garbage, v) ==
  [k |-> FamilyOf(t), t |-> t, typeOf |-> "set",
   temp |-> ClassUninitialised(t) /\ "temp" \in garbage,
   const |-> ClassUninitialised(t) /\ "const" \in garbage, v |-> v]

IntegerLiteral(n) ==
  [k |-> "integer", t |-> NoType, typeOf |-> "null", temp |-> FALSE, const |-> TRUE, v |-> n]
BoolLiteral(b) ==
  [k |-> "bool", t |-> NoType, typeOf |-> "null", temp |-> FALSE, const |-> TRUE,
   v |-> IF b THEN 1 ELSE 0]
RealLiteral(n) ==
  [k |-> "real", t |-> NoType, typeOf |-> "null", temp |-> FALSE, const |-> TRUE, v |-> n]
StringLiteral(id, n) ==
  [k |-> "literal_string", t |-> StringType(id), typeOf |-> "set", temp |-> FALSE,
   const |-> FALSE, v |-> n]
InlineEnum(name) ==
  [k |-> "inline_enum", t |-> NoType, typeOf |-> "null", temp |-> FALSE,
   const |-> FALSE, v |-> name]
CaseRange(min, max) ==
  [k |-> "case_range", t |-> NoType, typeOf |-> "null", temp |-> FALSE,
   const |-> FALSE, v |-> <<min, max>>]

\* The boolean a comparison keeps its result in.
BoolTemporary ==
  [k |-> "bool", t |-> NoType, typeOf |-> "null", temp |-> TRUE, const |-> FALSE, v |-> 0]

\* create_temp_from: the temporary of a subrange is one of its base type; an
\* integer or boolean temporary keeps the type_of function and loses the
\* type, a real one loses both; the other flags are inherited.
TemporaryFrom(v) ==
  [k |-> IF v.k = "subrange" THEN "integer" ELSE v.k, t |-> NoType,
   typeOf |-> IF v.k = "real" THEN "null"
              ELSE IF v.typeOf = "set" THEN "none" ELSE v.typeOf,
   temp |-> TRUE, const |-> v.const, v |-> 0]

\* override_type: a typed literal (INT#5) carries its type.
OverrideType(v, t) == [v EXCEPT !.t = t, !.typeOf = "set"]
=============================================================================
