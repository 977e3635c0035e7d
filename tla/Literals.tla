----------------------------- MODULE Literals -----------------------------
(***************************************************************************)
(* The literals of a query (parser/pliterals.c): an embedder sends queries *)
(* that assign a literal to one of two variables of the same type, and     *)
(* compares the variables.                                                 *)
(*                                                                         *)
(* A duration literal is read part by part into a structure on the stack   *)
(* that nothing initialises: what is not written is what the memory held.  *)
(* The others are read as a whole.  The text of a literal is the sequence  *)
(* of numbers the lexer found in it; turning digits into a number, or      *)
(* finding that a double cannot hold it, is the C library's work.          *)
(***************************************************************************)
EXTENDS DateTime, TypeChecks

CONSTANTS
  \* The texts of the literals, by the type of the variables.
  DurationTexts, DateTexts, TodTexts, IntegerTexts,
  \* What a word of the stack may hold.
  Memory,
  \* The significant bits of a float, and how often the largest one of so many
  \* bits can be doubled: 24 and 104.
  FloatBits, FloatExponent

ASSUME FloatAssumption == FloatBits \in Nat /\ FloatExponent \in Nat

VARIABLES
  kind,      \* the type of the two variables
  held,      \* what the variables x and y hold
  reading,   \* the duration literal that is read: its variable, text, what is left of the text
  duration,  \* the locals of st_new_duration_literal
  defined, fractions, count,
  outcome    \* of the last query

vars == <<kind, held, reading, duration, defined, fractions, count, outcome>>

\* The numbers of a duration are counted in fractions of one so small that some
\* are below the 1e-4 that is_fraction allows, and none is exactly that.
Scale == 25000

\* What the lexer finds in a text: one part at least, and a number may be any.
\* A part is the unit, the number, whether a double can hold it, and whether
\* the S of MS is a capital letter.
Part == [unit : UnitSet, number : Nat, fits : BOOLEAN, capital : BOOLEAN]
Dates == [{"y", "mon", "day"} -> Int]
Tods == [{"h", "m", "s", "fs"} -> Int]

ASSUME TextsAssumption ==
  /\ DurationTexts \subseteq Seq(Part) \ {<<>>} /\ Memory \subseteq Int
  /\ DateTexts \subseteq Dates /\ TodTexts \subseteq Tods
  /\ \A text \in IntegerTexts : text.magnitude \in Nat /\ text.sign \in {1, -1}

Targets == {"x", "y"}
Nothing == [to |-> "none", text |-> <<>>, left |-> <<>>]
IntegerKind == IntegerType("SINT")
InitialValue(k) == IF k = "SINT" THEN CreateValue(IntegerKind, {}, 0) ELSE Default(k)

Init ==
  /\ kind \in Kinds \union {"SINT"}
  /\ held = [t \in Targets |-> InitialValue(kind)]
  /\ reading = Nothing /\ duration = DurationDefault
  /\ defined = {} /\ fractions = {} /\ count = 0
  /\ outcome = "none"

Idle == reading = Nothing
locals == <<duration, defined, fractions, count>>

\* The query has been read, its value is assigned or an issue was reported.
Accepted(to, value) ==
  /\ held' = [held EXCEPT ![to] = value] /\ outcome' = "accepted"
Rejected == outcome' = "rejected" /\ UNCHANGED held

\* The locals go out of scope.
Forgotten ==
  duration' = DurationDefault /\ defined' = {} /\ fractions' = {} /\ count' = 0

----------------------------------------------------------------------------
(* Durations: a text is a sequence of parts *)

BeginDuration ==
  /\ Idle /\ kind = "TIME"
  /\ \E t \in Targets, text \in DurationTexts :
       reading' = [to |-> t, text |-> text, left |-> text]
  /\ \E word \in Memory : duration' = [u \in UnitSet |-> word]
  /\ defined' = {} /\ fractions' = {} /\ count' = 0 /\ outcome' = "reading"
  /\ UNCHANGED <<kind, held>>

\* The whole numbers a float can hold.
InFloat(n) ==
  \E k \in 0..FloatExponent : n % TwoTo[k] = 0 /\ n < TwoTo[FloatBits + k]

\* A number is compared with what is left of it when it is cut to a float and
\* that is rounded to a whole number: that is the nearest one, unless it is not
\* one of the float's; then it is off by one at least.
IsFraction(number) ==
  LET nearest == (number + Scale \div 2) \div Scale
  IN 10000 * AbsOf(number - nearest * Scale) >= Scale \/ ~InFloat(nearest)

\* A number strtod cannot represent is an error.  M is followed by a small s in
\* milliseconds; before a capital one it is taken for minutes, and the S that is
\* left cannot be read.
Unreadable(part) == ~part.fits \/ (part.unit = "ms" /\ part.capital)

\* Mutant: a part that was written before is not written again.
FirstPart ==
  /\ reading.left # <<>> /\ ~Unreadable(reading.left[1])
  /\ LET part == reading.left[1]
     IN /\ duration' = IF part.unit \in defined THEN duration
                       ELSE [duration EXCEPT ![part.unit] = part.number]
        /\ defined' = defined \union {part.unit}
        /\ fractions' = fractions \union (IF IsFraction(part.number) THEN {part.unit} ELSE {})
  /\ count' = count + 1
  /\ reading' = [reading EXCEPT !.left = Tail(@)]
  /\ UNCHANGED <<kind, held, outcome>>
DurationPart ==
  /\ reading.left # <<>> /\ ~Unreadable(reading.left[1])
  /\ LET part == reading.left[1]
     IN /\ duration' = [duration EXCEPT ![part.unit] = part.number]
        /\ defined' = defined \union {part.unit}
        /\ fractions' = fractions \union (IF IsFraction(part.number) THEN {part.unit} ELSE {})
  /\ count' = count + 1
  /\ reading' = [reading EXCEPT !.left = Tail(@)]
  /\ UNCHANGED <<kind, held, outcome>>

DurationUnreadable ==
  /\ reading.left # <<>> /\ Unreadable(reading.left[1])
  /\ reading' = Nothing /\ Rejected /\ Forgotten
  /\ UNCHANGED kind

\* A set of units as the bits of a number, days first.
AsBits(units) ==
  LET bit(unit, weight) == IF unit \in units THEN weight ELSE 0
  IN bit("d", 1) + bit("h", 2) + bit("m", 4) + bit("s", 8) + bit("ms", 16)

\* Mutant: a duration of one part with a fraction is refused too.
AnyFractions ==
  AsBits(fractions) > AsBits(defined) \/ (count > 0 /\ AsBits(fractions) = AsBits(defined))
\* What the code takes for a fraction in another part than the last.
TooManyFractions ==
  AsBits(fractions) > AsBits(defined) \/ (count > 1 /\ AsBits(fractions) = AsBits(defined))

EndDuration ==
  /\ reading # Nothing /\ reading.left = <<>>
  /\ IF defined = {} \/ TooManyFractions THEN Rejected ELSE Accepted(reading.to, duration)
  /\ reading' = Nothing /\ Forgotten
  /\ UNCHANGED kind

----------------------------------------------------------------------------
(* Dates, times of day and integers *)

ValidDate(d) == d.mon \in 1..12 /\ d.day \in 1..31
ValidTod(t) == t.h <= 23 /\ t.m <= 59 /\ t.s <= 59 /\ t.fs <= 99

\* The two variables are assigned independently of each other.
Query(text, valid) ==
  \E t \in Targets : IF valid THEN Accepted(t, text) ELSE Rejected

ReadDate ==
  /\ Idle /\ kind = "DATE"
  /\ \E text \in DateTexts : Query(text, ValidDate(text))
  /\ UNCHANGED <<kind, reading, locals>>

ReadTod ==
  /\ Idle /\ kind = "TIME_OF_DAY"
  /\ \E text \in TodTexts : Query(text, ValidTod(text))
  /\ UNCHANGED <<kind, reading, locals>>

ReadDateTod ==
  /\ Idle /\ kind = "DATE_AND_TIME"
  /\ \E date \in DateTexts, tod \in TodTexts :
       Query([date |-> date, tod |-> tod], ValidDate(date) /\ ValidTod(tod))
  /\ UNCHANGED <<kind, reading, locals>>

\* The number is read without its sign and has to fit the word: the smallest
\* word cannot be written.
Readable(text) == text.magnitude < Word \div 2
WrittenInteger(text) == IntegerLiteral(Wrap(text.sign * text.magnitude))

\* A typed literal is checked and given its type when it is linked.
Explicit(type, literal) ==
  IF type = NoType THEN literal ELSE OverrideType(literal, type)
Holds(type, literal) == type = NoType \/ CanHold(type, literal) = "yes"

ReadInteger ==
  /\ Idle /\ kind = "SINT"
  /\ \E t \in Targets, text \in IntegerTexts :
       LET literal == Explicit(text.type, WrittenInteger(text))
       IN IF /\ Readable(text) /\ Holds(text.type, WrittenInteger(text))
             /\ AssignableFrom(held[t], literal) = "yes"
          THEN Accepted(t, Assign(held[t], literal).v)
          ELSE Rejected
  /\ UNCHANGED <<kind, reading, locals>>

\* st_start resets the variables to the defaults of their type.
Restart ==
  /\ Idle
  /\ held' = [t \in Targets |-> InitialValue(kind)] /\ outcome' = "none"
  /\ UNCHANGED <<kind, reading, locals>>

Next ==
  \/ BeginDuration \/ DurationPart \/ DurationUnreadable \/ EndDuration
  \/ ReadDate \/ ReadTod \/ ReadDateTod \/ ReadInteger \/ Restart

Spec == Init /\ [][Next]_vars

----------------------------------------------------------------------------
(* Properties *)

\* The variables hold calendar dates and times of a day, and integers of
\* their type, whatever was written.
WellFormed(value) ==
  CASE kind = "TIME" -> \A u \in UnitSet : value[u] \in Int
    [] kind = "DATE" -> ValidDate(value)
    [] kind = "TIME_OF_DAY" -> ValidTod(value)
    [] kind = "DATE_AND_TIME" -> ValidDate(value.date) /\ ValidTod(value.tod)
    [] kind = "SINT" -> value.t = IntegerKind /\ CanHold(IntegerKind, value) = "yes"
TypeOK ==
  /\ \A t \in Targets : WellFormed(held[t])
  /\ fractions \subseteq defined /\ defined \subseteq UnitSet
  /\ outcome \in {"none", "reading", "accepted", "rejected"}

\* The order of time, part by part from the largest.
Later(k, a, b) ==
  LET First(parts, x, y) ==
        \E i \in DOMAIN parts : x[parts[i]] > y[parts[i]] /\ \A j \in 1..i - 1 : x[parts[j]] = y[parts[j]]
      days == <<"y", "mon", "day">>
      hours == <<"h", "m", "s", "fs">>
  IN CASE k = "TIME" -> First(Units, a, b)
       [] k = "DATE" -> First(days, a, b)
       [] k = "TIME_OF_DAY" -> First(hours, a, b)
       [] k = "DATE_AND_TIME" ->
            First(days, a.date, b.date) \/ (a.date = b.date /\ First(hours, a.tod, b.tod))

\* What the comparisons can be relied on for although they look at each part
\* on its own: of two different values one is reported as greater, and always
\* the later one; what is greater one way is lesser the other way; and
\* equals means that all parts are the same.  Two values may well be greater
\* and lesser than each other.
ComparisonsConsistent ==
  kind \in Kinds =>
    \A s, t \in Targets :
      LET a == held[s]  b == held[t]
      IN /\ Equals(kind, a, b) <=> a = b
         /\ Greater(kind, a, b) <=> Lesser(kind, b, a)
         /\ Later(kind, a, b) => Greater(kind, a, b)

\* The parts of the text of a unit, by their place.
Written(text, unit) == {i \in DOMAIN text : text[i].unit = unit}

\* The place of the last part of a unit.
LastWritten(text, unit) ==
  {i \in Written(text, unit) : \A j \in Written(text, unit) : j <= i}

\* An accepted literal is stored as it was written: the last number of each
\* unit of a duration, an integer without wrapping around.
ReadAsWritten ==
  [][/\ (reading # Nothing /\ outcome' = "accepted") =>
           \A u \in UnitSet : \A i \in LastWritten(reading.text, u) :
             held'[reading.to][u] = reading.text[i].number
     /\ (ReadInteger /\ outcome' = "accepted") =>
           \E t \in Targets, text \in IntegerTexts : held'[t].v = text.sign * text.magnitude]_vars

\* A duration written as it should be: the units from large to small, each
\* once, in small letters, numbers a double can hold, a fraction only in the
\* last part.
ProperDuration(text) ==
  \A i \in DOMAIN text :
    /\ ~Unreadable(text[i])
    /\ i < Len(text) => text[i].number % Scale = 0
    /\ \A j \in 1..i - 1 :
         \E m, n \in DOMAIN Units : m < n /\ Units[m] = text[j].unit /\ Units[n] = text[i].unit
\* Several parts of which none before the last has a number a float can hold.
BeyondFloats(text) ==
  Len(text) > 1 /\ \A i \in 1..Len(text) - 1 : ~InFloat(text[i].number \div Scale)
\* A proper duration is refused only if every part but the last has a whole
\* number that a float cannot hold, which is_fraction then takes for a fraction.
ProperAccepted ==
  [][(reading # Nothing /\ outcome' = "rejected" /\ ProperDuration(reading.text))
        => BeyondFloats(reading.text)]_vars

\* What literals.tests expects of T#10s, "0.00d0.00h0.00m10.00s0.00ms": the
\* parts that are not written are zero.
UnwrittenZero ==
  [][(reading # Nothing /\ outcome' = "accepted") =>
       \A u \in UnitSet : Written(reading.text, u) = {} => held'[reading.to][u] = 0]_vars
=============================================================================
