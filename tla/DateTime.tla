----------------------------- MODULE DateTime -----------------------------
(***************************************************************************)
(* The values of TIME, DATE, TIME_OF_DAY and DATE_AND_TIME                 *)
(* (elements/date_time.c).                                                 *)
(*                                                                         *)
(* A duration keeps the numbers of its parts as they were written: 90      *)
(* minutes are not one hour and a half.  Its numbers are doubles, here the *)
(* fractions of one that Literals counts them in.  A value of these types  *)
(* can be assigned and compared with values of its own kind, and nothing   *)
(* else: it has no operates_with, create_temp_from or override_type.  Each comparison goes through the parts from the      *)
(* largest to the smallest and answers at the first one that differs in    *)
(* the direction asked for, whatever the parts before it say; equals is    *)
(* neither greater nor lesser (st_general_value_equals).                   *)
(***************************************************************************)
EXTENDS Integers

Units == <<"d", "h", "m", "s", "ms">>
UnitSet == {Units[i] : i \in DOMAIN Units}

\* The defaults a variable is reset to when the program starts.
DurationDefault == [u \in UnitSet |-> 0]
DateDefault == [y |-> 1, mon |-> 1, day |-> 1]
TodDefault == [h |-> 0, m |-> 0, s |-> 0, fs |-> 0]
DateTodDefault == [date |-> DateDefault, tod |-> TodDefault]

\* Mutant: the loop over the parts stops before the milliseconds.
CoarseDurationGreater(a, b) == \E u \in UnitSet \ {"ms"} : a[u] > b[u]
DurationGreater(a, b) == \E u \in UnitSet : a[u] > b[u]
DurationLesser(a, b) == \E u \in UnitSet : a[u] < b[u]

DateGreater(a, b) == \E f \in {"y", "mon", "day"} : a[f] > b[f]
DateLesser(a, b) == \E f \in {"y", "mon", "day"} : a[f] < b[f]

TodGreater(a, b) == \E f \in {"h", "m", "s", "fs"} : a[f] > b[f]
TodLesser(a, b) == \E f \in {"h", "m", "s", "fs"} : a[f] < b[f]

DateTodGreater(a, b) == DateGreater(a.date, b.date) \/ TodGreater(a.tod, b.tod)
DateTodLesser(a, b) == DateLesser(a.date, b.date) \/ TodLesser(a.tod, b.tod)

\* The types, by what their values are compared with.
Kinds == {"TIME", "DATE", "TIME_OF_DAY", "DATE_AND_TIME"}

Default(kind) ==
  CASE kind = "TIME" -> DurationDefault
    [] kind = "DATE" -> DateDefault
    [] kind = "TIME_OF_DAY" -> TodDefault
    [] kind = "DATE_AND_TIME" -> DateTodDefault
Greater(kind, a, b) ==
  CASE kind = "TIME" -> DurationGreater(a, b)
    [] kind = "DATE" -> DateGreater(a, b)
    [] kind = "TIME_OF_DAY" -> TodGreater(a, b)
    [] kind = "DATE_AND_TIME" -> DateTodGreater(a, b)
Lesser(kind, a, b) ==
  CASE kind = "TIME" -> DurationLesser(a, b)
    [] kind = "DATE" -> DateLesser(a, b)
    [] kind = "TIME_OF_DAY" -> TodLesser(a, b)
    [] kind = "DATE_AND_TIME" -> DateTodLesser(a, b)
Equals(kind, a, b) == ~Greater(kind, a, b) /\ ~Lesser(kind, a, b)
=============================================================================
