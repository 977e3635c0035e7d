------------------------------- MODULE Arrays -------------------------------
(***************************************************************************)
(* Arrays and structs (elements/array.c, elements/struct.c): the types,    *)
(* the initialisers, and how an index list or a member name selects a      *)
(* value inside another.                                                   *)
(*                                                                         *)
(* A value is found by its path: the names and the offsets that lead to it *)
(* from the variables, as a sequence of strings.  The cells are the paths  *)
(* that end at an integer.  The variables themselves are the members of    *)
(* one struct, the pool of the global variables, which gives every name    *)
(* the same lookup.  Integer types stand for all elementary ones; the      *)
(* range of one is as small as the instance wants it.  Initialisers are on *)
(* variables that are arrays of integers.                                  *)
(***************************************************************************)
EXTENDS Integers, Sequences, FiniteSets, TLC
LOCAL INSTANCE SequencesExt
LOCAL INSTANCE FiniteSetsExt

CONSTANT Depth   \* the deepest nesting of types followed below a variable

-----------------------------------------------------------------------------
(* Types *)

IntegerType(lo, hi, default) ==
    [kind |-> "integer", lo |-> lo, hi |-> hi, default |-> default]

ArrayType(ranges, of, items) ==
    [kind |-> "array", ranges |-> ranges, of |-> of, initializer |-> items]

StructType(members) == [kind |-> "struct", members |-> members]

Entries(range) == range.max - range.min + 1
TotalElements(t) == FoldLeft(LAMBDA n, r : n * Entries(r), 1, t.ranges)

TypeBelow(t, step) == IF t.kind = "array" THEN t.of ELSE t.members[step]
TypeAt(root, path) == FoldLeft(TypeBelow, root, path)

Element(path, offset) == Append(path, ToString(offset))

StepsBelow(t) ==
    CASE t.kind = "struct" -> DOMAIN t.members
      [] t.kind = "array"  -> {ToString(k) : k \in 0 .. TotalElements(t) - 1}
      [] OTHER             -> {}

\* Every path below a struct of variables with its type.
Layout(root) ==
    LET level[n \in 0 .. Depth] ==
            IF n = 0 THEN {<<>>}
            ELSE UNION {{Append(p, s) : s \in StepsBelow(TypeAt(root, p))} : p \in level[n - 1]}
    IN  [p \in UNION {level[n] : n \in 0 .. Depth} |-> TypeAt(root, p)]

-----------------------------------------------------------------------------
(* Selecting a value; a selection is the set of the path found, empty when *)
(* the code reports an error and gives NULL.                               *)

SubVariable(layout, path, name) ==
    {p \in {Append(path, name)} : layout[path].kind = "struct" /\ p \in DOMAIN layout}

InRange(range, v) == range.min <= v /\ v <= range.max

IndexFits(ranges, values) ==
    /\ Len(values) = Len(ranges)
    /\ \A d \in DOMAIN values : InRange(ranges[d], values[d])

\* Mutant: the offset is taken in column order.
ColumnOffset(ranges, values) ==
    FoldRight(LAMBDA d, offset : offset * Entries(ranges[d]) + values[d] - ranges[d].min,
              [d \in DOMAIN values |-> d], 0)

\* The last index varies fastest: the code multiplies each index by the
\* entries of all the later ranges.
Offset(ranges, values) ==
    FoldLeft(LAMBDA offset, d : offset * Entries(ranges[d]) + values[d] - ranges[d].min,
             0, [d \in DOMAIN values |-> d])

IndexOf(t, path, values) ==
    {Element(path, Offset(r, values)) : r \in
        {u \in IF t.kind = "array" THEN {t.ranges} ELSE {} : IndexFits(u, values)}}

IndexValue(layout, path, values) == IndexOf(layout[path], path, values)

CanHold(t, v) == t.kind = "integer" /\ t.lo <= v /\ v <= t.hi

-----------------------------------------------------------------------------
(* Initialisers: a sequence of literals and of lists of the same.  A       *)
(* literal with a multiplier, 3(5), keeps the multiplier in place of the   *)
(* value and drops the value (array_init_extend_by_multiplied_value).      *)

Literal(v) == [list |-> FALSE, value |-> v, items |-> <<>>]
Times(n, v) == Literal(n)
List(items) == [list |-> TRUE, value |-> 0, items |-> items]

Unfolded(items) ==
    FlattenSeq([k \in DOMAIN items |-> IF items[k].list THEN items[k].items ELSE <<items[k]>>])

\* The literals in the order assign_array_initializer meets them.
Flat(t) == FoldLeft(LAMBDA items, r : Unfolded(items), t.initializer, t.ranges)

\* What check_array_initializer lets pass.  It asks can_hold for ESSTEE_OK,
\* which can_hold never answers, so it ends, silently, at the first literal:
\* only that literal and the levels that lead to it are ever looked at.
PassesCheck(t) ==
    LET first[d \in DOMAIN t.ranges] ==
            IF d = 1 THEN Head(t.initializer) ELSE Head(first[d - 1].items)
    IN  /\ \A d \in DOMAIN t.ranges : first[d].list = (d < Len(t.ranges))
        /\ CanHold(t.of, first[Len(t.ranges)].value)

\* How many elements are assigned before the first literal that cannot be
\* held or the end of either sequence.
Assigned(t, given) ==
    Max({k \in 0 .. Min({Len(given), TotalElements(t)}) :
            \A i \in 1 .. k : CanHold(t.of, given[i].value)})

HasInitializer(t) == t.kind = "array" /\ t.initializer # <<>>

\* reset_value_of of an array that has an initialiser: complete, one element
\* too many (the assignment goes on behind the last element), or refused.
\* Gives the outcome and the elements that have been assigned.
Initialised(t, given, n) ==
    [elements |-> [s \in {ToString(k - 1) : k \in 1 .. n} |->
                      given[CHOOSE k \in 1 .. n : ToString(k - 1) = s].value],
     result   |-> IF n < TotalElements(t) THEN "error"
                  ELSE IF Len(given) > TotalElements(t) THEN "crash" ELSE "ok"]

Initialisation(t) == Initialised(t, Flat(t), Assigned(t, Flat(t)))
=============================================================================
