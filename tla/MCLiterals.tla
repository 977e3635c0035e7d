---------------------------- MODULE MCLiterals ----------------------------
(***************************************************************************)
(* Durations of up to two parts of two units, dates and times at both      *)
(* sides of their limits, integers at the limits of SINT and of the word.  *)
(***************************************************************************)
EXTENDS Literals

PartOf(unit, number) == [unit |-> unit, number |-> number, fits |-> TRUE, capital |-> FALSE]
\* 1, 2.5, 2.00004, which is taken for a whole number, and 17, which needs one
\* bit more than a float of four has.
Numbers == {25000, 62500, 50001, 17 * 25000}
Parts ==
  {PartOf(u, n) : u \in {"m", "ms"}, n \in Numbers} \union
  {[PartOf("ms", 25000) EXCEPT !.capital = TRUE], [PartOf("m", 50000) EXCEPT !.fits = FALSE]}
MCDurationTexts == UNION {[1..n -> Parts] : n \in 1..2}
MCDateTexts == [y : {0, 2021}, mon : {0, 1, 12, 13}, day : {1, 31, 32}]
MCTodTexts ==
  [h : {0, 23, 24}, m : {0, 60}, s : {0}, fs : {99}] \union [h : {10}, m : {10}, s : {59, 60}, fs : {0}]
MCIntegerTexts ==
  [magnitude : {0, 1, 126, 127, 128, 129, 255, 256, 300}, sign : {1, -1},
   type : {NoType, IntegerType("SINT"), IntegerType("INT"), IntegerType("UINT"), IntegerType("LWORD")}]
MCMemory == {30}
=============================================================================
