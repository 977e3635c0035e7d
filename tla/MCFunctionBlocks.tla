-------------------------- MODULE MCFunctionBlocks --------------------------
(* Three function blocks with up to two variables each, in every way they   *)
(* can use each other.                                                      *)
EXTENDS FunctionBlocks

CONSTANTS A, B, C

MCBlocks == {A, B, C}
MCOrder == <<A, B, C>>
Lists == BoundedSeq(MCBlocks \union {Plain}, 2)
MCHeaders == [MCBlocks -> Lists]
MCGlobals == {<< >>, <<B>>}
MCPrograms == <<A, C>>
=============================================================================
