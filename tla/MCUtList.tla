----------------------------- MODULE MCUtList ------------------------------
(***************************************************************************)
(* UtList on three elements, the least that leaves one strictly inside a   *)
(* list, from every content the uninitialised link fields can have.        *)
(***************************************************************************)
EXTENDS UtList, TLC

CONSTANTS a, b, c

Symmetry == Permutations(Element)
=============================================================================
