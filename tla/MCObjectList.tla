---------------------------- MODULE MCObjectList ----------------------------
(* Small instances of ObjectList for TLC: the objects are model values.    *)
EXTENDS ObjectList, TLC

MCIds == 0 .. 2
Symmetry == Permutations(Objects)
=============================================================================
