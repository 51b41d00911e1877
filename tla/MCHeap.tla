------------------------------- MODULE MCHeap -------------------------------
(***************************************************************************)
(* Instances of the indexed heap: tasks are interchangeable, values are    *)
(* small numbers.                                                          *)
(***************************************************************************)
EXTENDS IndexedHeap, TLC

FewValues == 1 .. 3
Symmetry == Permutations(Elements)
===============================================================================
