------------------------------- MODULE MCHeap -------------------------------
(***************************************************************************)
(* Small heaps for TLC.                                                    *)
(***************************************************************************)
EXTENDS Heap, TLC

CONSTANTS o1, o2, o3, r1, r2, r3

ThreeObjs == {o1, o2, o3}
TwoRoots == {r1, r2}
ThreeRoots == {r1, r2, r3}

Symmetric == Permutations(Objs) \cup Permutations(Roots)

=============================================================================
