------------------------ MODULE MCDryPatchClustering ------------------------
(* A grid of 6 by 3, where three patches fit side by side, with few dry     *)
(* cells or nothing but dry cells (there the stack test stops the program). *)
EXTENDS DryPatchClustering

CONSTANT MaxDry

FewOrAllDry == {S \in SUBSET Cells : Cardinality(S) <= MaxDry \/ S = Cells}
=============================================================================
