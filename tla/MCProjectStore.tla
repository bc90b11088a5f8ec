--------------------------- MODULE MCProjectStore ---------------------------
(* Instances of ProjectStore for TLC.                                       *)
EXTENDS ProjectStore, TLC

Symmetry == Permutations(Projects) \cup Permutations(Contents)
=============================================================================
