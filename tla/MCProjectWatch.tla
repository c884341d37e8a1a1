--------------------------- MODULE MCProjectWatch ---------------------------
(* Small instances of ProjectWatch for TLC.                                *)
EXTENDS ProjectWatch, TLC

CONSTANTS p1, p2, w1, w2, w3

MCSymmetry == Permutations(Paths) \cup Permutations(Timers)
=============================================================================
