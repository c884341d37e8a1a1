--------------------------- MODULE MCPriorityGate ---------------------------
(* Small instances of PriorityGate for TLC.                                *)
EXTENDS PriorityGate, TLC

CONSTANTS t1, t2, t3

MCThreads == {t1, t2, t3}
MCDeadlines == {NoDeadline, 1}
MCSymmetry == Permutations(MCThreads)
=============================================================================
