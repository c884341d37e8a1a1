---------------------------- MODULE MCHeavyLane ----------------------------
(* Small instances of HeavyLane for TLC.                                   *)
EXTENDS HeavyLane, TLC

CONSTANTS t1, t2, t3, k1, k2

MCJobs == 1..Cardinality(Threads)
MCWithDeadlines == [thread : Threads, key : Keys, prio : {"batch", "interactive"},
                    budget : {NoDeadline, 1}]
MCSymmetry == Permutations(Threads) \cup Permutations(Keys)
=============================================================================
