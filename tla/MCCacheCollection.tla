-------------------------- MODULE MCCacheCollection --------------------------
(* Two projects, one user of either, a daemon and a collector.              *)
EXTENDS CacheCollection, TLC

CONSTANTS p1, p2, u1

Symmetric == Permutations({p1, p2})
=============================================================================
