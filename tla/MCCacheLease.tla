---------------------------- MODULE MCCacheLease ----------------------------
(* Small instances of CacheLease for TLC.                                  *)
EXTENDS CacheLease, TLC

MCSymmetry == Permutations(Users) \cup Permutations(Markers)
=============================================================================
