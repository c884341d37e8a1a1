------------------------------ MODULE MCReview ------------------------------
(***************************************************************************)
(* The fences that the files of a review hold before and after a change.   *)
(***************************************************************************)
EXTENDS Review

MCFences ==
  {[kind |-> "test", name |-> "t", rule |-> "r", reason |-> "w"],
   [kind |-> "test", name |-> "t", rule |-> "s", reason |-> "v"],
   [kind |-> "threshold", name |-> "l", rule |-> "r", reason |-> "w"],
   [kind |-> "threshold", name |-> "l", rule |-> "s", reason |-> "none"],
   [kind |-> "assert", name |-> "", rule |-> "r", reason |-> "w"],
   [kind |-> "assert", name |-> "", rule |-> "s", reason |-> "v"],
   [kind |-> "raise", name |-> "e", rule |-> "r", reason |-> "w"],
   [kind |-> "raise", name |-> "e", rule |-> "s", reason |-> "none"]}
=============================================================================
