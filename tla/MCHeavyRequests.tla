--------------------------- MODULE MCHeavyRequests ---------------------------
(* Two calls with a deadline and one without, one project with both kinds.  *)
EXTENDS HeavyRequests, TLC

CONSTANTS t1, t2, w1, p1, k1, e1, e2

LanesAsked == [t \in {t1, t2, w1} |->
              {<<p1, "interactive">>} \cup IF t = w1 THEN {<<p1, "batch">>} ELSE {}]
OneOfEach == [interactive |-> 1, batch |-> 1]
=============================================================================
