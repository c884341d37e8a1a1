--------------------------- MODULE MCDaemonRequests ---------------------------
(***************************************************************************)
(* Two requests and the recovery one of them may leave behind.  For the    *)
(* liveness property, which takes far longer to check, the second edit     *)
(* comes only as long as one of the requests has not been sent.            *)
(***************************************************************************)
EXTENDS DaemonRequests

CONSTANTS r1, r2

MCAsks == [r \in Requests |-> IF r = r1 THEN {"interactive"}
                                        ELSE {"query", "reindex", "health"}]

FewEdits == disk' < 2 \/ \E r \in Requests : conn'[r] = "new"
MCSpec == Init /\ [][Next /\ FewEdits]_vars /\ Fairness
=============================================================================
