------------------------------ MODULE MCHistory ------------------------------
(***************************************************************************)
(* A history for the co-change counts.                                     *)
(***************************************************************************)
EXTENDS CoChange

\* Two commits in a line, a branch off the first, and a merge of the two; a
\* reading lists two commits.
MCAncestors == [c1 |-> {"c1"}, c2 |-> {"c1", "c2"}, d2 |-> {"c1", "d2"},
                m3 |-> {"c1", "c2", "d2", "m3"}]
MCNewer(c, d) == <<c, d>> \in {<<"c2", "c1">>, <<"d2", "c1">>, <<"c2", "d2">>}
MCFilesOf == [c1 |-> {"f", "g"}, c2 |-> {"f", "g", "h"}, d2 |-> {"f", "h"}, m3 |-> {}]
MCBetter(g, h) == <<g, h>> \in {<<"f", "g">>, <<"f", "h">>, <<"g", "h">>}
==============================================================================
