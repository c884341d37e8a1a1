--------------------------- MODULE CoalescedCalls ---------------------------
(***************************************************************************)
(* What HeavyWorkCoordinator.run promises its callers, without queue,      *)
(* priorities, condition variable or deadlines: overlapping calls with the *)
(* same key share one computation.  The computation of a key has members;  *)
(* it starts at most once, and when it completes every thread that is a    *)
(* member at that moment gets the same outcome.  A member other than the   *)
(* one that computes may leave before.  Nothing is kept once the outcome   *)
(* has been handed out, so a later call computes again.                    *)
(***************************************************************************)
EXTENDS Naturals, FiniteSets

CONSTANTS Threads, Keys, Outcomes, Limit  \* Limit: members of one computation

VARIABLES stage,    \* of each key: "none", "open" or "computing"
          members,  \* of each key: the threads that wait for its computation
          answer    \* of each thread: an outcome not yet taken, or "none"

cvars == <<stage, members, answer>>

Init ==
  /\ stage = [k \in Keys |-> "none"]
  /\ members = [k \in Keys |-> {}]
  /\ answer = [t \in Threads |-> "none"]

Idle(t) == answer[t] = "none" /\ \A k \in Keys : t \notin members[k]

Open(t, k) ==
  /\ Idle(t) /\ stage[k] = "none"
  /\ stage' = [stage EXCEPT ![k] = "open"]
  /\ members' = [members EXCEPT ![k] = {t}]
  /\ UNCHANGED answer

Join(t, k) ==
  /\ Idle(t) /\ stage[k] # "none"
  /\ Cardinality(members[k]) < Limit
  /\ members' = [members EXCEPT ![k] = @ \cup {t}]
  /\ UNCHANGED <<stage, answer>>

\* A member gives up; the last one cannot, it closes the computation instead.
Leave(t, k) ==
  /\ t \in members[k] /\ members[k] # {t}
  /\ members' = [members EXCEPT ![k] = @ \ {t}]
  /\ UNCHANGED <<stage, answer>>

Start(k) ==
  /\ stage[k] = "open"
  /\ stage' = [stage EXCEPT ![k] = "computing"]
  /\ UNCHANGED <<members, answer>>

\* Outcome o ends the computation of k in the hands of member t, which returns;
\* every other member has o to take.  One that never started can only fail.
Close(t, k, o) ==
  /\ t \in members[k]
  /\ stage[k] = "computing" \/ (stage[k] = "open" /\ o = "deadline")
  /\ stage' = [stage EXCEPT ![k] = "none"]
  /\ members' = [members EXCEPT ![k] = {}]
  /\ answer' = [u \in Threads |-> IF u \in members[k] \ {t} THEN o ELSE answer[u]]

Take(t) ==
  /\ answer[t] # "none"
  /\ answer' = [answer EXCEPT ![t] = "none"]
  /\ UNCHANGED <<stage, members>>

Next ==
  \/ \E t \in Threads, k \in Keys : Open(t, k) \/ Join(t, k) \/ Leave(t, k)
  \/ \E k \in Keys : Start(k)
  \/ \E t \in Threads, k \in Keys, o \in Outcomes : Close(t, k, o)
  \/ \E t \in Threads : Take(t)

Spec == Init /\ [][Next]_cvars
=============================================================================
