-------------------------- MODULE MCDaemonProcesses --------------------------
(***************************************************************************)
(* The processes of one user: two clients and the daemons they start, one  *)
(* after the other; and the secret by which a client and a daemon of two   *)
(* threads know each other.  The two share no state, so each behaviour     *)
(* exercises one of them, its subject.                                     *)
(***************************************************************************)
EXTENDS DaemonProcesses, LocalAuth, TLC

CONSTANTS d1, d2, c1, c2, h1, h2
VARIABLE subject

MCSymmetry == Permutations({d1, d2}) \cup Permutations({c1, c2})
              \cup Permutations(Handlers)

\* Secrets enough for one to be removed again and another to be made.
MCTokens == {"k1", "k2"}

MCInit == subject \in {"lifecycle", "secret"} /\ Init /\ AuthInit
MCNext ==
  \/ subject = "lifecycle" /\ Next /\ UNCHANGED <<subject, authVars>>
  \/ subject = "secret" /\ AuthNext /\ UNCHANGED <<subject, vars>>
MCSpec == MCInit /\ [][MCNext]_<<subject, vars, authVars>>
==============================================================================
