----------------------------- MODULE RouteWorker -----------------------------
(***************************************************************************)
(* run_route of worker_process.py: the work of one job in a process of its *)
(* own.  The parent spawns the child, lets it start, and polls: for an     *)
(* answer that a reader thread takes out of the pipe, for the death of the *)
(* child, and for the deadline of the job, which may move while it waits.  *)
(* Every way out ends the child first.                                     *)
(***************************************************************************)
CONSTANTS Jobs, None

VARIABLES
  token,   \* the jobs whose deadline has not passed
  capped,  \* the jobs without one: child_deadline, the longest request, bounds them
  parent,  \* where run_route is
  child,   \* the child process
  pipe,    \* what the child has sent, or "eof"
  inbox    \* what the reader thread has handed over

workerVars == <<parent, child, pipe, inbox>>

\* What a child may send: a result, or an error of its own.
Answers == {"result", "error"}

WorkerInit ==
  /\ parent = [j \in Jobs |-> "none"]
  /\ child = [j \in Jobs |-> "none"]
  /\ pipe = [j \in Jobs |-> "none"]
  /\ inbox = [j \in Jobs |-> "none"]

Step(j, from, to) == parent[j] = from /\ parent' = [parent EXCEPT ![j] = to]

-----------------------------------------------------------------------------
(* The parent.                                                             *)

Spawn(j) ==
  /\ parent[j] = "none"
  /\ IF j \in token
       THEN /\ parent' = [parent EXCEPT ![j] = "spawned"]
            /\ child' = [child EXCEPT ![j] = "waiting"]
       ELSE parent' = [parent EXCEPT ![j] = "deadline"] /\ UNCHANGED child
  /\ UNCHANGED <<pipe, inbox>>

\* The start event; the deadline is looked at before.
Start(j) ==
  /\ parent[j] = "spawned"
  /\ IF j \in token
       THEN /\ parent' = [parent EXCEPT ![j] = "polling"]
            /\ child' = [child EXCEPT ![j] = IF @ = "waiting" THEN "working" ELSE @]
       ELSE parent' = [parent EXCEPT ![j] = "doomed"] /\ UNCHANGED child
  /\ UNCHANGED <<pipe, inbox>>

\* Mutant: the deadline at the start is kept, whatever has joined since.
DoomAtAnyTime(j) ==
  /\ Step(j, "polling", "doomed")
  /\ UNCHANGED <<child, pipe, inbox>>

\* Mutant: a deadline is looked at only before the child starts.
DoomNever(j) == FALSE /\ UNCHANGED workerVars

\* The deadline has passed; from here on it is no longer looked at.
Doom(j) ==
  /\ j \notin token \/ j \in capped
  /\ Step(j, "polling", "doomed")
  /\ UNCHANGED <<child, pipe, inbox>>

Receive(j) ==
  /\ inbox[j] # "none"
  /\ parent[j] \in {"polling", "checking"}
  /\ parent' = [parent EXCEPT ![j] = "received"]
  /\ UNCHANGED <<child, pipe, inbox>>

\* The queue was empty when it was looked at, and the child is dead.
SeeDead(j) ==
  /\ child[j] = "dead"
  /\ Step(j, "polling", "checking")
  /\ UNCHANGED <<child, pipe, inbox>>

\* "route worker exited without a result": nothing in the inbox now.
GiveUp(j) ==
  /\ inbox[j] = "none"
  /\ Step(j, "checking", "error")
  /\ UNCHANGED <<child, pipe, inbox>>

\* Mutant: the child of an expired job is left to finish.
ExpireWithoutReaping(j) ==
  /\ Step(j, "doomed", "deadline")
  /\ UNCHANGED <<child, pipe, inbox>>

\* _terminate_contained_process returns when the tree is dead.
Terminate(j) ==
  /\ Step(j, "doomed", "deadline")
  /\ child' = [child EXCEPT ![j] = "dead"]
  /\ UNCHANGED <<pipe, inbox>>

\* An answer has come; a child that does not exit is ended.
Reap(j) ==
  /\ parent[j] = "received"
  /\ parent' = [parent EXCEPT ![j] = IF inbox[j] = "eof" THEN "error" ELSE inbox[j]]
  /\ child' = [child EXCEPT ![j] = "dead"]
  /\ UNCHANGED <<pipe, inbox>>

Returned(j) == parent[j] \in {"result", "error", "deadline"}

\* run_route returns; its objects are gone.
Return(j) ==
  /\ Returned(j)
  /\ parent' = [parent EXCEPT ![j] = "none"]
  /\ child' = [child EXCEPT ![j] = IF @ = "dead" THEN "none" ELSE @]
  /\ pipe' = [pipe EXCEPT ![j] = "none"]
  /\ inbox' = [inbox EXCEPT ![j] = "none"]

-----------------------------------------------------------------------------
(* The reader thread and the child.                                        *)

\* recv_bytes returns and the message is decoded.
Read(j) ==
  /\ parent[j] \in {"polling", "checking"}
  /\ pipe[j] # "none" /\ inbox[j] = "none"
  /\ inbox' = [inbox EXCEPT ![j] = pipe[j]]
  /\ UNCHANGED <<parent, child, pipe>>

Answer(j, a) ==
  /\ child[j] = "working"
  /\ child' = [child EXCEPT ![j] = "sent"]
  /\ pipe' = [pipe EXCEPT ![j] = a]
  /\ UNCHANGED <<parent, inbox>>

\* The child exits after its answer, or dies before it.
Exit(j) ==
  /\ child[j] \in {"waiting", "working", "sent"}
  /\ child' = [child EXCEPT ![j] = "dead"]
  /\ pipe' = [pipe EXCEPT ![j] = IF @ = "none" THEN "eof" ELSE @]
  /\ UNCHANGED <<parent, inbox>>

ParentSteps(j) ==
  \/ Start(j)
  \/ Doom(j)
  \/ Receive(j)
  \/ SeeDead(j)
  \/ GiveUp(j)
  \/ Terminate(j)
  \/ Reap(j)

ChildSteps(j) ==
  \/ \E a \in Answers : Answer(j, a)
  \/ Exit(j)

Alive(j) == child[j] \in {"waiting", "working", "sent"}

=============================================================================
