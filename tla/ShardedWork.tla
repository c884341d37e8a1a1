----------------------------- MODULE ShardedWork -----------------------------
(***************************************************************************)
(* ShardedHeavyWork of work_coordinator.py: a lane for each project and    *)
(* kind of work, made for the first call that needs it and dropped with    *)
(* the last, and one gate with a strict partition of slots behind all of   *)
(* them.  Lane and gate appear here by what HeavyLane and PriorityGate     *)
(* show of them: a job is dispatched when its lane has room, admitted when *)
(* its partition has, in some order; the ranks are theirs.                 *)
(*                                                                         *)
(* A deadline passes at any time.  A job is cancelled when the deadlines   *)
(* of its owner and of all its followers have passed: its token holds the  *)
(* latest of them.  The condition a follower sleeps on is left out: the    *)
(* step that settles a job hands every follower its outcome.               *)
(***************************************************************************)
EXTENDS Naturals, FiniteSets

CONSTANTS Threads,        \* the calling threads
          Projects,       \* shards
          Keys,           \* work keys
          Asks,           \* of each thread: the lanes its requests may need
          Entries,        \* _LaneEntry objects
          None,
          Slots,          \* of each kind: slots of the global gate
          LaneCapacity,   \* of each kind: jobs a lane runs at the same time
          QueueLimit,     \* queued jobs of one lane
          FollowerLimit   \* followers of one job

Kinds == {"interactive", "batch"}
Lanes == Projects \X Kinds

ASSUME ShardedAssumption ==
  /\ IsFiniteSet(Threads)
  /\ None \notin Threads \cup Keys \cup Entries \cup Lanes
  /\ Asks \in [Threads -> SUBSET Lanes]
  /\ Slots \in [Kinds -> Nat \ {0}]
  /\ LaneCapacity \in [Kinds -> Nat \ {0}]
  /\ QueueLimit \in Nat \ {0} /\ FollowerLimit \in Nat

VARIABLES
  table,   \* _shards: the entry of each lane
  leases,  \* of each entry
  call,    \* what each thread is doing
  up       \* the daemon runs

shardVars == <<table, leases, call, up>>

Idle == [at |-> "idle", lane |-> None, entry |-> None, key |-> None,
         leader |-> None, live |-> TRUE, outcome |-> "none"]

\* Places of a thread that owns an unfinished job.
Owning == {"queued", "gating", "working", "finishing"}
Places == Owning \cup {"idle", "leased", "following", "leaving"}

Init ==
  /\ table = [l \in Lanes |-> None]
  /\ leases = [e \in Entries |-> 0]
  /\ call = [t \in Threads |-> Idle]
  /\ up = TRUE

At(t, place) == call[t].at = place
In(e, places) == {t \in Threads : call[t].entry = e /\ call[t].at \in places}
Followers(t) == {f \in Threads : At(f, "following") /\ call[f].leader = t}
InFlight(e, k) == {t \in In(e, Owning) : call[t].key = k}
Holding(kind) == {t \in Threads : At(t, "working") /\ call[t].lane[2] = kind}

\* The token of a job: somebody who waits for it still has time.
TokenLive(t) == \E u \in {t} \cup Followers(t) : call[u].live

Go(t, place) == call' = [call EXCEPT ![t].at = place]

-----------------------------------------------------------------------------
(* The lane table.                                                         *)

Unused(e) == (\A l \in Lanes : table[l] # e) /\ \A t \in Threads : call[t].entry # e

\* (Entries stand for objects that memory never lacks.)
AcquireLane(t, l, k) ==
  /\ up /\ At(t, "idle")
  /\ table[l] # None \/ \E n \in Entries : Unused(n)
  /\ LET e == IF table[l] = None THEN CHOOSE n \in Entries : Unused(n) ELSE table[l] IN
       /\ table' = [table EXCEPT ![l] = e]
       /\ leases' = [leases EXCEPT ![e] = @ + 1]
       /\ call' = [call EXCEPT ![t] = [Idle EXCEPT !.at = "leased", !.lane = l,
                                                   !.entry = e, !.key = k]]
  /\ UNCHANGED up

\* Mutant: an idle lane is dropped although another call is about to use it.
ReleaseIdleLane(t) ==
  /\ up /\ At(t, "leaving")
  /\ LET e == call[t].entry
     IN  /\ leases' = [leases EXCEPT ![e] = @ - 1]
         /\ table' = IF In(e, Owning) = {}
                       THEN [table EXCEPT ![call[t].lane] = None] ELSE table
  /\ call' = [call EXCEPT ![t] = Idle]
  /\ UNCHANGED up

ReleaseLane(t) ==
  /\ up /\ At(t, "leaving")
  /\ LET e == call[t].entry
     IN  /\ leases' = [leases EXCEPT ![e] = @ - 1]
         /\ table' = IF leases[e] = 1 /\ In(e, Owning) = {}
                       THEN [table EXCEPT ![call[t].lane] = None] ELSE table
  /\ call' = [call EXCEPT ![t] = Idle]
  /\ UNCHANGED up

-----------------------------------------------------------------------------
(* The lane.                                                               *)

Join(t) ==
  /\ up /\ At(t, "leased")
  /\ \E u \in InFlight(call[t].entry, call[t].key) :
       /\ Cardinality(Followers(u)) < FollowerLimit
       /\ call' = [call EXCEPT ![t].at = "following", ![t].leader = u]
  /\ UNCHANGED <<table, leases, up>>

\* Mutant: a job under way is not looked for.
SubmitAnew(t) ==
  /\ up /\ At(t, "leased")
  /\ Cardinality(In(call[t].entry, {"queued"})) < QueueLimit
  /\ Go(t, "queued")
  /\ UNCHANGED <<table, leases, up>>

Submit(t) ==
  /\ up /\ At(t, "leased")
  /\ InFlight(call[t].entry, call[t].key) = {}
  /\ Cardinality(In(call[t].entry, {"queued"})) < QueueLimit
  /\ Go(t, "queued")
  /\ UNCHANGED <<table, leases, up>>

\* HeavyWorkQueueFull.
Refuse(t) ==
  /\ up /\ At(t, "leased")
  /\ LET jobs == InFlight(call[t].entry, call[t].key)
     IN  IF jobs = {} THEN Cardinality(In(call[t].entry, {"queued"})) >= QueueLimit
                      ELSE \A u \in jobs : Cardinality(Followers(u)) >= FollowerLimit
  /\ Go(t, "leaving")
  /\ UNCHANGED <<table, leases, up>>

\* The job of t is over: its followers take the outcome o.
Settled(t, o) ==
  [u \in Threads |->
     IF u = t THEN [call[u] EXCEPT !.at = "leaving", !.outcome = "none"]
     ELSE IF u \in Followers(t)
       THEN [call[u] EXCEPT !.at = "leaving", !.leader = None, !.outcome = o]
       ELSE call[u]]

Dispatch(t) ==
  /\ up /\ At(t, "queued")
  /\ Cardinality(In(call[t].entry, {"gating", "working", "finishing"}))
       < LaneCapacity[call[t].lane[2]]
  /\ call[t].live \/ Followers(t) # {}
  /\ Go(t, "gating")
  /\ UNCHANGED <<table, leases, up>>

Withdraw(t) ==
  /\ up /\ At(t, "queued") /\ ~TokenLive(t)
  /\ call' = Settled(t, "deadline")
  /\ UNCHANGED <<table, leases, up>>

FollowerExpire(t) ==
  /\ up /\ At(t, "following") /\ ~call[t].live
  /\ call' = [call EXCEPT ![t].at = "leaving", ![t].leader = None]
  /\ UNCHANGED <<table, leases, up>>

Finish(t) ==
  /\ up /\ At(t, "finishing")
  /\ call' = Settled(t, call[t].outcome)
  /\ UNCHANGED <<table, leases, up>>

-----------------------------------------------------------------------------
(* What a lane runs: _globally_gated.                                      *)

\* acquire() raises, or the job was cancelled before.
GateExpire(t) ==
  /\ up /\ At(t, "gating") /\ ~TokenLive(t)
  /\ call' = [call EXCEPT ![t].at = "finishing", ![t].outcome = "deadline"]
  /\ UNCHANGED <<table, leases, up>>

EnterGate(t) ==
  /\ up /\ At(t, "gating")
  /\ Cardinality(Holding(call[t].lane[2])) < Slots[call[t].lane[2]]
  /\ Go(t, "working")
  /\ UNCHANGED <<table, leases, up>>

\* work() has returned or raised o.  Its result is dropped if the token has died
\* in the meantime; the slot is given back either way.
EndWork(t, o) ==
  /\ up /\ At(t, "working")
  /\ call' = [call EXCEPT ![t].at = "finishing",
                          ![t].outcome = IF o = "result" /\ ~TokenLive(t)
                                           THEN "deadline" ELSE o]
  /\ UNCHANGED <<table, leases, up>>

\* The hard timer finds the work unfinished: os._exit.
HardTimeout(t) ==
  /\ up /\ At(t, "working")
  /\ up' = FALSE
  /\ UNCHANGED <<table, leases, call>>

-----------------------------------------------------------------------------

Expire(t) ==
  /\ up /\ call[t].at \notin {"idle", "finishing", "leaving"} /\ call[t].live
  /\ call' = [call EXCEPT ![t].live = FALSE]
  /\ UNCHANGED <<table, leases, up>>

\* What happens outside of work().
LaneNext ==
  \/ \E t \in Threads, k \in Keys : \E l \in Asks[t] : AcquireLane(t, l, k)
  \/ \E t \in Threads : ReleaseLane(t)
  \/ \E t \in Threads : Join(t)
  \/ \E t \in Threads : Submit(t)
  \/ \E t \in Threads : Refuse(t)
  \/ \E t \in Threads : Dispatch(t)
  \/ \E t \in Threads : Withdraw(t)
  \/ \E t \in Threads : FollowerExpire(t)
  \/ \E t \in Threads : Finish(t)
  \/ \E t \in Threads : GateExpire(t)

-----------------------------------------------------------------------------
(* Properties.                                                             *)

\* Every variable has the type the code gives it.
TypeOK ==
  /\ table \in [Lanes -> Entries \cup {None}]
  /\ leases \in [Entries -> Nat]
  /\ call \in [Threads -> [at : Places, lane : Lanes \cup {None},
                           entry : Entries \cup {None}, key : Keys \cup {None},
                           leader : Threads \cup {None}, live : BOOLEAN,
                           outcome : {"none", "result", "error", "deadline"}]]
  /\ up \in BOOLEAN

\* Lease accounting never drifts (the RuntimeError of _release_lane is never
\* raised), and a lane is in the table exactly as long as a call uses it: none
\* is dropped under a call, and none is kept for ever.
LeasesExact ==
  /\ \A t \in Threads : ~At(t, "idle") => table[call[t].lane] = call[t].entry
  /\ \A l \in Lanes :
       table[l] # None
         => leases[table[l]] = Cardinality(In(table[l], Places)) /\ leases[table[l]] > 0

\* The calls of one piece of work w: a lane and a key.  Its owners hold a job of
\* it, its members wait for that job or hold it.
Owners(w) ==
  {t \in Threads : call[t].at \in Owning /\ call[t].lane = w[1] /\ call[t].key = w[2]}
Stage ==
  [w \in Lanes \X Keys |->
     IF Owners(w) = {} THEN "none"
     ELSE IF \A t \in Owners(w) : At(t, "queued") THEN "open" ELSE "computing"]
Members ==
  [w \in Lanes \X Keys |->
     Owners(w) \cup {t \in Threads : /\ At(t, "following")
                                     /\ call[t].lane = w[1] /\ call[t].key = w[2]}]
Answer == [t \in Threads |-> IF At(t, "leaving") THEN call[t].outcome ELSE "none"]

\* Single flight holds across lanes that come and go: for each project, kind
\* and key the calls are CoalescedCalls.
Flights == INSTANCE CoalescedCalls WITH
  Keys <- Lanes \X Keys,
  Outcomes <- {"result", "error", "deadline"},
  Limit <- FollowerLimit + 1,
  stage <- Stage, members <- Members, answer <- Answer

SingleFlightAcrossLanes == Flights!Spec
=============================================================================
