----------------------------- MODULE HeavyLane -----------------------------
(***************************************************************************)
(* One heavy lane: HeavyWorkCoordinator of work_coordinator.py.  A call    *)
(* run(key, work) either joins the unfinished job of its key and waits for *)
(* that job's outcome (a follower), or queues a job of its own and runs it *)
(* in its own thread when the lane chooses it (an owner).                  *)
(*                                                                         *)
(* All calls share one threading.Condition.  Its lock is a variable, since *)
(* a call registers and evaluates its wait condition for the first time    *)
(* under one hold of it while the clock keeps running.  Work itself runs   *)
(* outside the lock.  Time and budgets are counted in ticks as in          *)
(* PriorityGate.                                                           *)
(*                                                                         *)
(* A refused call (queue or followers at their limit, reentrancy of the    *)
(* owner) raises and changes nothing but a telemetry counter: a refusal is *)
(* where the guards of Submit and Join are false.                          *)
(***************************************************************************)
EXTENDS Integers, FiniteSets

CONSTANTS Threads,             \* the calling threads
          Keys,                \* work keys
          Jobs,                \* job objects, numbered
          None,                \* no thread, key or job
          Capacity,            \* jobs the lane runs at the same time
          QueueCapacity,       \* queued jobs
          InteractiveReserve,  \* further queued jobs of interactive calls
          FollowerCapacity,    \* followers of one job
          AgingPeriod,         \* ticks after which a job rises one level
          AgeBound,            \* ticks of queueing told apart (bound of the clock)
          Calls,               \* the calls of run() that may be made
          WorkOutcomes,        \* what work may end with before its deadline
          MayNest              \* whether work may call back into the lane

NoDeadline == -1

Priorities == {"background", "batch", "interactive"}

ASSUME LaneAssumption ==
  /\ IsFiniteSet(Threads) /\ IsFiniteSet(Keys) /\ IsFiniteSet(Jobs)
  /\ Jobs \subseteq Nat
  /\ None \notin Threads \cup Keys \cup Jobs
  /\ Capacity \in Nat \ {0}
  /\ QueueCapacity \in Nat \ {0}
  /\ InteractiveReserve \in Nat \ {0}
  /\ FollowerCapacity \in Nat \ {0}
  /\ AgingPeriod \in Nat \ {0}
  /\ AgeBound \in Nat
  /\ Calls \subseteq [thread : Threads, key : Keys, prio : Priorities,
                      budget : Nat \cup {NoDeadline}]
  /\ WorkOutcomes \subseteq {"result", "error"}
  /\ MayNest \in BOOLEAN

PriorityValue == [p \in Priorities |->
                    CASE p = "background"  -> 0
                      [] p = "batch"       -> 1
                      [] p = "interactive" -> 2]

Outcomes == {"result", "error", "deadline"}

VARIABLES
  job,        \* the job objects
  ahead,      \* for a queued job, the queued jobs with an older ticket
  queue,      \* _queue
  inflight,   \* _inflight
  active,     \* _active
  phase,      \* what each thread does with the job it owns
  own,        \* the job it owns
  ownRem,     \* ticks left of the deadline of its owning call
  detached,   \* owner_detached
  pending,    \* the outcome of its work, not yet published by _finish
  follow,     \* the job it follows
  followRem,  \* ticks left of the deadline of its following call
  timer,      \* ticks left of the timeout it sleeps with
  asleep,     \* the threads inside Condition.wait
  lock        \* the owner of the condition's lock between two steps

jobVars == <<job, ahead, queue, inflight, active>>
ownVars == <<phase, own, ownRem, detached, pending>>
followVars == <<follow, followRem>>
waitVars == <<timer, asleep, lock>>
vars == <<jobVars, ownVars, followVars, waitVars>>

\* An object nobody refers to, and what is left to read of a finished job.
Blank == [state |-> "free", key |-> None, owner |-> None, prio |-> "batch",
          age |-> 0, followers |-> 0, token |-> NoDeadline, outcome |-> "none"]
Settled(o) == [Blank EXCEPT !.state = "done", !.outcome = o]

Followers(j) == {t \in Threads : follow[t] = j}
Running == {k \in Keys : active[k] # None}
FreeJobs == {j \in Jobs : job[j].state = "free"}

Later(a, b) == IF a = NoDeadline \/ b = NoDeadline THEN NoDeadline
               ELSE IF a > b THEN a ELSE b

-----------------------------------------------------------------------------
(* The dispatch rule: by priority raised with age, then by ticket.         *)

\* Mutant: aging dropped.
LevelWithoutAging(j) == PriorityValue[job[j].prio]

Level(j) ==
  LET raised == PriorityValue[job[j].prio] + job[j].age \div AgingPeriod
  IN  IF raised < 2 THEN raised ELSE 2

Outranks(i, j) == Level(i) > Level(j) \/ (Level(i) = Level(j) /\ i \in ahead[j])

IsNext(j) == j \in queue /\ \A i \in queue \ {j} : ~Outranks(i, j)

Blocked(j) == Cardinality(Running) >= Capacity \/ ~IsNext(j)

-----------------------------------------------------------------------------

Init ==
  /\ job = [j \in Jobs |-> Blank]
  /\ ahead = [j \in Jobs |-> {}]
  /\ queue = {}
  /\ inflight = [k \in Keys |-> None]
  /\ active = [k \in Keys |-> None]
  /\ phase = [t \in Threads |-> "idle"]
  /\ own = [t \in Threads |-> None]
  /\ ownRem = [t \in Threads |-> NoDeadline]
  /\ detached = [t \in Threads |-> FALSE]
  /\ pending = [t \in Threads |-> "none"]
  /\ follow = [t \in Threads |-> None]
  /\ followRem = [t \in Threads |-> NoDeadline]
  /\ timer = [t \in Threads |-> NoDeadline]
  /\ asleep = {}
  /\ lock = None

MayLock(t) == t \notin asleep /\ lock \in {t, None}

NotifyAll == asleep' = {}

\* Condition.wait(timeout): the lock is given up.
SleepFor(t, ticks) ==
  /\ asleep' = asleep \cup {t}
  /\ timer' = [timer EXCEPT ![t] = ticks]
  /\ lock' = None

\* A call is made by a thread outside the lane, or by work that runs in it.
MayCall(t) ==
  /\ lock = None
  /\ follow[t] = None
  /\ phase[t] = "idle" \/ (MayNest /\ phase[t] = "running")

\* run() finds an unfinished job of its key owned by another thread: it is
\* counted, and the job may now run as long as the new subscriber waits.
Join(t, k, b) ==
  /\ MayCall(t)
  /\ inflight[k] # None
  /\ LET j == inflight[k]
     IN  /\ job[j].owner # t
         /\ job[j].followers < FollowerCapacity
         /\ job' = [job EXCEPT ![j].followers = @ + 1, ![j].token = Later(@, b)]
         /\ follow' = [follow EXCEPT ![t] = j]
  /\ followRem' = [followRem EXCEPT ![t] = b]
  /\ lock' = t
  /\ UNCHANGED <<ahead, queue, inflight, active, ownVars, timer, asleep>>

\* run() queues a job of its own, unless work of this thread runs in the lane
\* or the queue is full for its priority.
Submit(t, k, p, b) ==
  /\ MayCall(t)
  /\ inflight[k] = None
  /\ \A r \in Running : job[active[r]].owner # t
  /\ Cardinality(queue)
       < QueueCapacity + (IF p = "interactive" THEN InteractiveReserve ELSE 0)
  /\ \E j \in FreeJobs :
       /\ \A i \in FreeJobs : j <= i
       /\ job' = [job EXCEPT ![j] =
                    [state |-> "live", key |-> k, owner |-> t, prio |-> p, age |-> 0,
                     followers |-> 0, token |-> b, outcome |-> "none"]]
       /\ ahead' = [ahead EXCEPT ![j] = queue]
       /\ queue' = queue \cup {j}
       /\ inflight' = [inflight EXCEPT ![k] = j]
       /\ own' = [own EXCEPT ![t] = j]
  /\ phase' = [phase EXCEPT ![t] = "queued"]
  /\ ownRem' = [ownRem EXCEPT ![t] = b]
  /\ lock' = t
  /\ UNCHANGED <<active, detached, pending, followVars, timer, asleep>>

-----------------------------------------------------------------------------
(* The owner's wait for the lane.                                          *)

OwnerTurn(t) == phase[t] = "queued" /\ own[t] # None /\ MayLock(t)

\* self._queue.remove(job)
Unqueue(j) ==
  /\ queue' = queue \ {j}
  /\ ahead' = [i \in Jobs |-> IF i = j THEN {} ELSE ahead[i] \ {j}]

\* The job is done with outcome o; it stays readable for its followers.
Settle(j, o) ==
  job' = [job EXCEPT ![j] = IF Followers(j) = {} THEN Blank ELSE Settled(o)]

OwnerReturns(t) ==
  /\ phase' = [phase EXCEPT ![t] = "idle"]
  /\ own' = [own EXCEPT ![t] = None]
  /\ ownRem' = [ownRem EXCEPT ![t] = NoDeadline]
  /\ detached' = [detached EXCEPT ![t] = FALSE]
  /\ pending' = [pending EXCEPT ![t] = "none"]
  /\ timer' = [timer EXCEPT ![t] = NoDeadline]
  /\ lock' = None

\* The lane is not for this job yet.  An owner whose deadline has passed waits
\* on for its followers, as long as one of them may.
OwnerWait(t) ==
  /\ OwnerTurn(t)
  /\ Blocked(own[t])
  /\ \/ /\ ownRem[t] # 0
        /\ SleepFor(t, ownRem[t])
        /\ UNCHANGED detached
     \/ /\ ownRem[t] = 0
        /\ job[own[t]].followers > 0
        /\ job[own[t]].token # 0
        /\ SleepFor(t, job[own[t]].token)
        /\ detached' = [detached EXCEPT ![t] = TRUE]
  /\ UNCHANGED <<jobVars, phase, own, ownRem, pending, followVars>>

\* Mutant: an owner gives up at its own deadline whoever follows its job.
OwnerAbandonAtOnce(t) ==
  /\ OwnerTurn(t)
  /\ ownRem[t] = 0
  /\ Unqueue(own[t])
  /\ inflight' = [inflight EXCEPT ![job[own[t]].key] = None]
  /\ Settle(own[t], "deadline")
  /\ OwnerReturns(t)
  /\ NotifyAll
  /\ UNCHANGED <<active, followVars>>

\* The owner's deadline has passed and nobody follows, or, while the job is
\* still blocked, the deadline of every subscriber has passed.
OwnerAbandon(t) ==
  /\ OwnerTurn(t)
  /\ ownRem[t] = 0
  /\ \/ job[own[t]].followers = 0
     \/ Blocked(own[t]) /\ job[own[t]].token = 0
  /\ Unqueue(own[t])
  /\ inflight' = [inflight EXCEPT ![job[own[t]].key] = None]
  /\ Settle(own[t], "deadline")
  /\ OwnerReturns(t)
  /\ NotifyAll
  /\ UNCHANGED <<active, followVars>>

\* The lane is free and this job is next.  A passed deadline detaches an owner
\* whose job is followed.
Dispatch(t) ==
  /\ OwnerTurn(t)
  /\ ~Blocked(own[t])
  /\ ownRem[t] # 0 \/ job[own[t]].followers > 0
  /\ detached' = [detached EXCEPT ![t] = @ \/ ownRem[t] = 0]
  /\ Unqueue(own[t])
  /\ active' = [active EXCEPT ![job[own[t]].key] = own[t]]
  /\ phase' = [phase EXCEPT ![t] = "dispatched"]
  /\ timer' = [timer EXCEPT ![t] = NoDeadline]
  /\ lock' = None
  /\ NotifyAll
  /\ UNCHANGED <<job, inflight, own, ownRem, pending, followVars>>

-----------------------------------------------------------------------------
(* The work, outside the lock.                                             *)

\* job.token.raise_if_cancelled(), then work().
BeginWork(t) ==
  /\ phase[t] = "dispatched"
  /\ IF job[own[t]].token = 0
     THEN /\ phase' = [phase EXCEPT ![t] = "finishing"]
          /\ pending' = [pending EXCEPT ![t] = "deadline"]
     ELSE /\ phase' = [phase EXCEPT ![t] = "running"]
          /\ UNCHANGED pending
  /\ UNCHANGED <<jobVars, own, ownRem, detached, followVars, waitVars>>

\* Work returns or raises; at a cancellation point it raises because the
\* deadline of every subscriber has passed.
EndWork(t, o) ==
  /\ phase[t] = "running"
  /\ follow[t] = None
  /\ o \in WorkOutcomes \/ (o = "deadline" /\ job[own[t]].token = 0)
  /\ phase' = [phase EXCEPT ![t] = "finishing"]
  /\ pending' = [pending EXCEPT ![t] = o]
  /\ UNCHANGED <<jobVars, own, ownRem, detached, followVars, waitVars>>

\* Mutant: the result is published without waking the followers.
FinishSilently(t) ==
  /\ phase[t] = "finishing"
  /\ lock = None
  /\ LET j == own[t]
         k == job[j].key
     IN  /\ Settle(j, pending[t])
         /\ active' = [active EXCEPT ![k] = IF @ = j THEN None ELSE @]
         /\ inflight' = [inflight EXCEPT ![k] = IF @ = j THEN None ELSE @]
  /\ OwnerReturns(t)
  /\ UNCHANGED <<ahead, queue, followVars, asleep>>

\* Mutant: the finished job stays the one that calls of its key join.
FinishKeepsInflight(t) ==
  /\ phase[t] = "finishing"
  /\ lock = None
  /\ LET j == own[t]
         k == job[j].key
     IN  /\ Settle(j, pending[t])
         /\ active' = [active EXCEPT ![k] = IF @ = j THEN None ELSE @]
  /\ OwnerReturns(t)
  /\ NotifyAll
  /\ UNCHANGED <<ahead, queue, inflight, followVars>>

\* _finish(), then the owner returns or raises.
Finish(t) ==
  /\ phase[t] = "finishing"
  /\ lock = None
  /\ LET j == own[t]
         k == job[j].key
     IN  /\ Settle(j, pending[t])
         /\ active' = [active EXCEPT ![k] = IF @ = j THEN None ELSE @]
         /\ inflight' = [inflight EXCEPT ![k] = IF @ = j THEN None ELSE @]
  /\ OwnerReturns(t)
  /\ NotifyAll
  /\ UNCHANGED <<ahead, queue, followVars>>

-----------------------------------------------------------------------------
(* The follower's wait for the outcome.                                    *)

FollowerTurn(t) == follow[t] # None /\ MayLock(t)

FollowerReturns(t) ==
  /\ follow' = [follow EXCEPT ![t] = None]
  /\ followRem' = [followRem EXCEPT ![t] = NoDeadline]
  /\ timer' = [timer EXCEPT ![t] = NoDeadline]
  /\ lock' = None

FollowerWait(t) ==
  /\ FollowerTurn(t)
  /\ job[follow[t]].outcome = "none"
  /\ followRem[t] # 0
  /\ SleepFor(t, followRem[t])
  /\ UNCHANGED <<jobVars, ownVars, followVars>>

FollowerExpire(t) ==
  /\ FollowerTurn(t)
  /\ job[follow[t]].outcome = "none"
  /\ followRem[t] = 0
  /\ job' = [job EXCEPT ![follow[t]].followers = @ - 1]
  /\ FollowerReturns(t)
  /\ NotifyAll
  /\ UNCHANGED <<ahead, queue, inflight, active, ownVars>>

\* The job is done: the follower returns its result or raises a copy of its
\* error, and the last reader frees the object.
FollowerReceive(t) ==
  /\ FollowerTurn(t)
  /\ job[follow[t]].outcome # "none"
  /\ job' = IF Followers(follow[t]) = {t} THEN [job EXCEPT ![follow[t]] = Blank] ELSE job
  /\ FollowerReturns(t)
  /\ UNCHANGED <<ahead, queue, inflight, active, ownVars, asleep>>

-----------------------------------------------------------------------------

\* Condition.wait returns because its timeout has elapsed.
TimeoutWake(t) ==
  /\ t \in asleep
  /\ timer[t] = 0
  /\ asleep' = asleep \ {t}
  /\ UNCHANGED <<jobVars, ownVars, followVars, timer, lock>>

Less(ticks) == IF ticks > 0 THEN ticks - 1 ELSE ticks

Tick ==
  /\ job' = [j \in Jobs |->
               [job[j] EXCEPT !.age = IF j \in queue /\ @ < AgeBound THEN @ + 1 ELSE @,
                              !.token = Less(@)]]
  /\ ownRem' = [t \in Threads |-> Less(ownRem[t])]
  /\ followRem' = [t \in Threads |-> Less(followRem[t])]
  /\ timer' = [t \in Threads |-> Less(timer[t])]
  /\ UNCHANGED <<ahead, queue, inflight, active, phase, own, detached, pending,
                 follow, asleep, lock>>

Next ==
  \/ \E c \in Calls : Join(c.thread, c.key, c.budget)
  \/ \E c \in Calls : Submit(c.thread, c.key, c.prio, c.budget)
  \/ \E t \in Threads : OwnerWait(t)
  \/ \E t \in Threads : OwnerAbandon(t)
  \/ \E t \in Threads : Dispatch(t)
  \/ \E t \in Threads : BeginWork(t)
  \/ \E t \in Threads, o \in Outcomes : EndWork(t, o)
  \/ \E t \in Threads : Finish(t)
  \/ \E t \in Threads : FollowerWait(t)
  \/ \E t \in Threads : FollowerExpire(t)
  \/ \E t \in Threads : FollowerReceive(t)
  \/ \E t \in Threads : TimeoutWake(t)
  \/ Tick

Spec == Init /\ [][Next]_vars

-----------------------------------------------------------------------------
(* Properties.                                                             *)

\* Every variable has the type the code gives it.
TypeOK ==
  /\ job \in [Jobs -> [state : {"free", "live", "done"}, key : Keys \cup {None},
                       owner : Threads \cup {None}, prio : Priorities,
                       age : 0..AgeBound, followers : Int,
                       token : Nat \cup {NoDeadline}, outcome : Outcomes \cup {"none"}]]
  /\ ahead \in [Jobs -> SUBSET Jobs]
  /\ queue \subseteq Jobs
  /\ inflight \in [Keys -> Jobs \cup {None}]
  /\ active \in [Keys -> Jobs \cup {None}]
  /\ phase \in [Threads -> {"idle", "queued", "dispatched", "running", "finishing"}]
  /\ own \in [Threads -> Jobs \cup {None}]
  /\ ownRem \in [Threads -> Nat \cup {NoDeadline}]
  /\ detached \in [Threads -> BOOLEAN]
  /\ pending \in [Threads -> Outcomes \cup {"none"}]
  /\ follow \in [Threads -> Jobs \cup {None}]
  /\ followRem \in [Threads -> Nat \cup {NoDeadline}]
  /\ timer \in [Threads -> Nat \cup {NoDeadline}]
  /\ asleep \subseteq Threads
  /\ lock \in Threads \cup {None}

\* Single flight: the unfinished jobs are those in flight, each under its own
\* key, each queued or active but not both, and each in the hands of the one
\* thread that will finish it.  No key is ever computed twice at a time.
SingleFlight ==
  /\ \A k \in Keys : inflight[k] # None =>
       LET j == inflight[k]
       IN  /\ job[j].state = "live" /\ job[j].key = k
           /\ active[k] = j <=> j \notin queue
  /\ \A k \in Keys : active[k] \in {None, inflight[k]}
  /\ \A j \in Jobs : job[j].state = "live" =>
       /\ inflight[job[j].key] = j
       /\ own[job[j].owner] = j
  /\ \A t \in Threads : own[t] # None => job[own[t]].state = "live" /\ job[own[t]].owner = t

\* The admission limits: active jobs, queued jobs, and the reserve of the queue
\* that only interactive calls may fill.
AdmissionBounded ==
  /\ Cardinality(Running) <= Capacity
  /\ Cardinality(queue) <= QueueCapacity + InteractiveReserve
  /\ Cardinality({j \in queue : job[j].prio # "interactive"}) <= QueueCapacity

\* A queued job is given up only when every subscriber's deadline has passed:
\* an expired owner never takes a live follower down with it.
LiveFollowerServed ==
  [][\A t \in Threads :
       phase[t] = "queued" /\ phase'[t] = "idle"
         => ownRem[t] = 0 /\ \A u \in Followers(own[t]) : followRem[u] = 0]_vars

\* No lost wakeup: while the lane has room, the owner of the job it would run
\* next is awake.
NextOwnerAwake ==
  \A t \in Threads : phase[t] = "queued" /\ ~Blocked(own[t]) => t \notin asleep

\* The lane implements coalesced calls, for callers that do not nest: the job in
\* flight of a key is its computation, open while queued, its owner and followers
\* are the members, and a settled job is the answer of those who still follow it.
Stage == [k \in Keys |-> IF inflight[k] = None THEN "none"
                         ELSE IF inflight[k] \in queue THEN "open" ELSE "computing"]
Members == [k \in Keys |-> IF inflight[k] = None THEN {}
                           ELSE {job[inflight[k]].owner} \cup Followers(inflight[k])]
Answer == [t \in Threads |-> IF follow[t] = None THEN "none" ELSE job[follow[t]].outcome]

Promise == INSTANCE CoalescedCalls
  WITH Limit <- FollowerCapacity + 1, stage <- Stage, members <- Members, answer <- Answer

SharedOutcome == Promise!Spec
=============================================================================
