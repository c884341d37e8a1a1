---------------------------- MODULE PriorityGate ----------------------------
(***************************************************************************)
(* The process-wide admission gate of the daemon: _PriorityGate of         *)
(* work_coordinator.py.  Every heavy job of every project takes one of its *)
(* slots before it runs and returns it when it ends.                       *)
(*                                                                         *)
(* Threads share one threading.Condition.  A thread that is not admitted   *)
(* sleeps in Condition.wait(timeout) and is woken by notify_all or by its  *)
(* own timeout; it then re-evaluates the loop condition when it gets the   *)
(* lock back.  The lock is a variable because registering a waiter and     *)
(* evaluating the condition for the first time happen under one hold of    *)
(* it, while the clock keeps running.                                      *)
(*                                                                         *)
(* Time is counted in ticks.  A budget is the number of ticks left before  *)
(* a deadline: 0 means the deadline has passed, NoDeadline that there is   *)
(* none.  Tickets are only compared, so they are kept as the set of older  *)
(* waiters.                                                                *)
(***************************************************************************)
EXTENDS Integers, FiniteSets

CONSTANTS Threads,             \* the threads that run heavy jobs
          Nobody,              \* the owner of a free lock
          Capacity,            \* concurrent heavy jobs, machine-wide
          InteractiveReserve,  \* slots asked for interactive work
          AgingPeriod,         \* ticks after which a waiter rises one level
          AgeBound,            \* ticks of waiting told apart (bound of the clock)
          Budgets              \* the budgets a caller may come with

NoDeadline == -1

ASSUME GateAssumption ==
  /\ IsFiniteSet(Threads)
  /\ Nobody \notin Threads
  /\ Capacity \in Nat \ {0}
  /\ InteractiveReserve \in Nat
  /\ AgingPeriod \in Nat \ {0}
  /\ AgeBound \in Nat
  /\ Budgets \subseteq Nat \cup {NoDeadline}

Priorities == {"background", "batch", "interactive"}

PriorityValue == [p \in Priorities |->
                    CASE p = "background"  -> 0
                      [] p = "batch"       -> 1
                      [] p = "interactive" -> 2]

\* The constructor clamps the reserve so that other work keeps a slot.
Reserve == IF InteractiveReserve < Capacity THEN InteractiveReserve
                                            ELSE Capacity - 1
Partitioned == Capacity > 1 /\ Reserve > 0
InteractiveCapacity == IF Partitioned THEN Reserve ELSE Capacity
NoninteractiveCapacity == IF Partitioned THEN Capacity - Reserve ELSE Capacity

VARIABLES
  pc,       \* where each thread is: "idle", "waiting" or "holding" a slot
  prio,     \* the priority of its current call
  ahead,    \* the waiters that were already registered when it registered
  age,      \* ticks it has waited
  rem,      \* ticks left of its token's deadline
  timer,    \* ticks left of the timeout it sleeps with
  asleep,   \* the threads inside Condition.wait
  lock,     \* the owner of the condition's lock between two steps
  inUse,    \* _in_use
  inUseBy   \* _in_use_by_priority

vars == <<pc, prio, ahead, age, rem, timer, asleep, lock, inUse, inUseBy>>

Waiters == {t \in Threads : pc[t] = "waiting"}
Holders(p) == {t \in Threads : pc[t] = "holding" /\ prio[t] = p}

-----------------------------------------------------------------------------
(* The admission rule.                                                     *)

Eligible(t) ==
  IF ~Partitioned THEN inUse < Capacity
  ELSE IF prio[t] = "interactive" THEN inUseBy["interactive"] < InteractiveCapacity
  ELSE inUseBy["background"] + inUseBy["batch"] < NoninteractiveCapacity

\* Mutant: aging dropped.
LevelWithoutAging(t) == PriorityValue[prio[t]]

\* The base priority, raised by one for every aging period waited, at most
\* to the interactive level.
Level(t) ==
  LET raised == PriorityValue[prio[t]] + age[t] \div AgingPeriod
  IN  IF raised < 2 THEN raised ELSE 2

\* Mutant: the tie break prefers the newest ticket.
OutranksNewestFirst(u, t) ==
  Level(u) > Level(t) \/ (Level(u) = Level(t) /\ t \in ahead[u])

Outranks(u, t) == Level(u) > Level(t) \/ (Level(u) = Level(t) /\ u \in ahead[t])

\* t is what _next_waiter_locked returns; only eligible waiters are ranked.
IsNext(t) == Eligible(t) /\ \A u \in Waiters \ {t} : Eligible(u) => ~Outranks(u, t)

-----------------------------------------------------------------------------

Later(a, b) == IF a = NoDeadline \/ b = NoDeadline THEN NoDeadline
               ELSE IF a > b THEN a ELSE b

Init ==
  /\ pc = [t \in Threads |-> "idle"]
  /\ prio = [t \in Threads |-> "batch"]
  /\ ahead = [t \in Threads |-> {}]
  /\ age = [t \in Threads |-> 0]
  /\ rem = [t \in Threads |-> NoDeadline]
  /\ timer = [t \in Threads |-> NoDeadline]
  /\ asleep = {}
  /\ lock = Nobody
  /\ inUse = 0
  /\ inUseBy = [p \in Priorities |-> 0]

\* acquire(): take the lock and register behind every current waiter.
Register(t, p, b) ==
  /\ lock = Nobody
  /\ pc[t] = "idle"
  /\ pc' = [pc EXCEPT ![t] = "waiting"]
  /\ prio' = [prio EXCEPT ![t] = p]
  /\ ahead' = [ahead EXCEPT ![t] = Waiters]
  /\ rem' = [rem EXCEPT ![t] = b]
  /\ lock' = t
  /\ UNCHANGED <<age, timer, asleep, inUse, inUseBy>>

\* t holds the lock with its loop condition to evaluate: it has just
\* registered, or it was woken and got the lock back.
MayEvaluate(t) == /\ pc[t] = "waiting"
                  /\ t \notin asleep
                  /\ lock \in {t, Nobody}

\* self._waiters.remove(waiter): t is no longer ahead of anyone.
Leave(t) == /\ ahead' = [u \in Threads |-> IF u = t THEN {} ELSE ahead[u] \ {t}]
            /\ age' = [age EXCEPT ![t] = 0]
            /\ rem' = [rem EXCEPT ![t] = NoDeadline]
            /\ timer' = [timer EXCEPT ![t] = NoDeadline]
            /\ lock' = Nobody

NotifyAll == asleep' = {}

\* The loop condition holds and the deadline has not passed.
Sleep(t) ==
  /\ MayEvaluate(t)
  /\ ~IsNext(t)
  /\ rem[t] # 0
  /\ asleep' = asleep \cup {t}
  /\ timer' = [timer EXCEPT ![t] = rem[t]]
  /\ lock' = Nobody
  /\ UNCHANGED <<pc, prio, ahead, age, rem, inUse, inUseBy>>

\* Mutant: an expired waiter leaves without waking the others.
WithdrawSilently(t) ==
  /\ MayEvaluate(t)
  /\ rem[t] = 0
  /\ pc' = [pc EXCEPT ![t] = "idle"]
  /\ prio' = [prio EXCEPT ![t] = "batch"]
  /\ Leave(t)
  /\ UNCHANGED <<asleep, inUse, inUseBy>>

\* The deadline has passed, whether t would be next or not.
Withdraw(t) ==
  /\ MayEvaluate(t)
  /\ rem[t] = 0
  /\ pc' = [pc EXCEPT ![t] = "idle"]
  /\ prio' = [prio EXCEPT ![t] = "batch"]
  /\ Leave(t)
  /\ NotifyAll
  /\ UNCHANGED <<inUse, inUseBy>>

Claim(t) ==
  /\ MayEvaluate(t)
  /\ IsNext(t)
  /\ rem[t] # 0
  /\ pc' = [pc EXCEPT ![t] = "holding"]
  /\ Leave(t)
  /\ inUse' = inUse + 1
  /\ inUseBy' = [inUseBy EXCEPT ![prio[t]] = @ + 1]
  /\ NotifyAll
  /\ UNCHANGED prio

\* release(), which refuses a caller that owns no slot of its priority.
Release(t) ==
  /\ lock = Nobody
  /\ pc[t] = "holding"
  /\ inUse > 0 /\ inUseBy[prio[t]] > 0
  /\ pc' = [pc EXCEPT ![t] = "idle"]
  /\ prio' = [prio EXCEPT ![t] = "batch"]
  /\ inUse' = inUse - 1
  /\ inUseBy' = [inUseBy EXCEPT ![prio[t]] = @ - 1]
  /\ NotifyAll
  /\ UNCHANGED <<ahead, age, rem, timer, lock>>

\* Condition.wait returns because its timeout has elapsed.
TimeoutWake(t) ==
  /\ t \in asleep
  /\ timer[t] = 0
  /\ asleep' = asleep \ {t}
  /\ UNCHANGED <<pc, prio, ahead, age, rem, timer, lock, inUse, inUseBy>>

\* A follower joins the job t runs and extends its token, which has a lock
\* of its own: nothing at the gate is notified.
ExtendDeadline(t, b) ==
  /\ pc[t] = "waiting"
  /\ Later(rem[t], b) # rem[t]
  /\ rem' = [rem EXCEPT ![t] = Later(@, b)]
  /\ UNCHANGED <<pc, prio, ahead, age, timer, asleep, lock, inUse, inUseBy>>

TickDown(f) == [t \in Threads |-> IF f[t] > 0 THEN f[t] - 1 ELSE f[t]]

Tick ==
  /\ age' = [t \in Threads |-> IF pc[t] = "waiting" /\ age[t] < AgeBound
                               THEN age[t] + 1 ELSE age[t]]
  /\ rem' = TickDown(rem)
  /\ timer' = TickDown(timer)
  /\ UNCHANGED <<pc, prio, ahead, asleep, lock, inUse, inUseBy>>

Next ==
  \/ \E t \in Threads, p \in Priorities, b \in Budgets : Register(t, p, b)
  \/ \E t \in Threads : Sleep(t)
  \/ \E t \in Threads : Withdraw(t)
  \/ \E t \in Threads : Claim(t)
  \/ \E t \in Threads : Release(t)
  \/ \E t \in Threads : TimeoutWake(t)
  \/ \E t \in Threads, b \in Budgets : ExtendDeadline(t, b)
  \/ Tick

Spec == Init /\ [][Next]_vars

-----------------------------------------------------------------------------
(* Properties.                                                             *)

\* Every variable has the type the code gives it.
TypeOK ==
  /\ pc \in [Threads -> {"idle", "waiting", "holding"}]
  /\ prio \in [Threads -> Priorities]
  /\ ahead \in [Threads -> SUBSET Threads]
  /\ age \in [Threads -> 0..AgeBound]
  /\ rem \in [Threads -> Nat \cup {NoDeadline}]
  /\ timer \in [Threads -> Nat \cup {NoDeadline}]
  /\ asleep \subseteq Threads
  /\ lock \in Threads \cup {Nobody}
  /\ inUse \in Nat
  /\ inUseBy \in [Priorities -> Nat]

\* The counters are the numbers of threads that hold a slot, so a release by
\* a holder is never refused and no slot leaks through a withdrawal.
CountersMatchHolders ==
  /\ \A p \in Priorities : inUseBy[p] = Cardinality(Holders(p))
  /\ inUse = inUseBy["background"] + inUseBy["batch"] + inUseBy["interactive"]

\* Bounded global concurrency with a strict partition: jobs that run never
\* exceed the capacity, and neither side ever borrows a slot of the other.
PartitionRespected ==
  /\ Cardinality({t \in Threads : pc[t] = "holding"}) <= Capacity
  /\ Cardinality(Holders("interactive")) <= InteractiveCapacity
  /\ Cardinality(Holders("background") \cup Holders("batch"))
       <= NoninteractiveCapacity

\* No lost wakeup: the waiter that would be admitted is not asleep.  It rests
\* on every claim, release and withdrawal waking everyone.
NextWaiterAwake == \A t \in Waiters : IsNext(t) => t \notin asleep

\* Within one priority the gate is first come first served: a claim never
\* overtakes an older waiter of its own priority.
FifoWithinPriority ==
  [][\A t \in Threads :
       pc[t] = "waiting" /\ pc'[t] = "holding"
         => \A u \in Waiters \cap ahead[t] : prio[u] # prio[t]]_vars
=============================================================================
