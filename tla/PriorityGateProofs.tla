------------------------- MODULE PriorityGateProofs -------------------------
(***************************************************************************)
(* Safety of the admission gate for every set of threads, capacity,        *)
(* reserve and aging period.                                               *)
(***************************************************************************)
EXTENDS PriorityGate, FiniteSetTheorems, TLAPS

LEMMA ReserveBounds ==
  /\ Reserve \in Nat
  /\ Reserve < Capacity
  /\ InteractiveCapacity \in Nat
  /\ NoninteractiveCapacity \in Nat
BY GateAssumption DEF Reserve, InteractiveCapacity, NoninteractiveCapacity, Partitioned

-----------------------------------------------------------------------------
(* Types.                                                                  *)

LEMMA InitTypeOK == Init => TypeOK
BY GateAssumption DEF Init, TypeOK, Priorities, NoDeadline

LEMMA StepTypeOK == TypeOK /\ [Next]_vars => TypeOK'
<1> USE GateAssumption
<1> SUFFICES ASSUME TypeOK, [Next]_vars
             PROVE  TypeOK'
  OBVIOUS
<1>1. ASSUME NEW t \in Threads, NEW p \in Priorities, NEW b \in Budgets,
             Register(t, p, b)
      PROVE  TypeOK'
  BY <1>1 DEF TypeOK, Register, Waiters, NoDeadline
<1>2. ASSUME NEW t \in Threads, Sleep(t)
      PROVE  TypeOK'
  BY <1>2 DEF TypeOK, Sleep
<1>3. ASSUME NEW t \in Threads, Withdraw(t)
      PROVE  TypeOK'
  BY <1>3 DEF TypeOK, Withdraw, Leave, NotifyAll, Priorities, NoDeadline
<1>4. ASSUME NEW t \in Threads, Claim(t)
      PROVE  TypeOK'
  BY <1>4 DEF TypeOK, Claim, Leave, NotifyAll, NoDeadline
<1>5. ASSUME NEW t \in Threads, Release(t)
      PROVE  TypeOK'
  BY <1>5 DEF TypeOK, Release, NotifyAll, Priorities
<1>6. ASSUME NEW t \in Threads, TimeoutWake(t)
      PROVE  TypeOK'
  BY <1>6 DEF TypeOK, TimeoutWake
<1>7. ASSUME NEW t \in Threads, NEW b \in Budgets, ExtendDeadline(t, b)
      PROVE  TypeOK'
  BY <1>7 DEF TypeOK, ExtendDeadline, Later, NoDeadline
<1>8. ASSUME Tick
      PROVE  TypeOK'
  BY <1>8 DEF TypeOK, Tick, TickDown, NoDeadline
<1>9. ASSUME UNCHANGED vars
      PROVE  TypeOK'
  BY <1>9 DEF TypeOK, vars
<1> QED
  BY <1>1, <1>2, <1>3, <1>4, <1>5, <1>6, <1>7, <1>8, <1>9 DEF Next

\* Every behaviour of the gate keeps its variables in their types.
THEOREM TypeCorrect == Spec => []TypeOK
BY InitTypeOK, StepTypeOK, PTL DEF Spec

-----------------------------------------------------------------------------
(* Slots.                                                                  *)

\* The bounds of the partition in terms of the counters the code keeps.
CountersBounded ==
  /\ inUse <= Capacity
  /\ inUseBy["interactive"] <= InteractiveCapacity
  /\ inUseBy["background"] + inUseBy["batch"] <= NoninteractiveCapacity

SlotInv == TypeOK /\ CountersMatchHolders /\ CountersBounded

LEMMA HoldersFinite ==
  ASSUME NEW p PROVE IsFiniteSet(Holders(p))
BY GateAssumption, FS_Subset DEF Holders

LEMMA InitSlotInv == Init => SlotInv
<1> SUFFICES ASSUME Init PROVE SlotInv
  OBVIOUS
<1>1. \A p \in Priorities : Holders(p) = {}
  BY DEF Init, Holders
<1>2. CountersMatchHolders
  BY <1>1, FS_EmptySet DEF CountersMatchHolders, Init, Priorities
<1>3. CountersBounded
  BY ReserveBounds, GateAssumption DEF CountersBounded, Init, Priorities
<1> QED
  BY <1>2, <1>3, InitTypeOK DEF SlotInv

\* A step that gives and takes no slot keeps both counters and holders.
LEMMA SameHolders ==
  ASSUME SlotInv, TypeOK',
         UNCHANGED <<inUse, inUseBy>>,
         \A p \in Priorities : Holders(p)' = Holders(p)
  PROVE  SlotInv'
BY DEF SlotInv, CountersMatchHolders, CountersBounded

LEMMA ClaimSlotInv ==
  ASSUME SlotInv, TypeOK', NEW t \in Threads, Claim(t)
  PROVE  SlotInv'
<1>q. PICK q \in Priorities : q = prio[t]
  BY DEF SlotInv, TypeOK
<1>1. inUseBy \in [Priorities -> Nat]
  BY DEF SlotInv, TypeOK
<1>2. t \notin Holders(q) /\ Holders(q)' = Holders(q) \cup {t}
  BY <1>q DEF Claim, MayEvaluate, Holders, SlotInv, TypeOK
<1>3. \A p \in Priorities \ {q} : Holders(p)' = Holders(p)
  BY <1>q DEF Claim, MayEvaluate, Holders, SlotInv, TypeOK
<1>4. Cardinality(Holders(q)') = Cardinality(Holders(q)) + 1
  BY <1>2, HoldersFinite, FS_AddElement
<1>5. inUse' = inUse + 1 /\ inUseBy' = [inUseBy EXCEPT ![q] = @ + 1]
  BY <1>q DEF Claim
<1>6. \A p \in Priorities : inUseBy'[p] = Cardinality(Holders(p)')
  BY <1>1, <1>3, <1>4, <1>5 DEF SlotInv, CountersMatchHolders
<1>7. inUse' = inUseBy'["background"] + inUseBy'["batch"] + inUseBy'["interactive"]
  BY <1>1, <1>5 DEF SlotInv, CountersMatchHolders, Priorities, TypeOK
<1>8. Eligible(t)
  BY DEF Claim, IsNext
<1>9. CountersBounded'
  BY <1>q, <1>1, <1>5, <1>8, ReserveBounds, GateAssumption
  DEF Eligible, SlotInv, CountersMatchHolders, CountersBounded, Priorities, TypeOK,
      InteractiveCapacity, NoninteractiveCapacity
<1> QED
  BY <1>6, <1>7, <1>9 DEF SlotInv, CountersMatchHolders

LEMMA ReleaseSlotInv ==
  ASSUME SlotInv, TypeOK', NEW t \in Threads, Release(t)
  PROVE  SlotInv'
<1>q. PICK q \in Priorities : q = prio[t]
  BY DEF SlotInv, TypeOK
<1>1. inUseBy \in [Priorities -> Nat]
  BY DEF SlotInv, TypeOK
<1>2. t \in Holders(q) /\ Holders(q)' = Holders(q) \ {t}
  BY <1>q DEF Release, Holders, SlotInv, TypeOK
<1>3. \A p \in Priorities \ {q} : Holders(p)' = Holders(p)
  BY <1>q DEF Release, Holders, SlotInv, TypeOK
<1>4. Cardinality(Holders(q)') = Cardinality(Holders(q)) - 1
  BY <1>2, HoldersFinite, FS_RemoveElement
<1>5. inUse' = inUse - 1 /\ inUseBy' = [inUseBy EXCEPT ![q] = @ - 1]
  BY <1>q DEF Release
<1>6. \A p \in Priorities : inUseBy'[p] = Cardinality(Holders(p)')
  BY <1>1, <1>3, <1>4, <1>5 DEF SlotInv, CountersMatchHolders
<1>7. inUse' = inUseBy'["background"] + inUseBy'["batch"] + inUseBy'["interactive"]
  BY <1>1, <1>5 DEF SlotInv, CountersMatchHolders, Priorities, TypeOK
<1>8. CountersBounded'
  BY <1>1, <1>5, ReserveBounds, GateAssumption
  DEF SlotInv, CountersMatchHolders, CountersBounded, Priorities, TypeOK
<1> QED
  BY <1>6, <1>7, <1>8 DEF SlotInv, CountersMatchHolders

LEMMA StepSlotInv == SlotInv /\ [Next]_vars => SlotInv'
<1> SUFFICES ASSUME SlotInv, [Next]_vars
             PROVE  SlotInv'
  OBVIOUS
<1>0. TypeOK /\ TypeOK'
  BY StepTypeOK DEF SlotInv
<1>1. ASSUME NEW t \in Threads, NEW p \in Priorities, NEW b \in Budgets,
             Register(t, p, b)
      PROVE  SlotInv'
  BY <1>0, <1>1, SameHolders DEF Register, Holders, TypeOK
<1>2. ASSUME NEW t \in Threads, Sleep(t)
      PROVE  SlotInv'
  BY <1>0, <1>2, SameHolders DEF Sleep, Holders
<1>3. ASSUME NEW t \in Threads, Withdraw(t)
      PROVE  SlotInv'
  BY <1>0, <1>3, SameHolders DEF Withdraw, MayEvaluate, Holders, TypeOK
<1>4. ASSUME NEW t \in Threads, TimeoutWake(t)
      PROVE  SlotInv'
  BY <1>0, <1>4, SameHolders DEF TimeoutWake, Holders
<1>5. ASSUME NEW t \in Threads, NEW b \in Budgets, ExtendDeadline(t, b)
      PROVE  SlotInv'
  BY <1>0, <1>5, SameHolders DEF ExtendDeadline, Holders
<1>6. ASSUME Tick
      PROVE  SlotInv'
  BY <1>0, <1>6, SameHolders DEF Tick, Holders
<1>7. ASSUME UNCHANGED vars
      PROVE  SlotInv'
  BY <1>0, <1>7, SameHolders DEF vars, Holders
<1> QED
  BY <1>0, <1>1, <1>2, <1>3, <1>4, <1>5, <1>6, <1>7, ClaimSlotInv, ReleaseSlotInv
  DEF Next

LEMMA DisjointUnion ==
  ASSUME NEW A, NEW B, IsFiniteSet(A), IsFiniteSet(B), A \cap B = {}
  PROVE  /\ IsFiniteSet(A \cup B)
         /\ Cardinality(A \cup B) = Cardinality(A) + Cardinality(B)
<1>1. Cardinality(A \cap B) = 0
  BY FS_EmptySet
<1>2. /\ IsFiniteSet(A \cup B)
      /\ Cardinality(A \cup B) = Cardinality(A) + Cardinality(B) - Cardinality(A \cap B)
  BY FS_Union
<1>3. Cardinality(A) \in Nat /\ Cardinality(B) \in Nat
  BY FS_CardinalityType
<1> QED
  BY <1>1, <1>2, <1>3

LEMMA SlotInvPartition == SlotInv => PartitionRespected
<1> SUFFICES ASSUME SlotInv PROVE PartitionRespected
  OBVIOUS
<1> DEFINE bg == Holders("background")
           ba == Holders("batch")
           ia == Holders("interactive")
<1>1. IsFiniteSet(bg) /\ IsFiniteSet(ba) /\ IsFiniteSet(ia)
  BY HoldersFinite
<1>2. bg \cap ba = {} /\ (bg \cup ba) \cap ia = {}
  BY DEF Holders
<1>3. {t \in Threads : pc[t] = "holding"} = (bg \cup ba) \cup ia
  BY DEF Holders, SlotInv, TypeOK, Priorities
<1>4. IsFiniteSet(bg \cup ba)
      /\ Cardinality(bg \cup ba) = Cardinality(bg) + Cardinality(ba)
  BY <1>1, <1>2, DisjointUnion
<1>5. Cardinality((bg \cup ba) \cup ia) = Cardinality(bg \cup ba) + Cardinality(ia)
  BY <1>1, <1>2, <1>4, DisjointUnion
<1> QED
  BY <1>3, <1>4, <1>5
  DEF SlotInv, CountersMatchHolders, CountersBounded, PartitionRespected, Priorities

\* The counters always match the threads that hold a slot.
THEOREM CountersCorrect == Spec => []CountersMatchHolders
<1>1. SlotInv => CountersMatchHolders
  BY DEF SlotInv
<1> QED
  BY <1>1, InitSlotInv, StepSlotInv, PTL DEF Spec

\* Never more jobs than slots, and never one side of the partition in the
\* slots of the other.
THEOREM PartitionCorrect == Spec => []PartitionRespected
BY SlotInvPartition, InitSlotInv, StepSlotInv, PTL DEF Spec

-----------------------------------------------------------------------------
(* Ranking and order.                                                      *)

LEMMA DivMonotone ==
  ASSUME NEW a \in Nat, NEW b \in Nat, NEW n \in Nat \ {0}, a <= b
  PROVE  /\ a \div n \in Nat
         /\ a \div n <= b \div n
         /\ a < n => a \div n = 0
  OBVIOUS

\* An older waiter has waited at least as long.
OrderInv ==
  /\ \A t \in Threads : pc[t] # "waiting" => age[t] = 0
  /\ \A t \in Threads : \A u \in ahead[t] :
       pc[t] = "waiting" /\ pc[u] = "waiting" /\ u # t /\ age[t] <= age[u]

LEMMA InitOrderInv == Init => OrderInv
BY DEF Init, OrderInv

LEMMA StepOrderInv == TypeOK /\ OrderInv /\ [Next]_vars => OrderInv'
<1> USE GateAssumption
<1> SUFFICES ASSUME TypeOK, OrderInv, [Next]_vars
             PROVE  OrderInv'
  OBVIOUS
<1>1. ASSUME NEW t \in Threads, NEW p \in Priorities, NEW b \in Budgets,
             Register(t, p, b)
      PROVE  OrderInv'
  BY <1>1 DEF TypeOK, OrderInv, Register, Waiters
<1>2. ASSUME NEW t \in Threads, Withdraw(t) \/ Claim(t)
      PROVE  OrderInv'
  BY <1>2 DEF TypeOK, OrderInv, Withdraw, Claim, Leave, MayEvaluate
<1>3. ASSUME NEW t \in Threads, Release(t)
      PROVE  OrderInv'
  BY <1>3 DEF TypeOK, OrderInv, Release
<1>4. ASSUME Tick
      PROVE  OrderInv'
  <2>1. \A t \in Threads :
          age'[t] = IF pc[t] = "waiting" /\ age[t] < AgeBound THEN age[t] + 1 ELSE age[t]
    BY <1>4 DEF Tick
  <2> QED
    BY <1>4, <2>1 DEF TypeOK, OrderInv, Tick
<1>5. ASSUME UNCHANGED <<pc, ahead, age>>
      PROVE  OrderInv'
  BY <1>5 DEF OrderInv
<1> QED
  BY <1>1, <1>2, <1>3, <1>4, <1>5
  DEF Next, Sleep, TimeoutWake, ExtendDeadline, vars

LEMMA OlderLevel ==
  ASSUME TypeOK, OrderInv,
         NEW t \in Threads, NEW u \in ahead[t], prio[u] = prio[t]
  PROVE  Outranks(u, t)
<1>1. u \in Threads /\ prio[t] \in Priorities /\ age[t] \in Nat /\ age[u] \in Nat
  BY GateAssumption DEF TypeOK
<1>2. age[t] <= age[u]
  BY DEF OrderInv
<1>3. PriorityValue[prio[t]] \in Nat
  BY <1>1 DEF PriorityValue, Priorities
<1>4. /\ age[t] \div AgingPeriod \in Nat
      /\ age[u] \div AgingPeriod \in Nat
      /\ age[t] \div AgingPeriod <= age[u] \div AgingPeriod
  BY <1>1, <1>2, DivMonotone, GateAssumption
<1>5. Level(t) \in Nat /\ Level(u) \in Nat /\ Level(u) >= Level(t)
  BY <1>3, <1>4 DEF Level
<1> QED
  BY <1>5 DEF Outranks

LEMMA ClaimIsFifo ==
  ASSUME TypeOK, OrderInv, NEW t \in Threads, Claim(t),
         NEW u \in Waiters \cap ahead[t]
  PROVE  prio[u] # prio[t]
<1> SUFFICES ASSUME prio[u] = prio[t] PROVE FALSE
  OBVIOUS
<1>1. IsNext(t) /\ u \in Waiters \ {t}
  BY DEF Claim, OrderInv
<1>2. Eligible(u)
  BY <1>1 DEF IsNext, Eligible
<1>3. Outranks(u, t)
  BY OlderLevel
<1> QED
  BY <1>1, <1>2, <1>3 DEF IsNext

\* First come first served within a priority: aging never lets a newer
\* waiter of the same priority claim a slot before an older one.
THEOREM FifoCorrect == Spec => FifoWithinPriority
<1>1. TypeOK /\ OrderInv /\ [Next]_vars
        => [\A t \in Threads :
              pc[t] = "waiting" /\ pc'[t] = "holding"
                => \A u \in Waiters \cap ahead[t] : prio[u] # prio[t]]_vars
  <2> SUFFICES ASSUME TypeOK, OrderInv, Next,
                      NEW t \in Threads, pc[t] = "waiting", pc'[t] = "holding",
                      NEW u \in Waiters \cap ahead[t]
               PROVE  prio[u] # prio[t]
    BY DEF vars
  <2>1. Claim(t)
    BY DEF Next, Register, Sleep, Withdraw, Claim, Release, TimeoutWake,
           ExtendDeadline, Tick, TypeOK
  <2> QED
    BY <2>1, ClaimIsFifo
<1> QED
  BY <1>1, InitTypeOK, StepTypeOK, InitOrderInv, StepOrderInv, PTL
  DEF Spec, FifoWithinPriority

-----------------------------------------------------------------------------
(* Lost wakeups.                                                           *)

\* Only registered waiters sleep in Condition.wait.
SleepersWait == asleep \subseteq Waiters

LEMMA StepSleepersWait == TypeOK /\ SleepersWait /\ [Next]_vars => SleepersWait'
BY DEF TypeOK, SleepersWait, Waiters, Next, vars, Register, Sleep, Withdraw, Claim,
       Release, TimeoutWake, ExtendDeadline, Tick, NotifyAll, MayEvaluate

\* A waiter that would be admitted after a step at the gate was admitted
\* before it, was registered by it or is awake after it: every step that
\* changes the slots or the waiters wakes everyone, and a new waiter only
\* competes.
LEMMA GateStepKeepsNextAwake ==
  ASSUME TypeOK, SleepersWait, NextWaiterAwake, Next, ~Tick
  PROVE  NextWaiterAwake'
<1>1. ASSUME NEW t \in Threads, NEW p \in Priorities, NEW b \in Budgets,
             Register(t, p, b)
      PROVE  NextWaiterAwake'
  <2> SUFFICES ASSUME NEW u \in Waiters', IsNext(u)', u \in asleep
               PROVE  FALSE
    BY <1>1 DEF NextWaiterAwake, Register
  <2>1. CASE u = t
    BY <1>1, <2>1 DEF TypeOK, SleepersWait, Register, Waiters
  <2>2. CASE u # t
    <3>1. u \in Waiters /\ Waiters' = Waiters \cup {t}
      BY <1>1, <2>2 DEF TypeOK, Register, Waiters
    <3>2. \A v \in Waiters : /\ Eligible(v)' = Eligible(v)
                             /\ Level(v)' = Level(v)
                             /\ ahead'[v] = ahead[v]
      BY <1>1 DEF TypeOK, Register, Waiters, Eligible, Level
    <3>3. IsNext(u)
      BY <3>1, <3>2 DEF IsNext, Outranks
    <3> QED
      BY <3>1, <3>3 DEF NextWaiterAwake
  <2> QED
    BY <2>1, <2>2
<1>2. ASSUME NEW t \in Threads, Sleep(t)
      PROVE  NextWaiterAwake'
  <2>1. \A u \in Waiters : IsNext(u)' = IsNext(u)
    BY <1>2 DEF Sleep, IsNext, Eligible, Outranks, Level, Waiters
  <2> QED
    BY <1>2, <2>1 DEF NextWaiterAwake, Sleep, Waiters
<1>3. ASSUME NEW t \in Threads, Withdraw(t) \/ Claim(t) \/ Release(t)
      PROVE  NextWaiterAwake'
  BY <1>3 DEF NextWaiterAwake, Withdraw, Claim, Release, NotifyAll
<1>4. ASSUME NEW t \in Threads, TimeoutWake(t) \/ \E b \in Budgets : ExtendDeadline(t, b)
      PROVE  NextWaiterAwake'
  <2>1. \A u \in Waiters : IsNext(u)' = IsNext(u)
    BY <1>4 DEF TimeoutWake, ExtendDeadline, IsNext, Eligible, Outranks, Level, Waiters
  <2> QED
    BY <1>4, <2>1 DEF NextWaiterAwake, TimeoutWake, ExtendDeadline, Waiters
<1> QED
  BY <1>1, <1>2, <1>3, <1>4 DEF Next

\* While nobody has waited a whole aging period, the clock changes no level.
LEMMA TickKeepsNextAwake ==
  ASSUME AgeBound < AgingPeriod, TypeOK, TypeOK', NextWaiterAwake, Tick
  PROVE  NextWaiterAwake'
<1>1. \A t \in Threads : age[t] \div AgingPeriod = 0 /\ (age[t])' \div AgingPeriod = 0
  <2> TAKE t \in Threads
  <2>1. age[t] \in Nat /\ age[t] < AgingPeriod /\ (age[t])' \in Nat /\ (age[t])' < AgingPeriod
    BY GateAssumption DEF TypeOK
  <2> QED
    BY <2>1, DivMonotone, GateAssumption
<1>2. \A t \in Threads : Level(t)' = Level(t)
  BY <1>1 DEF Level, Tick
<1>3. \A t \in Waiters : IsNext(t)' = IsNext(t)
  BY <1>2 DEF IsNext, Eligible, Outranks, Waiters, Tick
<1> QED
  BY <1>3 DEF NextWaiterAwake, Waiters, Tick

\* No wakeup is lost as long as no wait crosses an aging period: with such
\* bounds the waiter the gate would admit is never asleep.
THEOREM NoLostWakeup ==
  ASSUME AgeBound < AgingPeriod
  PROVE  Spec => []NextWaiterAwake
<1>1. Init => NextWaiterAwake /\ SleepersWait
  BY DEF Init, NextWaiterAwake, SleepersWait
<1>2. TypeOK /\ TypeOK' /\ SleepersWait /\ NextWaiterAwake /\ [Next]_vars => NextWaiterAwake'
  <2>1. ASSUME UNCHANGED vars, NextWaiterAwake
        PROVE  NextWaiterAwake'
    BY <2>1 DEF vars, NextWaiterAwake, Waiters, IsNext, Eligible, Outranks, Level
  <2> QED
    BY <2>1, GateStepKeepsNextAwake, TickKeepsNextAwake
<1> QED
  BY <1>1, <1>2, InitTypeOK, StepTypeOK, StepSleepersWait, PTL DEF Spec
=============================================================================
