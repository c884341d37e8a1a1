-------------------------- MODULE HeavyLaneProofs --------------------------
(***************************************************************************)
(* Safety of one heavy lane for every set of threads, keys and calls and   *)
(* for every limit.                                                        *)
(***************************************************************************)
EXTENDS HeavyLane, FiniteSetTheorems, TLAPS

Phases == {"idle", "queued", "dispatched", "running", "finishing"}
Ticks == Nat \cup {NoDeadline}
JobRecord == [state : {"free", "live", "done"}, key : Keys \cup {None},
              owner : Threads \cup {None}, prio : Priorities,
              age : 0..AgeBound, followers : Int,
              token : Ticks, outcome : Outcomes \cup {"none"}]

-----------------------------------------------------------------------------
(* Types.                                                                  *)

LEMMA CallType ==
  ASSUME NEW c \in Calls
  PROVE  c.thread \in Threads /\ c.key \in Keys /\ c.prio \in Priorities /\ c.budget \in Ticks
BY LaneAssumption DEF Ticks

LEMMA BlankType == Blank \in JobRecord /\ \A o \in Outcomes \cup {"none"} : Settled(o) \in JobRecord
<1>1. Blank \in JobRecord
  BY LaneAssumption DEF Blank, JobRecord, Priorities, Ticks, NoDeadline
<1>2. ASSUME NEW o \in Outcomes \cup {"none"}
      PROVE  Settled(o) \in JobRecord
  BY <1>1 DEF Settled, JobRecord
<1> QED
  BY <1>1, <1>2

LEMMA LessType == \A d \in Ticks : Less(d) \in Ticks
BY DEF Less, Ticks, NoDeadline

LEMMA LaterType == \A d, e \in Ticks : Later(d, e) \in Ticks
BY DEF Later, Ticks, NoDeadline

LEMMA TypeOKJob == TypeOK => job \in [Jobs -> JobRecord]
BY DEF TypeOK, JobRecord, Ticks

LEMMA InitTypeOK == Init => TypeOK
BY BlankType DEF Init, TypeOK, JobRecord, Ticks, NoDeadline

\* The parts of TypeOK, for the steps that change few of them.
OwnType ==
  /\ phase \in [Threads -> Phases]
  /\ own \in [Threads -> Jobs \cup {None}]
  /\ ownRem \in [Threads -> Ticks]
  /\ detached \in [Threads -> BOOLEAN]
  /\ pending \in [Threads -> Outcomes \cup {"none"}]
FollowType ==
  /\ follow \in [Threads -> Jobs \cup {None}]
  /\ followRem \in [Threads -> Ticks]
WaitType ==
  /\ timer \in [Threads -> Ticks]
  /\ asleep \subseteq Threads
  /\ lock \in Threads \cup {None}
TableType ==
  /\ ahead \in [Jobs -> SUBSET Jobs]
  /\ queue \subseteq Jobs
  /\ inflight \in [Keys -> Jobs \cup {None}]
  /\ active \in [Keys -> Jobs \cup {None}]

LEMMA TypeParts ==
  TypeOK <=> /\ job \in [Jobs -> JobRecord]
             /\ TableType /\ OwnType /\ FollowType /\ WaitType
BY DEF TypeOK, JobRecord, TableType, OwnType, FollowType, WaitType, Ticks, Phases

LEMMA TypePartsNext ==
  TypeOK' <=> /\ job' \in [Jobs -> JobRecord]
              /\ TableType' /\ OwnType' /\ FollowType' /\ WaitType'
BY DEF TypeOK, JobRecord, TableType, OwnType, FollowType, WaitType, Ticks, Phases

LEMMA SettleType ==
  ASSUME TypeOK, NEW j, NEW o \in Outcomes \cup {"none"}, Settle(j, o)
  PROVE  job' \in [Jobs -> JobRecord]
BY TypeParts, BlankType DEF Settle

LEMMA OwnerReturnsType ==
  ASSUME TypeOK, NEW t \in Threads, OwnerReturns(t)
  PROVE  OwnType' /\ timer' \in [Threads -> Ticks] /\ lock' = None
BY TypeParts DEF OwnerReturns, OwnType, WaitType, Phases, Ticks, NoDeadline

LEMMA StepTypeOK == TypeOK /\ [Next]_vars => TypeOK'
<1> USE LaneAssumption
<1> SUFFICES ASSUME TypeOK, [Next]_vars
             PROVE  TypeOK'
  OBVIOUS
<1>0. /\ job \in [Jobs -> JobRecord]
      /\ TableType /\ OwnType /\ FollowType /\ WaitType
  BY TypeParts
<1>1. ASSUME NEW c \in Calls, Join(c.thread, c.key, c.budget)
      PROVE  TypeOK'
  <2> DEFINE t == c.thread  k == c.key  b == c.budget
  <2>1. t \in Threads /\ k \in Keys /\ b \in Ticks
    BY CallType
  <2>2. inflight[k] \in Jobs
    BY <1>0, <1>1, <2>1 DEF Join, TableType
  <2>3. job' \in [Jobs -> JobRecord]
    <3>1. job[inflight[k]] \in JobRecord
      BY <1>0, <2>2
    <3>2. Later(job[inflight[k]].token, b) \in Ticks
      BY <3>1, <2>1, LaterType DEF JobRecord
    <3> QED
      BY <1>0, <1>1, <2>2, <3>1, <3>2 DEF Join, JobRecord
  <2>4. TableType' /\ OwnType' /\ FollowType' /\ WaitType'
    BY <1>0, <1>1, <2>1, <2>2
    DEF Join, TableType, OwnType, FollowType, WaitType, ownVars
  <2> QED
    BY <2>3, <2>4, TypePartsNext
<1>2. ASSUME NEW c \in Calls, Submit(c.thread, c.key, c.prio, c.budget)
      PROVE  TypeOK'
  <2> DEFINE t == c.thread  k == c.key  p == c.prio  b == c.budget
             new == [state |-> "live", key |-> k, owner |-> t, prio |-> p, age |-> 0,
                     followers |-> 0, token |-> b, outcome |-> "none"]
  <2>1. t \in Threads /\ k \in Keys /\ p \in Priorities /\ b \in Ticks
    BY CallType
  <2>2. new \in JobRecord
    BY <2>1 DEF JobRecord
  <2>3. PICK j \in Jobs : /\ job' = [job EXCEPT ![j] = new]
                          /\ ahead' = [ahead EXCEPT ![j] = queue]
                          /\ queue' = queue \cup {j}
                          /\ inflight' = [inflight EXCEPT ![k] = j]
                          /\ own' = [own EXCEPT ![t] = j]
    BY <1>2 DEF Submit, FreeJobs
  <2>4. job' \in [Jobs -> JobRecord]
    BY <1>0, <2>2, <2>3
  <2>5. TableType' /\ OwnType' /\ FollowType' /\ WaitType'
    BY <1>0, <1>2, <2>1, <2>3
    DEF Submit, TableType, OwnType, FollowType, WaitType, followVars, Phases
  <2> QED
    BY <2>4, <2>5, TypePartsNext
<1>3. ASSUME NEW t \in Threads, OwnerWait(t)
      PROVE  TypeOK'
  <2>1. own[t] \in Jobs /\ ownRem[t] \in Ticks
    BY <1>0, <1>3 DEF OwnerWait, OwnerTurn, OwnType
  <2>2. job[own[t]].token \in Ticks
    BY <1>0, <2>1 DEF JobRecord
  <2>3. WaitType'
    BY <1>0, <1>3, <2>1, <2>2 DEF OwnerWait, SleepFor, WaitType
  <2>4. OwnType'
    BY <1>0, <1>3 DEF OwnerWait, OwnType
  <2>5. UNCHANGED <<jobVars, followVars>>
    BY <1>3 DEF OwnerWait
  <2> QED
    BY <1>0, <2>3, <2>4, <2>5, TypePartsNext DEF TableType, FollowType, jobVars, followVars
<1>4. ASSUME NEW t \in Threads, OwnerAbandon(t)
      PROVE  TypeOK'
  <2>1. job' \in [Jobs -> JobRecord] /\ OwnType' /\ WaitType'
    BY <1>4, SettleType, OwnerReturnsType DEF OwnerAbandon, Outcomes, NotifyAll, WaitType
  <2>2. TableType' /\ FollowType'
    BY <1>0, <1>4 DEF OwnerAbandon, Unqueue, TableType, FollowType, followVars
  <2> QED
    BY <2>1, <2>2, TypePartsNext
<1>5. ASSUME NEW t \in Threads, Dispatch(t)
      PROVE  TypeOK'
  <2>1. OwnType'
    BY <1>0, <1>5 DEF Dispatch, OwnType, Phases
  <2>2. TableType' /\ FollowType' /\ WaitType'
    BY <1>0, <1>5
    DEF Dispatch, Unqueue, TableType, OwnType, FollowType, WaitType, followVars, NotifyAll,
        Ticks, NoDeadline
  <2> QED
    BY <1>0, <1>5, <2>1, <2>2, TypePartsNext DEF Dispatch
<1>6. ASSUME NEW t \in Threads, BeginWork(t) \/ \E o \in Outcomes : EndWork(t, o)
      PROVE  TypeOK'
  <2>1. OwnType'
    BY <1>0, <1>6 DEF BeginWork, EndWork, OwnType, Outcomes, Phases
  <2>2. UNCHANGED <<jobVars, followVars, waitVars>>
    BY <1>6 DEF BeginWork, EndWork
  <2> QED
    BY <1>0, <2>1, <2>2, TypePartsNext
    DEF TableType, FollowType, WaitType, jobVars, followVars, waitVars
<1>7. ASSUME NEW t \in Threads, Finish(t)
      PROVE  TypeOK'
  <2>1. pending[t] \in Outcomes \cup {"none"}
    BY <1>0 DEF OwnType
  <2>2. job' \in [Jobs -> JobRecord] /\ OwnType' /\ WaitType'
    BY <1>7, <2>1, SettleType, OwnerReturnsType DEF Finish, NotifyAll, WaitType
  <2>3. TableType' /\ FollowType'
    BY <1>0, <1>7 DEF Finish, TableType, FollowType, followVars
  <2> QED
    BY <2>2, <2>3, TypePartsNext
<1>8. ASSUME NEW t \in Threads, FollowerWait(t)
      PROVE  TypeOK'
  BY <1>0, <1>8, TypePartsNext
  DEF FollowerWait, SleepFor, TableType, OwnType, FollowType, WaitType, jobVars, ownVars, followVars
<1>9. ASSUME NEW t \in Threads, FollowerExpire(t) \/ FollowerReceive(t)
      PROVE  TypeOK'
  <2>1. follow[t] \in Jobs
    BY <1>0, <1>9 DEF FollowerExpire, FollowerReceive, FollowerTurn, FollowType
  <2>2. job' \in [Jobs -> JobRecord]
    BY <1>0, <1>9, <2>1, BlankType DEF FollowerExpire, FollowerReceive, JobRecord
  <2>3. FollowType' /\ WaitType'
    BY <1>0, <1>9
    DEF FollowerExpire, FollowerReceive, FollowerReturns, NotifyAll, FollowType, WaitType,
        Ticks, NoDeadline
  <2>4. TableType' /\ OwnType'
    BY <1>0, <1>9 DEF FollowerExpire, FollowerReceive, TableType, OwnType, ownVars
  <2> QED
    BY <2>2, <2>3, <2>4, TypePartsNext
<1>10. ASSUME NEW t \in Threads, TimeoutWake(t)
       PROVE  TypeOK'
  BY <1>0, <1>10, TypePartsNext
  DEF TimeoutWake, TableType, OwnType, FollowType, WaitType, jobVars, ownVars, followVars
<1>11. ASSUME Tick
       PROVE  TypeOK'
  <2>1. job' \in [Jobs -> JobRecord]
    <3> SUFFICES ASSUME NEW j \in Jobs
                 PROVE  [job[j] EXCEPT !.age = IF j \in queue /\ @ < AgeBound THEN @ + 1 ELSE @,
                                       !.token = Less(@)] \in JobRecord
      BY <1>11 DEF Tick
    <3>1. job[j] \in JobRecord
      BY <1>0
    <3>2. Less(job[j].token) \in Ticks
      BY <3>1, LessType DEF JobRecord
    <3>3. job[j].age \in 0..AgeBound
      BY <3>1 DEF JobRecord
    <3>4. (IF j \in queue /\ job[j].age < AgeBound THEN job[j].age + 1 ELSE job[j].age)
            \in 0..AgeBound
      BY <3>3
    <3> QED
      BY <3>1, <3>2, <3>4 DEF JobRecord
  <2>2. TableType' /\ OwnType' /\ FollowType' /\ WaitType'
    BY <1>0, <1>11, LessType DEF Tick, TableType, OwnType, FollowType, WaitType
  <2> QED
    BY <2>1, <2>2, TypePartsNext
<1>12. ASSUME UNCHANGED vars
       PROVE  TypeOK'
  <2>1. UNCHANGED <<job, ahead, queue, inflight, active, phase, own, ownRem, detached,
                    pending, follow, followRem, timer, asleep, lock>>
    BY <1>12 DEF vars, jobVars, ownVars, followVars, waitVars
  <2>2. TableType' /\ FollowType'
    BY <1>0, <2>1 DEF TableType, FollowType
  <2>3. OwnType'
    BY <1>0, <2>1 DEF OwnType
  <2>4. WaitType'
    BY <1>0, <2>1 DEF WaitType
  <2>5. job' \in [Jobs -> JobRecord]
    BY <1>0, <2>1
  <2> QED
    BY <2>2, <2>3, <2>4, <2>5, TypePartsNext
<1> QED
  BY <1>1, <1>2, <1>3, <1>4, <1>5, <1>6, <1>7, <1>8, <1>9, <1>10, <1>11, <1>12 DEF Next

\* Every behaviour of the lane keeps its variables in their types.
THEOREM TypeCorrect == Spec => []TypeOK
BY InitTypeOK, StepTypeOK, PTL DEF Spec

-----------------------------------------------------------------------------
(* Single flight.  The job table and the threads point at each other: an    *)
(* unfinished job is the one in flight of its key and the one its owner     *)
(* owns; the phase of the owner says whether it is queued or active.        *)

Working == {"dispatched", "running", "finishing"}
Live(j) == job[j].state = "live"

InflightLive == \A k \in Keys : inflight[k] # None => Live(inflight[k]) /\ job[inflight[k]].key = k
LiveOwned ==
  \A j \in Jobs : Live(j) =>
    /\ job[j].key \in Keys /\ inflight[job[j].key] = j
    /\ job[j].owner \in Threads /\ own[job[j].owner] = j
    /\ job[j].outcome = "none"
OwnLive ==
  \A t \in Threads :
    /\ phase[t] = "idle" <=> own[t] = None
    /\ own[t] # None => Live(own[t]) /\ job[own[t]].owner = t
QueueLive == \A j \in queue : Live(j) /\ phase[job[j].owner] = "queued"
ActiveInflight == \A k \in Keys : active[k] # None => active[k] = inflight[k] /\ active[k] \notin queue
PhaseTells ==
  \A t \in Threads :
    /\ phase[t] = "queued" => own[t] \in queue
    /\ phase[t] \in Working => active[job[own[t]].key] = own[t]

TablesAgree == InflightLive /\ LiveOwned /\ OwnLive /\ QueueLive /\ ActiveInflight /\ PhaseTells

\* The inductive invariant.
LaneInv == TypeOK /\ TablesAgree /\ AdmissionBounded

LEMMA TablesAgreeSingleFlight == TypeOK /\ TablesAgree => SingleFlight
<1> SUFFICES ASSUME TypeOK, TablesAgree PROVE SingleFlight
  OBVIOUS
<1> USE LaneAssumption DEF TablesAgree
<1>0. /\ inflight \in [Keys -> Jobs \cup {None}] /\ own \in [Threads -> Jobs \cup {None}]
      /\ phase \in [Threads -> Phases] /\ queue \subseteq Jobs
  BY DEF TypeOK, Phases
<1>1. ASSUME NEW k \in Keys, inflight[k] # None
      PROVE  LET j == inflight[k]
             IN  /\ job[j].state = "live" /\ job[j].key = k
                 /\ active[k] = j <=> j \notin queue
  <2> DEFINE j == inflight[k]
  <2>1. j \in Jobs /\ Live(j) /\ job[j].key = k
    BY <1>0, <1>1 DEF InflightLive
  <2>2. active[k] = j => j \notin queue
    BY <1>1 DEF ActiveInflight
  <2>3. ASSUME j \notin queue
        PROVE  active[k] = j
    <3>1. job[j].owner \in Threads /\ own[job[j].owner] = j /\ j # None
      BY <1>1, <2>1 DEF LiveOwned
    <3>2. phase[job[j].owner] \in Working
      BY <1>0, <2>3, <3>1 DEF OwnLive, PhaseTells, Phases, Working
    <3> QED BY <2>1, <3>1, <3>2 DEF PhaseTells
  <2> QED BY <2>1, <2>2, <2>3 DEF Live
<1>2. \A k \in Keys : active[k] \in {None, inflight[k]}
  BY DEF ActiveInflight
<1>3. \A j \in Jobs : job[j].state = "live" => inflight[job[j].key] = j /\ own[job[j].owner] = j
  BY DEF LiveOwned, Live
<1>4. \A t \in Threads : own[t] # None => job[own[t]].state = "live" /\ job[own[t]].owner = t
  BY DEF OwnLive, Live
<1> QED BY <1>1, <1>2, <1>3, <1>4 DEF SingleFlight

\* A step that leaves the tables alone and changes neither which jobs are
\* unfinished nor what they are, nor which threads are queued or at work.
LEMMA SameTables ==
  ASSUME TypeOK, TablesAgree, AdmissionBounded,
         UNCHANGED <<queue, inflight, active, own>>,
         \A j \in Jobs : job'[j].state = "live" <=> Live(j),
         \A j \in Jobs : Live(j) => /\ job'[j].key = job[j].key
                                    /\ job'[j].owner = job[j].owner
                                    /\ job'[j].outcome = job[j].outcome
                                    /\ job'[j].prio = job[j].prio,
         \A t \in Threads : \/ phase'[t] = phase[t]
                            \/ phase[t] \in Working /\ phase'[t] \in Working
  PROVE  TablesAgree' /\ AdmissionBounded'
<1> USE LaneAssumption DEF TablesAgree
<1>0. /\ inflight \in [Keys -> Jobs \cup {None}] /\ own \in [Threads -> Jobs \cup {None}]
      /\ queue \subseteq Jobs /\ active \in [Keys -> Jobs \cup {None}]
  BY DEF TypeOK
<1>1. InflightLive'
  BY <1>0 DEF InflightLive, Live
<1>2. LiveOwned'
  BY <1>0 DEF LiveOwned, Live
<1>3. OwnLive'
  <2> SUFFICES ASSUME NEW t \in Threads
               PROVE  /\ phase'[t] = "idle" <=> own[t] = None
                      /\ own[t] # None => job'[own[t]].state = "live" /\ job'[own[t]].owner = t
    BY DEF OwnLive, Live
  <2>1. phase'[t] = "idle" <=> phase[t] = "idle"
    BY DEF Working
  <2>2. own[t] # None => own[t] \in Jobs /\ Live(own[t]) /\ job[own[t]].owner = t
    BY <1>0 DEF OwnLive
  <2> QED BY <2>1, <2>2 DEF OwnLive
<1>4. QueueLive'
  BY <1>0 DEF QueueLive, LiveOwned, Live, Working
<1>5. ActiveInflight'
  BY <1>0 DEF ActiveInflight
<1>6. PhaseTells'
  <2> SUFFICES ASSUME NEW t \in Threads
               PROVE  /\ phase'[t] = "queued" => own[t] \in queue
                      /\ phase'[t] \in Working => active[job'[own[t]].key] = own[t]
    BY DEF PhaseTells
  <2>1. /\ phase'[t] = "queued" => phase[t] = "queued"
        /\ phase'[t] \in Working => phase[t] \in Working
    BY DEF Working
  <2>2. phase[t] \in Working => own[t] \in Jobs /\ Live(own[t])
    BY <1>0 DEF OwnLive, Working
  <2> QED BY <2>1, <2>2 DEF PhaseTells
<1>7. AdmissionBounded'
  <2>1. {j \in queue : job'[j].prio # "interactive"} = {j \in queue : job[j].prio # "interactive"}
    BY <1>0 DEF QueueLive
  <2>2. Running' = Running
    BY DEF Running
  <2> QED BY <2>1, <2>2 DEF AdmissionBounded
<1> QED BY <1>1, <1>2, <1>3, <1>4, <1>5, <1>6, <1>7

\* Different unfinished jobs have different keys and owners.
LEMMA LiveDistinct ==
  ASSUME TypeOK, TablesAgree, NEW t \in Threads, own[t] # None
  PROVE  /\ own[t] \in Jobs /\ Live(own[t]) /\ job[own[t]].owner = t
         /\ job[own[t]].key \in Keys /\ inflight[job[own[t]].key] = own[t]
         /\ \A i \in Jobs : Live(i) /\ i # own[t]
               => job[i].key # job[own[t]].key /\ job[i].owner # t
         /\ \A u \in Threads : u # t => own[u] # own[t]
<1> USE LaneAssumption DEF TablesAgree
<1>1. own[t] \in Jobs
  BY DEF TypeOK
<1>2. Live(own[t]) /\ job[own[t]].owner = t
  BY DEF OwnLive
<1>3. job[own[t]].key \in Keys /\ inflight[job[own[t]].key] = own[t]
  BY <1>1, <1>2 DEF LiveOwned
<1>4. \A i \in Jobs : Live(i) /\ i # own[t] => job[i].key # job[own[t]].key /\ job[i].owner # t
  BY <1>3 DEF LiveOwned
<1>5. \A u \in Threads : u # t => own[u] # own[t]
  BY <1>2 DEF OwnLive
<1> QED BY <1>1, <1>2, <1>3, <1>4, <1>5

\* A queue that shrinks, with its priorities, stays within its limits.
LEMMA QueueShrinks ==
  ASSUME TypeOK, AdmissionBounded, queue' \subseteq queue,
         \A i \in queue' : job'[i].prio = job[i].prio,
         Cardinality(Running') <= Capacity
  PROVE  AdmissionBounded'
<1> USE LaneAssumption
<1> DEFINE Low == {j \in queue : job[j].prio # "interactive"}
           LowNext == {j \in queue' : job'[j].prio # "interactive"}
<1>1. IsFiniteSet(queue) /\ IsFiniteSet(Low)
  BY FS_Subset DEF TypeOK
<1>2. LowNext \subseteq Low
  OBVIOUS
<1>3. /\ Cardinality(queue') <= Cardinality(queue) /\ Cardinality(LowNext) <= Cardinality(Low)
      /\ Cardinality(queue) \in Nat /\ Cardinality(Low) \in Nat
      /\ Cardinality(queue') \in Nat /\ Cardinality(LowNext) \in Nat
  BY <1>1, <1>2, FS_Subset, FS_CardinalityType
<1> QED BY <1>3 DEF AdmissionBounded

\* An owner leaves with its job: it gives up, or the work has ended.
LEMMA Leaves ==
  ASSUME TypeOK, TablesAgree, AdmissionBounded,
         NEW t \in Threads, own[t] # None, NEW o, Settle(own[t], o), OwnerReturns(t),
         queue' = queue \ {own[t]},
         inflight' = [inflight EXCEPT ![job[own[t]].key] = None],
         active' = [active EXCEPT ![job[own[t]].key] = None]
  PROVE  TablesAgree' /\ AdmissionBounded'
<1> USE LaneAssumption DEF TablesAgree
<1> DEFINE j == own[t]  k == job[j].key
<1>0. /\ inflight \in [Keys -> Jobs \cup {None}] /\ own \in [Threads -> Jobs \cup {None}]
      /\ queue \subseteq Jobs /\ active \in [Keys -> Jobs \cup {None}]
      /\ phase \in [Threads -> Phases] /\ job \in [Jobs -> JobRecord]
  BY TypeParts DEF TableType, OwnType
<1>1. /\ j \in Jobs /\ Live(j) /\ job[j].owner = t /\ k \in Keys /\ inflight[k] = j
      /\ \A i \in Jobs : Live(i) /\ i # j => job[i].key # k /\ job[i].owner # t
      /\ \A u \in Threads : u # t => own[u] # j
  BY LiveDistinct
<1>2. job'[j].state # "live" /\ \A i \in Jobs : i # j => job'[i] = job[i]
  BY <1>0, <1>1 DEF Settle, Settled, Blank
<1>3. /\ own' = [own EXCEPT ![t] = None]
      /\ phase' = [phase EXCEPT ![t] = "idle"]
  BY DEF OwnerReturns
<1> HIDE DEF j, k
<1>4. InflightLive'
  <2> SUFFICES ASSUME NEW h \in Keys, inflight'[h] # None
               PROVE  job'[inflight'[h]].state = "live" /\ job'[inflight'[h]].key = h
    BY DEF InflightLive, Live
  <2>1. h # k /\ inflight'[h] = inflight[h] /\ inflight[h] \in Jobs
    BY <1>0, <1>1 DEF j, k
  <2>2. job[inflight[h]].state = "live" /\ job[inflight[h]].key = h
    BY <2>1 DEF InflightLive, Live
  <2>3. inflight[h] # j
    BY <2>1, <2>2 DEF k
  <2> QED BY <1>2, <2>1, <2>2, <2>3
<1>5. LiveOwned'
  <2> SUFFICES ASSUME NEW i \in Jobs, job'[i].state = "live"
               PROVE  /\ job'[i].key \in Keys /\ inflight'[job'[i].key] = i
                      /\ job'[i].owner \in Threads /\ own'[job'[i].owner] = i
                      /\ job'[i].outcome = "none"
    BY DEF LiveOwned, Live
  <2>1. i # j /\ job'[i] = job[i] /\ Live(i)
    BY <1>2 DEF Live
  <2>2. job[i].key # k /\ job[i].owner # t
    BY <1>1, <2>1
  <2> QED BY <1>0, <1>3, <2>1, <2>2 DEF LiveOwned, k, j
<1>6. OwnLive'
  <2> SUFFICES ASSUME NEW u \in Threads
               PROVE  /\ phase'[u] = "idle" <=> own'[u] = None
                      /\ own'[u] # None => job'[own'[u]].state = "live" /\ job'[own'[u]].owner = u
    BY DEF OwnLive, Live
  <2>1. CASE u = t
    BY <1>0, <1>3, <2>1
  <2>2. CASE u # t
    <3>1. own'[u] = own[u] /\ phase'[u] = phase[u] /\ own[u] # j
      BY <1>0, <1>1, <1>3, <2>2
    <3>2. own[u] # None => own[u] \in Jobs /\ job'[own[u]] = job[own[u]]
      BY <1>0, <1>2, <3>1
    <3> QED BY <3>1, <3>2 DEF OwnLive, Live
  <2> QED BY <2>1, <2>2
<1>7. QueueLive'
  <2> SUFFICES ASSUME NEW i \in queue'
               PROVE  job'[i].state = "live" /\ phase'[job'[i].owner] = "queued"
    BY DEF QueueLive, Live
  <2>1. i \in queue /\ i \in Jobs /\ i # j /\ job'[i] = job[i]
    BY <1>0, <1>2 DEF j
  <2>2. Live(i) /\ phase[job[i].owner] = "queued" /\ job[i].owner \in Threads /\ job[i].owner # t
    BY <1>1, <2>1 DEF QueueLive, LiveOwned
  <2> QED BY <1>0, <1>3, <2>1, <2>2 DEF Live
<1>8. ActiveInflight'
  <2> SUFFICES ASSUME NEW h \in Keys, active'[h] # None
               PROVE  active'[h] = inflight'[h] /\ active'[h] \notin queue'
    BY DEF ActiveInflight
  <2>1. h # k
    BY <1>0, <1>1 DEF j, k
  <2>2. active'[h] = active[h] /\ inflight'[h] = inflight[h]
    BY <1>0, <2>1 DEF j, k
  <2> QED BY <2>2 DEF ActiveInflight
<1>9. PhaseTells'
  <2> SUFFICES ASSUME NEW u \in Threads, u # t
               PROVE  /\ phase[u] = "queued" => own[u] \in queue'
                      /\ phase[u] \in Working => active'[job'[own[u]].key] = own[u]
    BY <1>0, <1>3 DEF PhaseTells, Working
  <2>1. own[u] # j
    BY <1>1
  <2>2. phase[u] \in Working => /\ own[u] \in Jobs /\ job'[own[u]] = job[own[u]]
                               /\ job[own[u]].key \in Keys /\ job[own[u]].key # k
    <3> SUFFICES ASSUME phase[u] \in Working
                 PROVE  /\ own[u] \in Jobs /\ job'[own[u]] = job[own[u]]
                        /\ job[own[u]].key \in Keys /\ job[own[u]].key # k
      OBVIOUS
    <3>1. own[u] # None
      BY DEF OwnLive, Working
    <3>2. own[u] \in Jobs /\ Live(own[u])
      BY <1>0, <3>1 DEF OwnLive
    <3>3. job'[own[u]] = job[own[u]] /\ job[own[u]].key # k
      BY <1>1, <1>2, <2>1, <3>2
    <3>4. job[own[u]].key \in Keys
      BY <3>2 DEF LiveOwned
    <3> QED BY <3>2, <3>3, <3>4
  <2>3. phase[u] = "queued" => own[u] \in queue'
    BY <2>1 DEF PhaseTells, j
  <2>4. ASSUME phase[u] \in Working
        PROVE  active'[job'[own[u]].key] = own[u]
    <3>1. active[job[own[u]].key] = own[u]
      BY <2>4 DEF PhaseTells
    <3> QED BY <1>0, <2>2, <2>4, <3>1 DEF j, k
  <2> QED BY <2>3, <2>4
<1>10. AdmissionBounded'
  <2>1. Running' \subseteq Running
    BY <1>0, <1>1 DEF Running, j, k
  <2>2. IsFiniteSet(Running) /\ Cardinality(Running) <= Capacity
    BY FS_Subset DEF Running, AdmissionBounded
  <2>3. Cardinality(Running') <= Capacity
    BY <2>1, <2>2, FS_Subset, FS_CardinalityType
  <2>4. \A i \in queue' : job'[i].prio = job[i].prio
    BY <1>0, <1>2 DEF j
  <2> QED BY <2>3, <2>4, QueueShrinks
<1> QED BY <1>4, <1>5, <1>6, <1>7, <1>8, <1>9, <1>10

LEMMA SubmitTables ==
  ASSUME TypeOK, TablesAgree, AdmissionBounded, NEW c \in Calls,
         Submit(c.thread, c.key, c.prio, c.budget)
  PROVE  TablesAgree' /\ AdmissionBounded'
<1> USE LaneAssumption DEF TablesAgree
<1> DEFINE t == c.thread  k == c.key  p == c.prio  b == c.budget
           new == [state |-> "live", key |-> k, owner |-> t, prio |-> p, age |-> 0,
                   followers |-> 0, token |-> b, outcome |-> "none"]
<1>0. /\ inflight \in [Keys -> Jobs \cup {None}] /\ own \in [Threads -> Jobs \cup {None}]
      /\ queue \subseteq Jobs /\ active \in [Keys -> Jobs \cup {None}]
      /\ phase \in [Threads -> Phases] /\ job \in [Jobs -> JobRecord]
  BY TypeParts DEF TableType, OwnType
<1>1. t \in Threads /\ k \in Keys /\ p \in Priorities
  BY CallType
<1>2. PICK j \in Jobs : /\ job[j].state = "free"
                       /\ job' = [job EXCEPT ![j] = new]
                       /\ queue' = queue \cup {j}
                       /\ inflight' = [inflight EXCEPT ![k] = j]
                       /\ own' = [own EXCEPT ![t] = j]
  BY DEF Submit, FreeJobs
<1>3. /\ inflight[k] = None /\ active' = active /\ phase' = [phase EXCEPT ![t] = "queued"]
      /\ phase[t] = "idle" \/ phase[t] = "running"
      /\ \A r \in Running : job[active[r]].owner # t
      /\ Cardinality(queue) < QueueCapacity + (IF p = "interactive" THEN InteractiveReserve ELSE 0)
  BY DEF Submit, MayCall
<1> HIDE DEF t, k, p, b
\* Work of this thread would be in Running, so the thread is idle.
<1>4. phase[t] = "idle" /\ own[t] = None
  <2>1. ASSUME phase[t] = "running" PROVE FALSE
    <3>1. own[t] # None /\ own[t] \in Jobs /\ Live(own[t]) /\ job[own[t]].owner = t
      BY <1>0, <1>1, <2>1 DEF OwnLive
    <3>2. job[own[t]].key \in Keys /\ active[job[own[t]].key] = own[t]
      BY <1>1, <2>1, <3>1 DEF LiveOwned, PhaseTells, Working
    <3> QED BY <1>3, <3>1, <3>2 DEF Running
  <2> QED BY <1>1, <1>3, <2>1 DEF OwnLive
<1>5. /\ j \notin queue /\ j # None
      /\ \A h \in Keys : inflight[h] # j /\ active[h] # j
      /\ \A u \in Threads : own[u] # j
  BY <1>0, <1>2 DEF QueueLive, InflightLive, OwnLive, ActiveInflight, Live
<1>6. \A i \in Jobs : Live(i) => job[i].owner # t /\ job[i].key # k
  BY <1>3, <1>4 DEF LiveOwned
<1>7. /\ job'[j] = new /\ \A i \in Jobs : i # j => job'[i] = job[i]
      /\ new.state = "live" /\ new.key = k /\ new.owner = t /\ new.outcome = "none" /\ new.prio = p
  BY <1>0, <1>2
<1>8. InflightLive'
  <2> SUFFICES ASSUME NEW h \in Keys, inflight'[h] # None
               PROVE  job'[inflight'[h]].state = "live" /\ job'[inflight'[h]].key = h
    BY DEF InflightLive, Live
  <2>1. CASE h = k
    BY <1>0, <1>1, <1>2, <1>7, <2>1
  <2>2. CASE h # k
    BY <1>0, <1>1, <1>2, <1>5, <1>7, <2>2 DEF InflightLive, Live
  <2> QED BY <2>1, <2>2
<1>9. LiveOwned'
  <2> SUFFICES ASSUME NEW i \in Jobs, job'[i].state = "live"
               PROVE  /\ job'[i].key \in Keys /\ inflight'[job'[i].key] = i
                      /\ job'[i].owner \in Threads /\ own'[job'[i].owner] = i
                      /\ job'[i].outcome = "none"
    BY DEF LiveOwned, Live
  <2>1. CASE i = j
    BY <1>0, <1>1, <1>2, <1>7, <2>1
  <2>2. CASE i # j
    <3>1. job'[i] = job[i] /\ Live(i)
      BY <1>7, <2>2 DEF Live
    <3>2. job[i].owner # t /\ job[i].key # k
      BY <1>6, <3>1
    <3>3. /\ job[i].key \in Keys /\ inflight[job[i].key] = i
          /\ job[i].owner \in Threads /\ own[job[i].owner] = i
          /\ job[i].outcome = "none"
      BY <3>1 DEF LiveOwned
    <3> QED BY <1>0, <1>2, <3>1, <3>2, <3>3
  <2> QED BY <2>1, <2>2
<1>10. OwnLive'
  <2> SUFFICES ASSUME NEW u \in Threads
               PROVE  /\ phase'[u] = "idle" <=> own'[u] = None
                      /\ own'[u] # None => job'[own'[u]].state = "live" /\ job'[own'[u]].owner = u
    BY DEF OwnLive, Live
  <2>1. CASE u = t
    BY <1>0, <1>2, <1>3, <1>5, <1>7, <2>1
  <2>2. CASE u # t
    BY <1>0, <1>2, <1>3, <1>5, <1>7, <2>2 DEF OwnLive, Live
  <2> QED BY <2>1, <2>2
<1>11. QueueLive'
  <2> SUFFICES ASSUME NEW i \in queue'
               PROVE  job'[i].state = "live" /\ phase'[job'[i].owner] = "queued"
    BY DEF QueueLive, Live
  <2>1. CASE i = j
    BY <1>0, <1>1, <1>3, <1>7, <2>1
  <2>2. CASE i # j
    <3>1. i \in queue /\ i \in Jobs /\ job'[i] = job[i]
      BY <1>0, <1>2, <1>7, <2>2
    <3>2. Live(i) /\ phase[job[i].owner] = "queued" /\ job[i].owner \in Threads /\ job[i].owner # t
      BY <1>6, <3>1 DEF QueueLive, LiveOwned
    <3> QED BY <1>0, <1>3, <3>1, <3>2 DEF Live
  <2> QED BY <2>1, <2>2
<1>12. ActiveInflight'
  <2> SUFFICES ASSUME NEW h \in Keys, active[h] # None
               PROVE  active[h] = inflight'[h] /\ active[h] \notin queue'
    BY <1>3 DEF ActiveInflight
  <2>1. h # k
    BY <1>3 DEF ActiveInflight
  <2> QED BY <1>0, <1>2, <1>5, <2>1 DEF ActiveInflight
<1>13. PhaseTells'
  <2> SUFFICES ASSUME NEW u \in Threads
               PROVE  /\ phase'[u] = "queued" => own'[u] \in queue'
                      /\ phase'[u] \in Working => active[job'[own'[u]].key] = own'[u]
    BY <1>3 DEF PhaseTells
  <2>1. CASE u = t
    BY <1>0, <1>2, <1>3, <2>1 DEF Working
  <2>2. CASE u # t
    <3>1. own'[u] = own[u] /\ phase'[u] = phase[u]
      BY <1>0, <1>2, <1>3, <2>2
    <3>2. ASSUME phase[u] \in Working
          PROVE  own[u] \in Jobs /\ job'[own[u]] = job[own[u]]
      <4>1. own[u] # None
        BY <3>2 DEF OwnLive, Working
      <4>2. own[u] \in Jobs /\ own[u] # j
        BY <1>0, <1>5, <4>1
      <4> QED BY <1>7, <4>2
    <3> QED BY <1>2, <3>1, <3>2 DEF PhaseTells
  <2> QED BY <2>1, <2>2
<1>14. AdmissionBounded'
  <2> DEFINE Low == {i \in queue : job[i].prio # "interactive"}
             LowNext == {i \in queue' : job'[i].prio # "interactive"}
  <2>1. Running' = Running
    BY <1>3 DEF Running
  <2>2. IsFiniteSet(queue) /\ IsFiniteSet(Low)
    BY <1>0, FS_Subset
  <2>3. Cardinality(queue') = Cardinality(queue) + 1 /\ Cardinality(queue) \in Nat
    BY <1>2, <1>5, <2>2, FS_AddElement, FS_CardinalityType
  <2>4. Cardinality(Low) \in Nat /\ Cardinality(Low) <= Cardinality(queue)
    BY <2>2, FS_Subset, FS_CardinalityType
  <2>5. Cardinality(LowNext) <= QueueCapacity
    <3>1. CASE p = "interactive"
      <4>1. LowNext = Low
        BY <1>0, <1>2, <1>5, <1>7, <3>1
      <4> QED BY <4>1 DEF AdmissionBounded
    <3>2. CASE p # "interactive"
      <4>1. LowNext = Low \cup {j} /\ j \notin Low
        BY <1>0, <1>2, <1>5, <1>7, <3>2
      <4>2. Cardinality(LowNext) = Cardinality(Low) + 1
        BY <2>2, <4>1, FS_AddElement
      <4> QED BY <1>3, <2>3, <2>4, <3>2, <4>2
    <3> QED BY <3>1, <3>2
  <2>6. Cardinality(queue') <= QueueCapacity + InteractiveReserve
    BY <1>3, <2>3
  <2> QED BY <2>1, <2>5, <2>6 DEF AdmissionBounded
<1> QED BY <1>8, <1>9, <1>10, <1>11, <1>12, <1>13, <1>14

LEMMA DispatchTables ==
  ASSUME TypeOK, TablesAgree, AdmissionBounded, NEW t \in Threads, Dispatch(t)
  PROVE  TablesAgree' /\ AdmissionBounded'
<1> USE LaneAssumption DEF TablesAgree
<1> DEFINE j == own[t]  k == job[j].key
<1>0. /\ inflight \in [Keys -> Jobs \cup {None}] /\ own \in [Threads -> Jobs \cup {None}]
      /\ queue \subseteq Jobs /\ active \in [Keys -> Jobs \cup {None}]
      /\ phase \in [Threads -> Phases] /\ job \in [Jobs -> JobRecord]
  BY TypeParts DEF TableType, OwnType
<1>1. /\ own[t] # None /\ phase[t] = "queued" /\ queue' = queue \ {j}
      /\ active' = [active EXCEPT ![k] = j] /\ phase' = [phase EXCEPT ![t] = "dispatched"]
      /\ UNCHANGED <<job, inflight, own>>
      /\ ~(Cardinality(Running) >= Capacity)
  BY DEF Dispatch, OwnerTurn, Unqueue, Blocked
<1>2. /\ j \in Jobs /\ Live(j) /\ job[j].owner = t /\ k \in Keys /\ inflight[k] = j
      /\ \A i \in Jobs : Live(i) /\ i # j => job[i].key # k /\ job[i].owner # t
      /\ \A u \in Threads : u # t => own[u] # j
  BY <1>1, LiveDistinct
<1> HIDE DEF j, k
<1>3. InflightLive' /\ LiveOwned'
  BY <1>1 DEF InflightLive, LiveOwned, Live
<1>4. OwnLive'
  <2> SUFFICES ASSUME NEW u \in Threads
               PROVE  phase'[u] = "idle" <=> own[u] = None
    BY <1>1 DEF OwnLive, Live
  <2>1. CASE u = t
    BY <1>0, <1>1, <2>1
  <2>2. CASE u # t
    BY <1>0, <1>1, <2>2 DEF OwnLive
  <2> QED BY <2>1, <2>2
<1>5. QueueLive'
  <2> SUFFICES ASSUME NEW i \in queue, i # j
               PROVE  job[i].state = "live" /\ phase'[job[i].owner] = "queued"
    BY <1>1 DEF QueueLive, Live
  <2>1. Live(i) /\ i \in Jobs /\ phase[job[i].owner] = "queued"
    BY <1>0 DEF QueueLive
  <2>2. job[i].owner \in Threads /\ job[i].owner # t
    BY <1>2, <2>1 DEF LiveOwned
  <2> QED BY <1>0, <1>1, <2>1, <2>2 DEF Live
<1>6. ActiveInflight'
  <2> SUFFICES ASSUME NEW h \in Keys, active'[h] # None
               PROVE  active'[h] = inflight[h] /\ active'[h] \notin queue'
    BY <1>1 DEF ActiveInflight
  <2>1. CASE h = k
    BY <1>0, <1>1, <1>2, <2>1
  <2>2. CASE h # k
    BY <1>0, <1>1, <2>2 DEF ActiveInflight
  <2> QED BY <2>1, <2>2
<1>7. PhaseTells'
  <2> SUFFICES ASSUME NEW u \in Threads
               PROVE  /\ phase'[u] = "queued" => own[u] \in queue'
                      /\ phase'[u] \in Working => active'[job[own[u]].key] = own[u]
    BY <1>1 DEF PhaseTells
  <2>1. CASE u = t
    BY <1>0, <1>1, <1>2, <2>1 DEF j, k
  <2>2. CASE u # t
    <3>1. phase'[u] = phase[u] /\ own[u] # j
      BY <1>0, <1>1, <1>2, <2>2
    <3>2. phase[u] = "queued" => own[u] \in queue'
      BY <1>1, <3>1 DEF PhaseTells
    <3>3. ASSUME phase[u] \in Working
          PROVE  active'[job[own[u]].key] = own[u]
      <4>1. own[u] # None
        BY <3>3 DEF OwnLive, Working
      <4>2. own[u] \in Jobs /\ Live(own[u])
        BY <1>0, <4>1 DEF OwnLive
      <4>3. job[own[u]].key # k /\ job[own[u]].key \in Keys
        BY <1>2, <3>1, <4>2 DEF LiveOwned
      <4>4. active[job[own[u]].key] = own[u]
        BY <3>3 DEF PhaseTells
      <4> QED BY <1>0, <1>1, <4>3, <4>4
    <3> QED BY <3>1, <3>2, <3>3
  <2> QED BY <2>1, <2>2
<1>8. AdmissionBounded'
  <2>1. Running' \subseteq Running \cup {k} /\ IsFiniteSet(Running)
    BY <1>0, <1>1, FS_Subset DEF Running
  <2>2. /\ IsFiniteSet(Running \cup {k})
        /\ Cardinality(Running \cup {k}) <= Cardinality(Running) + 1
        /\ Cardinality(Running) \in Nat
    <3>1. Cardinality(Running) \in Nat
      BY <2>1, FS_CardinalityType
    <3>2. /\ IsFiniteSet(Running \cup {k})
          /\ Cardinality(Running \cup {k})
               = IF k \in Running THEN Cardinality(Running) ELSE Cardinality(Running) + 1
      BY <2>1, FS_AddElement, Zenon
    <3> QED BY <3>1, <3>2
  <2>3. Cardinality(Running') <= Cardinality(Running \cup {k}) /\ Cardinality(Running') \in Nat
        /\ Cardinality(Running \cup {k}) \in Nat
    BY <2>1, <2>2, FS_Subset, FS_CardinalityType
  <2>4. Cardinality(Running') <= Capacity
    BY <1>1, <2>2, <2>3
  <2> QED BY <1>1, <2>4, QueueShrinks
<1> QED BY <1>3, <1>4, <1>5, <1>6, <1>7, <1>8

LEMMA TablesInit == Init => TablesAgree /\ AdmissionBounded
<1> SUFFICES ASSUME Init PROVE TablesAgree /\ AdmissionBounded
  OBVIOUS
<1> USE LaneAssumption DEF Init
<1>1. InflightLive /\ LiveOwned /\ OwnLive /\ QueueLive /\ ActiveInflight /\ PhaseTells
  BY DEF InflightLive, LiveOwned, OwnLive, QueueLive, ActiveInflight, PhaseTells, Live, Blank, Working
<1>2. Running = {} /\ {j \in queue : job[j].prio # "interactive"} = {}
  BY DEF Running
<1> QED BY <1>1, <1>2, FS_EmptySet DEF TablesAgree, AdmissionBounded

LEMMA TablesStep == LaneInv /\ [Next]_vars => TablesAgree' /\ AdmissionBounded'
<1> SUFFICES ASSUME TypeOK, TablesAgree, AdmissionBounded, [Next]_vars
             PROVE  TablesAgree' /\ AdmissionBounded'
  BY DEF LaneInv
<1> USE LaneAssumption
<1>0. /\ inflight \in [Keys -> Jobs \cup {None}] /\ own \in [Threads -> Jobs \cup {None}]
      /\ queue \subseteq Jobs /\ active \in [Keys -> Jobs \cup {None}]
      /\ phase \in [Threads -> Phases] /\ job \in [Jobs -> JobRecord]
      /\ follow \in [Threads -> Jobs \cup {None}]
  BY TypeParts DEF TableType, OwnType, FollowType
<1>a. ASSUME UNCHANGED <<queue, inflight, active, own, phase>>,
             \A i \in Jobs : /\ job'[i].state = job[i].state /\ job'[i].key = job[i].key
                             /\ job'[i].owner = job[i].owner /\ job'[i].outcome = job[i].outcome
                             /\ job'[i].prio = job[i].prio
      PROVE  TablesAgree' /\ AdmissionBounded'
  BY <1>a, SameTables DEF Live
<1>1. ASSUME NEW c \in Calls, Join(c.thread, c.key, c.budget)
      PROVE  TablesAgree' /\ AdmissionBounded'
  <2>1. c.key \in Keys /\ inflight[c.key] # None
    BY <1>1, CallType DEF Join
  <2>2. inflight[c.key] \in Jobs
    BY <1>0, <2>1
  <2>3. \A i \in Jobs : /\ job'[i].state = job[i].state /\ job'[i].key = job[i].key
                        /\ job'[i].owner = job[i].owner /\ job'[i].outcome = job[i].outcome
                        /\ job'[i].prio = job[i].prio
    BY <1>0, <1>1, <2>2 DEF Join, JobRecord
  <2> QED BY <1>1, <1>a, <2>3 DEF Join, ownVars
<1>2. ASSUME NEW c \in Calls, Submit(c.thread, c.key, c.prio, c.budget)
      PROVE  TablesAgree' /\ AdmissionBounded'
  BY <1>2, SubmitTables
<1>3. ASSUME NEW t \in Threads, OwnerAbandon(t)
      PROVE  TablesAgree' /\ AdmissionBounded'
  <2>1. own[t] # None /\ phase[t] = "queued" /\ Settle(own[t], "deadline") /\ OwnerReturns(t)
        /\ queue' = queue \ {own[t]} /\ active' = active
        /\ inflight' = [inflight EXCEPT ![job[own[t]].key] = None]
    BY <1>3 DEF OwnerAbandon, OwnerTurn, Unqueue
  <2>2. job[own[t]].key \in Keys /\ inflight[job[own[t]].key] = own[t]
    BY <2>1, LiveDistinct
  <2>3. own[t] \in queue
    BY <2>1 DEF TablesAgree, PhaseTells
  <2>4. active[job[own[t]].key] = None
    BY <1>0, <2>2, <2>3 DEF TablesAgree, ActiveInflight
  <2>5. active' = [active EXCEPT ![job[own[t]].key] = None]
    BY <1>0, <2>1, <2>4
  <2> QED BY <2>1, <2>5, Leaves
<1>4. ASSUME NEW t \in Threads, Finish(t)
      PROVE  TablesAgree' /\ AdmissionBounded'
  <2>1. /\ phase[t] = "finishing" /\ Settle(own[t], pending[t]) /\ OwnerReturns(t)
        /\ UNCHANGED queue
        /\ active' = [active EXCEPT ![job[own[t]].key] = IF @ = own[t] THEN None ELSE @]
        /\ inflight' = [inflight EXCEPT ![job[own[t]].key] = IF @ = own[t] THEN None ELSE @]
    BY <1>4 DEF Finish
  <2>2. own[t] # None
    BY <2>1 DEF TablesAgree, OwnLive
  <2>3. job[own[t]].key \in Keys /\ inflight[job[own[t]].key] = own[t]
    BY <2>2, LiveDistinct
  <2>4. active[job[own[t]].key] = own[t]
    BY <2>1 DEF TablesAgree, PhaseTells, Working
  <2>5. own[t] \notin queue
    BY <2>2, <2>3, <2>4 DEF TablesAgree, ActiveInflight
  <2>6. /\ queue' = queue \ {own[t]}
        /\ inflight' = [inflight EXCEPT ![job[own[t]].key] = None]
        /\ active' = [active EXCEPT ![job[own[t]].key] = None]
    BY <2>1, <2>3, <2>4, <2>5
  <2> QED BY <2>1, <2>2, <2>6, Leaves
<1>5. ASSUME NEW t \in Threads, Dispatch(t)
      PROVE  TablesAgree' /\ AdmissionBounded'
  BY <1>5, DispatchTables
<1>6. ASSUME NEW t \in Threads, BeginWork(t) \/ \E o \in Outcomes : EndWork(t, o)
      PROVE  TablesAgree' /\ AdmissionBounded'
  <2>1. \A u \in Threads : phase'[u] = phase[u] \/ (phase[u] \in Working /\ phase'[u] \in Working)
    BY <1>0, <1>6 DEF BeginWork, EndWork, Working
  <2>2. UNCHANGED <<job, queue, inflight, active, own>>
    BY <1>6 DEF BeginWork, EndWork, jobVars
  <2> QED BY <2>1, <2>2, SameTables DEF Live
<1>7. ASSUME NEW t \in Threads, FollowerExpire(t)
      PROVE  TablesAgree' /\ AdmissionBounded'
  <2>1. follow[t] \in Jobs
    BY <1>0, <1>7 DEF FollowerExpire, FollowerTurn
  <2>2. \A i \in Jobs : /\ job'[i].state = job[i].state /\ job'[i].key = job[i].key
                        /\ job'[i].owner = job[i].owner /\ job'[i].outcome = job[i].outcome
                        /\ job'[i].prio = job[i].prio
    BY <1>0, <1>7, <2>1 DEF FollowerExpire, JobRecord
  <2> QED BY <1>7, <1>a, <2>2 DEF FollowerExpire, ownVars
<1>8. ASSUME NEW t \in Threads, FollowerReceive(t)
      PROVE  TablesAgree' /\ AdmissionBounded'
  <2>a. follow[t] \in Jobs /\ job[follow[t]].outcome # "none"
    BY <1>0, <1>8 DEF FollowerReceive, FollowerTurn
  <2>b. LiveOwned
    BY DEF TablesAgree
  <2>1. follow[t] \in Jobs /\ ~Live(follow[t])
    BY <2>a, <2>b DEF LiveOwned
  <2>2. \A i \in Jobs : job'[i] = job[i] \/ (i = follow[t] /\ job'[i] = Blank)
    BY <1>0, <1>8, <2>1 DEF FollowerReceive
  <2>3. Blank.state # "live"
    BY DEF Blank
  <2>4. \A i \in Jobs : job'[i].state = "live" <=> Live(i)
    BY <2>1, <2>2, <2>3 DEF Live
  <2>5. \A i \in Jobs : Live(i) => job'[i] = job[i]
    BY <2>1, <2>2
  <2>6. UNCHANGED <<queue, inflight, active, own, phase>>
    BY <1>8 DEF FollowerReceive, ownVars
  <2> QED BY <2>4, <2>5, <2>6, SameTables
<1>9. ASSUME Tick
      PROVE  TablesAgree' /\ AdmissionBounded'
  <2>1. \A i \in Jobs : /\ job'[i].state = job[i].state /\ job'[i].key = job[i].key
                        /\ job'[i].owner = job[i].owner /\ job'[i].outcome = job[i].outcome
                        /\ job'[i].prio = job[i].prio
    <3> SUFFICES ASSUME NEW i \in Jobs
                 PROVE  /\ job'[i].state = job[i].state /\ job'[i].key = job[i].key
                        /\ job'[i].owner = job[i].owner /\ job'[i].outcome = job[i].outcome
                        /\ job'[i].prio = job[i].prio
      OBVIOUS
    <3>1. job'[i] = [job[i] EXCEPT !.age = IF i \in queue /\ @ < AgeBound THEN @ + 1 ELSE @,
                                   !.token = Less(@)]
      BY <1>9 DEF Tick
    <3>2. job[i] \in JobRecord
      BY <1>0
    <3> QED BY <3>1, <3>2 DEF JobRecord
  <2> QED BY <1>9, <1>a, <2>1 DEF Tick
<1>10. ASSUME UNCHANGED <<job, queue, inflight, active, own, phase>>
       PROVE  TablesAgree' /\ AdmissionBounded'
  BY <1>10, <1>a
<1>11. ASSUME NEW t \in Threads, OwnerWait(t) \/ FollowerWait(t) \/ TimeoutWake(t)
       PROVE  TablesAgree' /\ AdmissionBounded'
  BY <1>10, <1>11 DEF OwnerWait, FollowerWait, TimeoutWake, jobVars, ownVars
<1>12. ASSUME UNCHANGED vars
       PROVE  TablesAgree' /\ AdmissionBounded'
  BY <1>10, <1>12 DEF vars, jobVars, ownVars
<1> QED
  BY <1>1, <1>2, <1>3, <1>4, <1>5, <1>6, <1>7, <1>8, <1>9, <1>11, <1>12 DEF Next

LEMMA LaneInvariant == Spec => []LaneInv
<1>1. Init => LaneInv
  BY InitTypeOK, TablesInit DEF LaneInv
<1>2. LaneInv /\ [Next]_vars => LaneInv'
  BY StepTypeOK, TablesStep DEF LaneInv
<1> QED BY <1>1, <1>2, PTL DEF Spec

\* No key is computed twice at a time: every unfinished job is the one in
\* flight of its key, queued or active, in the hands of one thread.
THEOREM SingleFlightCorrect == Spec => []SingleFlight
<1>1. LaneInv => SingleFlight
  BY TablesAgreeSingleFlight DEF LaneInv
<1> QED BY <1>1, LaneInvariant, PTL

\* The lane never runs more jobs than its capacity, and its queue stays within
\* its limit and the interactive reserve.
THEOREM AdmissionCorrect == Spec => []AdmissionBounded
<1>1. LaneInv => AdmissionBounded
  BY DEF LaneInv
<1> QED BY <1>1, LaneInvariant, PTL

-----------------------------------------------------------------------------
(* The subscribers of a job.  A thread that follows does nothing else but   *)
(* run the work it follows from; the job it follows is unfinished or keeps  *)
(* its outcome for it; the counter of a job is the number of its followers  *)
(* and its token covers the time of every one of them.                      *)

FollowPhase ==
  \A t \in Threads : follow[t] # None => phase[t] = "idle" \/ (MayNest /\ phase[t] = "running")
FollowKnown ==
  \A t \in Threads : follow[t] # None =>
    Live(follow[t]) \/ (job[follow[t]].state = "done" /\ job[follow[t]].outcome # "none")
FinishKnows == \A t \in Threads : phase[t] = "finishing" => pending[t] \in Outcomes
Counted == \A j \in Jobs : Live(j) => job[j].followers = Cardinality(Followers(j))
Covered ==
  \A t \in Threads :
    follow[t] # None /\ Live(follow[t]) /\ job[follow[t]].token # NoDeadline
      => followRem[t] \in 0..job[follow[t]].token
SleepersWait == \A t \in asleep : phase[t] = "queued" \/ follow[t] # None

FollowInv == FollowPhase /\ FollowKnown /\ FinishKnows /\ Counted /\ Covered /\ SleepersWait

LEMMA FollowersFinite == \A j : IsFiniteSet(Followers(j))
BY LaneAssumption, FS_Subset DEF Followers

\* Nobody subscribes or leaves, and no job changes for its subscribers.
LEMMA SameSubscribers ==
  ASSUME TypeOK, FollowInv, UNCHANGED <<follow, followRem>>,
         \A j \in Jobs : /\ job'[j].state = job[j].state /\ job'[j].followers = job[j].followers
                         /\ job'[j].token = job[j].token /\ job'[j].outcome = job[j].outcome
  PROVE  FollowKnown' /\ Counted' /\ Covered'
<1> USE DEF FollowInv
<1>0. follow \in [Threads -> Jobs \cup {None}]
  BY DEF TypeOK
<1>1. \A t \in Threads : follow[t] # None => follow[t] \in Jobs
  BY <1>0
<1>2. FollowKnown'
  BY <1>1 DEF FollowKnown, Live
<1>3. Counted'
  <2>1. \A j : Followers(j)' = Followers(j)
    BY DEF Followers
  <2> QED BY <2>1 DEF Counted, Live
<1>4. Covered'
  BY <1>1 DEF Covered, Live
<1> QED BY <1>2, <1>3, <1>4

\* A job is done: it keeps its outcome for those who follow it.
LEMMA SettledSubscribers ==
  ASSUME TypeOK, FollowInv, NEW j \in Jobs, NEW o \in Outcomes, Settle(j, o),
         UNCHANGED <<follow, followRem>>
  PROVE  FollowKnown' /\ Counted' /\ Covered'
<1> USE DEF FollowInv
<1>0. follow \in [Threads -> Jobs \cup {None}] /\ job \in [Jobs -> JobRecord]
  BY TypeParts DEF FollowType
<1>1. \A i \in Jobs : i # j => job'[i] = job[i]
  BY <1>0 DEF Settle
<1>2. job'[j].state # "live"
  BY <1>0 DEF Settle, Settled, Blank
<1>3. Followers(j) # {} => job'[j].state = "done" /\ job'[j].outcome # "none"
  BY <1>0 DEF Settle, Settled, Blank, Outcomes
<1>4. FollowKnown'
  <2> SUFFICES ASSUME NEW t \in Threads, follow[t] # None
               PROVE  \/ job'[follow[t]].state = "live"
                      \/ job'[follow[t]].state = "done" /\ job'[follow[t]].outcome # "none"
    BY DEF FollowKnown, Live
  <2>1. CASE follow[t] = j
    BY <1>3, <2>1 DEF Followers
  <2>2. CASE follow[t] # j
    BY <1>0, <1>1, <2>2 DEF FollowKnown, Live
  <2> QED BY <2>1, <2>2
<1>5. Counted'
  <2>1. \A i : Followers(i)' = Followers(i)
    BY DEF Followers
  <2> QED BY <1>1, <1>2, <2>1 DEF Counted, Live
<1>6. Covered'
  <2> SUFFICES ASSUME NEW t \in Threads, follow[t] # None, job'[follow[t]].state = "live",
                      job'[follow[t]].token # NoDeadline
               PROVE  followRem[t] \in 0..job'[follow[t]].token
    BY DEF Covered, Live
  <2>1. follow[t] \in Jobs /\ follow[t] # j
    BY <1>0, <1>2
  <2> QED BY <1>1, <2>1 DEF Covered, Live
<1> QED BY <1>4, <1>5, <1>6

LEMMA JoinSubscribers ==
  ASSUME TypeOK, TablesAgree, FollowInv, NEW c \in Calls, Join(c.thread, c.key, c.budget)
  PROVE  FollowInv'
<1> USE LaneAssumption DEF FollowInv
<1> DEFINE t == c.thread  b == c.budget  j == inflight[c.key]
<1>0. /\ follow \in [Threads -> Jobs \cup {None}] /\ followRem \in [Threads -> Ticks]
      /\ inflight \in [Keys -> Jobs \cup {None}] /\ job \in [Jobs -> JobRecord]
      /\ asleep \subseteq Threads
  BY TypeParts DEF FollowType, TableType, WaitType
<1>1. t \in Threads /\ b \in Ticks /\ c.key \in Keys
  BY CallType
<1>2. j \in Jobs /\ Live(j)
  BY <1>0, <1>1 DEF Join, TablesAgree, InflightLive
<1>3. /\ follow[t] = None /\ follow' = [follow EXCEPT ![t] = j]
      /\ followRem' = [followRem EXCEPT ![t] = b]
      /\ phase[t] = "idle" \/ (MayNest /\ phase[t] = "running")
      /\ job' = [job EXCEPT ![j].followers = @ + 1, ![j].token = Later(@, b)]
      /\ UNCHANGED <<phase, pending, asleep>>
  BY DEF Join, MayCall, ownVars
<1> HIDE DEF t, b, j
<1>4. /\ \A i \in Jobs : i # j => job'[i] = job[i]
      /\ job'[j].state = job[j].state /\ job'[j].outcome = job[j].outcome
      /\ job'[j].followers = job[j].followers + 1 /\ job'[j].token = Later(job[j].token, b)
      /\ job[j].token \in Ticks
  BY <1>0, <1>2, <1>3 DEF JobRecord
<1>5. \A i \in Jobs : /\ job'[i].state = job[i].state /\ job'[i].outcome = job[i].outcome
  BY <1>4
<1>6. FollowPhase' /\ FinishKnows' /\ SleepersWait'
  BY <1>0, <1>1, <1>2, <1>3 DEF FollowPhase, FinishKnows, SleepersWait
<1>7. FollowKnown'
  <2> SUFFICES ASSUME NEW u \in Threads, follow'[u] # None
               PROVE  \/ job'[follow'[u]].state = "live"
                      \/ job'[follow'[u]].state = "done" /\ job'[follow'[u]].outcome # "none"
    BY DEF FollowKnown, Live
  <2>1. CASE u = t
    BY <1>0, <1>1, <1>2, <1>3, <1>5, <2>1 DEF Live
  <2>2. CASE u # t
    BY <1>0, <1>3, <1>5, <2>2 DEF FollowKnown, Live
  <2> QED BY <2>1, <2>2
<1>8. Counted'
  <2> SUFFICES ASSUME NEW i \in Jobs, job'[i].state = "live"
               PROVE  job'[i].followers = Cardinality(Followers(i)')
    BY DEF Counted, Live
  <2>1. job[i].followers = Cardinality(Followers(i))
    BY <1>5 DEF Counted, Live
  <2>2. CASE i = j
    <3>1. Followers(i)' = Followers(i) \cup {t} /\ t \notin Followers(i)
      BY <1>0, <1>1, <1>2, <1>3, <2>2 DEF Followers
    <3>2. Cardinality(Followers(i)') = Cardinality(Followers(i)) + 1
      BY <3>1, FollowersFinite, FS_AddElement
    <3> QED BY <1>4, <2>1, <2>2, <3>2
  <2>3. CASE i # j
    <3>1. Followers(i)' = Followers(i)
      BY <1>0, <1>1, <1>3, <2>3 DEF Followers
    <3> QED BY <1>4, <2>1, <2>3, <3>1
  <2> QED BY <2>2, <2>3
<1>9. Covered'
  <2> SUFFICES ASSUME NEW u \in Threads, follow'[u] # None, job'[follow'[u]].state = "live",
                      job'[follow'[u]].token # NoDeadline
               PROVE  followRem'[u] \in 0..job'[follow'[u]].token
    BY DEF Covered, Live
  <2>1. \A d, e \in Ticks : Later(d, e) # NoDeadline =>
          d \in 0..Later(d, e) /\ e \in 0..Later(d, e)
    BY DEF Later, Ticks, NoDeadline
  <2>2. CASE u = t
    BY <1>0, <1>1, <1>2, <1>3, <1>4, <2>1, <2>2
  <2>3. CASE u # t
    <3>1. follow'[u] = follow[u] /\ followRem'[u] = followRem[u] /\ follow[u] \in Jobs
      BY <1>0, <1>3, <2>3
    <3>2. CASE follow[u] = j
      <4>1. Later(job[j].token, b) # NoDeadline
        BY <1>4, <3>1, <3>2
      <4>2. job[j].token # NoDeadline /\ job[j].token \in 0..Later(job[j].token, b)
        BY <1>1, <1>4, <4>1, <2>1 DEF Later
      <4>3. followRem[u] \in 0..job[j].token
        BY <1>2, <3>1, <3>2, <4>2 DEF Covered
      <4>4. Later(job[j].token, b) \in Nat
        BY <1>1, <1>4, <4>1, LaterType DEF Ticks, NoDeadline
      <4>5. followRem[u] \in 0..Later(job[j].token, b)
        BY <4>2, <4>3, <4>4
      <4> QED BY <1>4, <3>1, <3>2, <4>5
    <3>3. CASE follow[u] # j
      BY <1>4, <3>1, <3>3 DEF Covered, Live
    <3> QED BY <3>2, <3>3
  <2> QED BY <2>2, <2>3
<1> QED BY <1>6, <1>7, <1>8, <1>9

LEMMA SubmitSubscribers ==
  ASSUME TypeOK, TablesAgree, FollowInv, NEW c \in Calls,
         Submit(c.thread, c.key, c.prio, c.budget)
  PROVE  FollowInv'
<1> USE LaneAssumption DEF FollowInv
<1>0. /\ follow \in [Threads -> Jobs \cup {None}] /\ job \in [Jobs -> JobRecord]
      /\ phase \in [Threads -> Phases]
  BY TypeParts DEF FollowType, OwnType
<1>1. c.thread \in Threads
  BY CallType
<1>2. PICK j \in Jobs :
        /\ job[j].state = "free"
        /\ job' = [job EXCEPT ![j] =
                     [state |-> "live", key |-> c.key, owner |-> c.thread, prio |-> c.prio,
                      age |-> 0, followers |-> 0, token |-> c.budget, outcome |-> "none"]]
  BY DEF Submit, FreeJobs
<1>3. /\ follow[c.thread] = None /\ phase' = [phase EXCEPT ![c.thread] = "queued"]
      /\ UNCHANGED <<follow, followRem, pending, asleep>>
  BY DEF Submit, MayCall, followVars
<1>4. \A t \in Threads : follow[t] # j
  BY <1>0, <1>2 DEF FollowKnown, Live
<1>5. job'[j].followers = 0 /\ \A i \in Jobs : i # j => job'[i] = job[i]
  BY <1>0, <1>2
<1>6. FollowPhase' /\ FinishKnows' /\ SleepersWait'
  BY <1>0, <1>1, <1>3 DEF FollowPhase, FinishKnows, SleepersWait
<1>7. FollowKnown' /\ Covered'
  <2>1. \A t \in Threads : follow[t] # None =>
          follow[t] \in Jobs /\ job'[follow[t]] = job[follow[t]]
    BY <1>0, <1>4, <1>5
  <2>2. FollowKnown'
    BY <1>3, <2>1 DEF FollowKnown, Live
  <2>3. Covered'
    BY <1>3, <2>1 DEF Covered, Live
  <2> QED BY <2>2, <2>3
<1>8. Counted'
  <2>1. \A i : Followers(i)' = Followers(i)
    BY <1>3 DEF Followers
  <2>2. Followers(j) = {}
    BY <1>4 DEF Followers
  <2> QED BY <1>5, <2>1, <2>2, FS_EmptySet DEF Counted, Live
<1> QED BY <1>6, <1>7, <1>8

LEMMA ExpireSubscribers ==
  ASSUME TypeOK, FollowInv, NEW t \in Threads, FollowerExpire(t)
  PROVE  FollowInv'
<1> USE LaneAssumption DEF FollowInv
<1> DEFINE j == follow[t]
<1>0. /\ follow \in [Threads -> Jobs \cup {None}] /\ followRem \in [Threads -> Ticks]
      /\ job \in [Jobs -> JobRecord]
  BY TypeParts DEF FollowType
<1>1. /\ j \in Jobs /\ job' = [job EXCEPT ![j].followers = @ - 1]
      /\ follow' = [follow EXCEPT ![t] = None]
      /\ followRem' = [followRem EXCEPT ![t] = NoDeadline]
      /\ asleep' = {} /\ UNCHANGED <<phase, pending>>
  BY <1>0 DEF FollowerExpire, FollowerTurn, FollowerReturns, NotifyAll, ownVars
<1>2. /\ \A i \in Jobs : /\ job'[i].state = job[i].state /\ job'[i].outcome = job[i].outcome
                         /\ job'[i].token = job[i].token
      /\ \A i \in Jobs : i # j => job'[i].followers = job[i].followers
      /\ job'[j].followers = job[j].followers - 1
  BY <1>0, <1>1 DEF JobRecord
<1>3. \A u \in Threads : u # t => follow'[u] = follow[u] /\ followRem'[u] = followRem[u]
  BY <1>0, <1>1
<1>4. follow'[t] = None
  BY <1>0, <1>1
<1>5. FollowPhase' /\ FinishKnows' /\ SleepersWait'
  BY <1>1, <1>3, <1>4 DEF FollowPhase, FinishKnows, SleepersWait
<1>6. FollowKnown' /\ Covered'
  <2> SUFFICES ASSUME NEW u \in Threads, follow'[u] # None
               PROVE  /\ \/ job'[follow'[u]].state = "live"
                         \/ job'[follow'[u]].state = "done" /\ job'[follow'[u]].outcome # "none"
                      /\ job'[follow'[u]].state = "live" /\ job'[follow'[u]].token # NoDeadline
                           => followRem'[u] \in 0..job'[follow'[u]].token
    BY DEF FollowKnown, Covered, Live
  <2>1. u # t /\ follow'[u] = follow[u] /\ followRem'[u] = followRem[u]
    BY <1>3, <1>4
  <2>2. follow[u] \in Jobs
    BY <1>0, <2>1
  <2>3. /\ job'[follow[u]].state = job[follow[u]].state
        /\ job'[follow[u]].outcome = job[follow[u]].outcome
        /\ job'[follow[u]].token = job[follow[u]].token
    BY <1>2, <2>2
  <2> QED BY <2>1, <2>3 DEF FollowKnown, Covered, Live
<1>7. Counted'
  <2> SUFFICES ASSUME NEW i \in Jobs, job'[i].state = "live"
               PROVE  job'[i].followers = Cardinality(Followers(i)')
    BY DEF Counted, Live
  <2>1. job[i].followers = Cardinality(Followers(i))
    BY <1>2 DEF Counted, Live
  <2>2. CASE i = j
    <3>1. Followers(i)' = Followers(i) \ {t} /\ t \in Followers(i)
      BY <1>1, <1>3, <1>4, <2>2 DEF Followers
    <3>2. Cardinality(Followers(i)') = Cardinality(Followers(i)) - 1
      BY <3>1, FollowersFinite, FS_RemoveElement
    <3> QED BY <1>2, <2>1, <2>2, <3>2
  <2>3. CASE i # j
    <3>1. Followers(i)' = Followers(i)
      BY <1>1, <1>3, <1>4, <2>3 DEF Followers
    <3> QED BY <1>2, <2>1, <2>3, <3>1
  <2> QED BY <2>2, <2>3
<1> QED BY <1>5, <1>6, <1>7

LEMMA ReceiveSubscribers ==
  ASSUME TypeOK, TablesAgree, FollowInv, NEW t \in Threads, FollowerReceive(t)
  PROVE  FollowInv'
<1> USE LaneAssumption DEF FollowInv
<1> DEFINE j == follow[t]
<1>0. /\ follow \in [Threads -> Jobs \cup {None}] /\ followRem \in [Threads -> Ticks]
      /\ job \in [Jobs -> JobRecord]
  BY TypeParts DEF FollowType
<1>1. /\ j \in Jobs /\ job[j].outcome # "none" /\ t \notin asleep
      /\ job' = IF Followers(j) = {t} THEN [job EXCEPT ![j] = Blank] ELSE job
      /\ follow' = [follow EXCEPT ![t] = None]
      /\ followRem' = [followRem EXCEPT ![t] = NoDeadline]
      /\ UNCHANGED <<phase, pending, asleep>>
  BY <1>0 DEF FollowerReceive, FollowerTurn, MayLock, FollowerReturns, ownVars
<1>2. ~Live(j)
  BY <1>1 DEF TablesAgree, LiveOwned
<1>3. \A u \in Threads : u # t => follow'[u] = follow[u] /\ followRem'[u] = followRem[u]
  BY <1>0, <1>1
<1>4. follow'[t] = None
  BY <1>0, <1>1
<1>5. job'[j].state # "live" /\ \A i \in Jobs : i # j => job'[i] = job[i]
  BY <1>0, <1>1, <1>2 DEF Blank, Live
<1>6. \A u \in Threads : follow'[u] # None =>
        u # t /\ follow[u] \in Jobs /\ job'[follow[u]] = job[follow[u]]
  <2> SUFFICES ASSUME NEW u \in Threads, follow'[u] # None
               PROVE  u # t /\ follow[u] \in Jobs /\ job'[follow[u]] = job[follow[u]]
    OBVIOUS
  <2>1. u # t /\ follow[u] \in Jobs
    BY <1>0, <1>3, <1>4
  <2>2. follow[u] = j => Followers(j) # {t}
    BY <2>1 DEF Followers
  <2> QED BY <1>1, <1>5, <2>1, <2>2
<1>7. FollowPhase' /\ FinishKnows' /\ SleepersWait'
  BY <1>1, <1>3, <1>4 DEF FollowPhase, FinishKnows, SleepersWait
<1>8. FollowKnown' /\ Covered'
  BY <1>3, <1>6 DEF FollowKnown, Covered, Live
<1>9. Counted'
  <2> SUFFICES ASSUME NEW i \in Jobs, job'[i].state = "live"
               PROVE  job'[i].followers = Cardinality(Followers(i)')
    BY DEF Counted, Live
  <2>1. i # j /\ job'[i] = job[i]
    BY <1>5
  <2>2. Followers(i)' = Followers(i)
    BY <1>1, <1>3, <1>4, <2>1 DEF Followers
  <2> QED BY <2>1, <2>2 DEF Counted, Live
<1> QED BY <1>7, <1>8, <1>9

LEMMA TickSubscribers ==
  ASSUME TypeOK, FollowInv, Tick
  PROVE  FollowInv'
<1> USE LaneAssumption DEF FollowInv
<1>0. /\ follow \in [Threads -> Jobs \cup {None}] /\ followRem \in [Threads -> Ticks]
      /\ job \in [Jobs -> JobRecord]
  BY TypeParts DEF FollowType
<1>1. /\ UNCHANGED <<phase, pending, follow, asleep>>
      /\ followRem' = [t \in Threads |-> Less(followRem[t])]
  BY DEF Tick
<1>2. \A i \in Jobs : /\ job'[i].state = job[i].state /\ job'[i].outcome = job[i].outcome
                      /\ job'[i].followers = job[i].followers
                      /\ job'[i].token = Less(job[i].token) /\ job[i].token \in Ticks
  <2> SUFFICES ASSUME NEW i \in Jobs
               PROVE  /\ job'[i].state = job[i].state /\ job'[i].outcome = job[i].outcome
                      /\ job'[i].followers = job[i].followers
                      /\ job'[i].token = Less(job[i].token) /\ job[i].token \in Ticks
    OBVIOUS
  <2>1. job'[i] = [job[i] EXCEPT !.age = IF i \in queue /\ @ < AgeBound THEN @ + 1 ELSE @,
                                 !.token = Less(@)]
    BY DEF Tick
  <2>2. job[i] \in JobRecord
    BY <1>0
  <2> QED BY <2>1, <2>2 DEF JobRecord
<1>3. \A t \in Threads : follow[t] # None => follow[t] \in Jobs
  BY <1>0
<1>4. FollowPhase' /\ FinishKnows' /\ SleepersWait' /\ FollowKnown'
  BY <1>1, <1>2, <1>3 DEF FollowPhase, FinishKnows, SleepersWait, FollowKnown, Live
<1>5. Counted'
  <2>1. \A i : Followers(i)' = Followers(i)
    BY <1>1 DEF Followers
  <2> QED BY <1>2, <2>1 DEF Counted, Live
<1>6. Covered'
  <2> SUFFICES ASSUME NEW t \in Threads, follow[t] # None, job'[follow[t]].state = "live",
                      job'[follow[t]].token # NoDeadline
               PROVE  followRem'[t] \in 0..job'[follow[t]].token
    BY <1>1 DEF Covered, Live
  <2> DEFINE d == job[follow[t]].token  r == followRem[t]
  <2>1. d \in Ticks /\ r \in Ticks /\ Live(follow[t]) /\ job'[follow[t]].token = Less(d)
        /\ followRem'[t] = Less(r)
    BY <1>0, <1>1, <1>2, <1>3 DEF Live
  <2>2. d # NoDeadline => r \in 0..d
    BY <2>1 DEF Covered
  <2> HIDE DEF d, r
  <2> QED BY <2>1, <2>2 DEF Less, Ticks, NoDeadline
<1> QED BY <1>4, <1>5, <1>6

LEMMA FollowStep == LaneInv /\ FollowInv /\ [Next]_vars => FollowInv'
<1> SUFFICES ASSUME TypeOK, TablesAgree, FollowInv, [Next]_vars
             PROVE  FollowInv'
  BY DEF LaneInv
<1> USE LaneAssumption
<1>0. /\ own \in [Threads -> Jobs \cup {None}] /\ phase \in [Threads -> Phases]
      /\ job \in [Jobs -> JobRecord] /\ pending \in [Threads -> Outcomes \cup {"none"}]
      /\ follow \in [Threads -> Jobs \cup {None}]
  BY TypeParts DEF OwnType, FollowType
<1>1. ASSUME NEW t \in Threads, own[t] # None, NEW o \in Outcomes, Settle(own[t], o),
             OwnerReturns(t), NotifyAll, UNCHANGED followVars,
             phase[t] = "queued" \/ phase[t] = "finishing"
      PROVE  FollowInv'
  <2>1. own[t] \in Jobs
    BY <1>0, <1>1
  <2>2. FollowKnown' /\ Counted' /\ Covered'
    BY <1>1, <2>1, SettledSubscribers DEF followVars
  <2>3. /\ phase' = [phase EXCEPT ![t] = "idle"] /\ pending' = [pending EXCEPT ![t] = "none"]
        /\ asleep' = {} /\ UNCHANGED follow
    BY <1>1 DEF OwnerReturns, NotifyAll, followVars
  <2>4. FollowPhase' /\ FinishKnows' /\ SleepersWait'
    BY <1>0, <1>1, <2>3 DEF FollowInv, FollowPhase, FinishKnows, SleepersWait
  <2> QED BY <2>2, <2>4 DEF FollowInv
<1>2. ASSUME NEW t \in Threads, UNCHANGED <<job, followVars>>,
             FollowPhase' /\ FinishKnows' /\ SleepersWait'
      PROVE  FollowInv'
  BY <1>2, SameSubscribers DEF FollowInv, followVars
<1>3. ASSUME NEW t \in Threads, OwnerAbandon(t)
      PROVE  FollowInv'
  BY <1>1, <1>3 DEF OwnerAbandon, OwnerTurn, Outcomes
<1>4. ASSUME NEW t \in Threads, Finish(t)
      PROVE  FollowInv'
  <2>1. phase[t] = "finishing" /\ pending[t] \in Outcomes /\ own[t] # None
    BY <1>4 DEF Finish, FollowInv, FinishKnows, TablesAgree, OwnLive
  <2> QED BY <1>1, <1>4, <2>1 DEF Finish
<1>5. ASSUME NEW t \in Threads, OwnerWait(t)
      PROVE  FollowInv'
  <2>1. /\ phase[t] = "queued" /\ asleep' = asleep \cup {t}
        /\ UNCHANGED <<job, phase, pending, follow, followRem>>
    BY <1>5 DEF OwnerWait, OwnerTurn, SleepFor, jobVars, followVars
  <2>2. FollowPhase' /\ FinishKnows' /\ SleepersWait'
    BY <2>1 DEF FollowInv, FollowPhase, FinishKnows, SleepersWait
  <2> QED BY <1>2, <2>1, <2>2 DEF followVars
<1>6. ASSUME NEW t \in Threads, Dispatch(t)
      PROVE  FollowInv'
  <2>1. /\ phase[t] = "queued" /\ phase' = [phase EXCEPT ![t] = "dispatched"] /\ asleep' = {}
        /\ UNCHANGED <<job, pending, follow, followRem>>
    BY <1>6 DEF Dispatch, OwnerTurn, NotifyAll, followVars
  <2>2. FollowPhase' /\ FinishKnows' /\ SleepersWait'
    BY <1>0, <2>1 DEF FollowInv, FollowPhase, FinishKnows, SleepersWait
  <2> QED BY <1>2, <2>1, <2>2 DEF followVars
<1>7. ASSUME NEW t \in Threads, BeginWork(t) \/ \E o \in Outcomes : EndWork(t, o)
      PROVE  FollowInv'
  <2>1. UNCHANGED <<job, follow, followRem, asleep>>
    BY <1>7 DEF BeginWork, EndWork, jobVars, followVars, waitVars
  <2>2. /\ phase[t] = "dispatched" \/ follow[t] = None
        /\ phase[t] # "queued" /\ phase[t] # "idle"
        /\ \A u \in Threads : u # t => phase'[u] = phase[u] /\ pending'[u] = pending[u]
        /\ phase'[t] = "finishing" => pending'[t] \in Outcomes
    BY <1>0, <1>7 DEF BeginWork, EndWork, Outcomes
  <2>3. follow[t] = None \/ phase'[t] = phase[t]
    BY <2>2 DEF FollowInv, FollowPhase
  <2>4. FollowPhase'
    BY <2>1, <2>2, <2>3 DEF FollowInv, FollowPhase
  <2>5. FinishKnows'
    BY <2>2 DEF FollowInv, FinishKnows
  <2>6. SleepersWait'
    <3> SUFFICES ASSUME NEW u \in asleep
                 PROVE  phase'[u] = "queued" \/ follow[u] # None
      BY <2>1 DEF SleepersWait
    <3>1. u \in Threads /\ (phase[u] = "queued" \/ follow[u] # None)
      BY DEF FollowInv, SleepersWait, TypeOK
    <3> QED BY <2>2, <3>1
  <2> QED BY <1>2, <2>1, <2>4, <2>5, <2>6 DEF followVars
<1>8. ASSUME NEW t \in Threads, FollowerWait(t) \/ TimeoutWake(t)
      PROVE  FollowInv'
  <2>1. /\ \A u \in asleep' : u \in asleep \/ follow[u] # None
        /\ UNCHANGED <<job, phase, pending, follow, followRem>>
    BY <1>8 DEF FollowerWait, FollowerTurn, TimeoutWake, SleepFor, jobVars, ownVars, followVars
  <2>2. FollowPhase' /\ FinishKnows' /\ SleepersWait'
    BY <2>1 DEF FollowInv, FollowPhase, FinishKnows, SleepersWait
  <2> QED BY <1>2, <2>1, <2>2 DEF followVars
<1>9. ASSUME UNCHANGED vars
      PROVE  FollowInv'
  <2>1. UNCHANGED <<job, phase, pending, follow, followRem, asleep>>
    BY <1>9 DEF vars, jobVars, ownVars, followVars, waitVars
  <2>2. FollowPhase' /\ FinishKnows' /\ SleepersWait'
    BY <2>1 DEF FollowInv, FollowPhase, FinishKnows, SleepersWait
  <2> QED BY <2>1, <2>2, SameSubscribers DEF FollowInv
<1> QED
  BY <1>3, <1>4, <1>5, <1>6, <1>7, <1>8, <1>9, JoinSubscribers, SubmitSubscribers,
     ExpireSubscribers, ReceiveSubscribers, TickSubscribers DEF Next

\* The invariant of the lane with its subscribers.
LaneInvAll == LaneInv /\ FollowInv

LEMMA FollowInvariant == Spec => []LaneInvAll
<1>1. Init => FollowInv
  BY LaneAssumption DEF Init, FollowInv, FollowPhase, FollowKnown, FinishKnows, Counted, Covered,
     SleepersWait, Blank, Live
<1>2. LaneInvAll /\ [Next]_vars => FollowInv'
  BY FollowStep DEF LaneInvAll
<1>3. Init => LaneInv
  BY InitTypeOK, TablesInit DEF LaneInv
<1>4. LaneInv /\ [Next]_vars => LaneInv'
  BY StepTypeOK, TablesStep DEF LaneInv
<1> QED BY <1>1, <1>2, <1>3, <1>4, PTL DEF Spec, LaneInvAll

LEMMA OnlyAbandonReturns ==
  ASSUME TypeOK, TablesAgree, [Next]_vars, NEW t \in Threads,
         phase[t] = "queued", phase'[t] = "idle"
  PROVE  OwnerAbandon(t)
<1> USE LaneAssumption
<1>0. phase \in [Threads -> Phases]
  BY TypeParts DEF OwnType
<1>1. ASSUME UNCHANGED phase PROVE FALSE
  BY <1>1
<1>2. ASSUME NEW c \in Calls, Submit(c.thread, c.key, c.prio, c.budget) PROVE FALSE
  BY <1>0, <1>2 DEF Submit
<1>3. ASSUME NEW u \in Threads, OwnerAbandon(u) PROVE u = t
  BY <1>0, <1>3 DEF OwnerAbandon, OwnerReturns
<1>4. ASSUME NEW u \in Threads,
             Dispatch(u) \/ BeginWork(u) \/ Finish(u) \/ \E o \in Outcomes : EndWork(u, o)
      PROVE  FALSE
  BY <1>0, <1>4 DEF Dispatch, BeginWork, Finish, EndWork, OwnerTurn, OwnerReturns
<1>5. ASSUME NEW c \in Calls, Join(c.thread, c.key, c.budget) PROVE FALSE
  BY <1>1, <1>5 DEF Join, ownVars
<1>6. ASSUME NEW u \in Threads,
             OwnerWait(u) \/ FollowerWait(u) \/ FollowerExpire(u) \/ FollowerReceive(u) \/ TimeoutWake(u)
      PROVE  FALSE
  BY <1>1, <1>6 DEF OwnerWait, FollowerWait, FollowerExpire, FollowerReceive, TimeoutWake, ownVars
<1>7. ASSUME Tick \/ UNCHANGED vars PROVE FALSE
  BY <1>1, <1>7 DEF Tick, vars, ownVars
<1> QED BY <1>2, <1>3, <1>4, <1>5, <1>6, <1>7 DEF Next

\* A queued job is given up only when every subscriber's deadline has passed.
THEOREM FollowersAreServed == Spec => LiveFollowerServed
<1> DEFINE Served == \A t \in Threads :
                       phase[t] = "queued" /\ phase'[t] = "idle"
                         => ownRem[t] = 0 /\ \A u \in Followers(own[t]) : followRem[u] = 0
<1>1. LaneInvAll /\ [Next]_vars => Served
  <2> SUFFICES ASSUME TypeOK, TablesAgree, FollowInv, [Next]_vars, NEW t \in Threads,
                      phase[t] = "queued", phase'[t] = "idle"
               PROVE  ownRem[t] = 0 /\ \A u \in Followers(own[t]) : followRem[u] = 0
    BY DEF LaneInvAll, LaneInv
  <2>1. OwnerAbandon(t)
    BY OnlyAbandonReturns
  <2>2. own[t] \in Jobs /\ Live(own[t]) /\ own[t] # None
    BY <2>1, LiveDistinct DEF OwnerAbandon, OwnerTurn
  <2>3. CASE job[own[t]].followers = 0
    <3>1. Cardinality(Followers(own[t])) = 0
      BY <2>2, <2>3 DEF FollowInv, Counted
    <3>2. Followers(own[t]) = {}
      BY <3>1, FollowersFinite, FS_EmptySet
    <3> QED BY <2>1, <3>2 DEF OwnerAbandon
  <2>4. CASE job[own[t]].token = 0
    <3>1. \A u \in Followers(own[t]) : followRem[u] \in 0..0
      BY <2>2, <2>4 DEF FollowInv, Covered, Followers, NoDeadline
    <3> QED BY <2>1, <3>1 DEF OwnerAbandon
  <2> QED BY <2>1, <2>3, <2>4 DEF OwnerAbandon
<1>2. LaneInvAll /\ [Next]_vars => [Served]_vars
  BY <1>1
<1> QED BY <1>2, FollowInvariant, PTL DEF Spec, LiveFollowerServed

-----------------------------------------------------------------------------
(* No lost wakeup.  Whoever sleeps in the queue went to sleep blocked; a    *)
(* step that could unblock it wakes everyone, and the other steps leave it  *)
(* blocked.  Aging is the exception: it changes who is next and wakes       *)
(* nobody, so the theorem is about waits shorter than an aging period.      *)

Patient == AgeBound < AgingPeriod

\* Within an aging period a job keeps the level of its priority.
LEMMA LevelStays ==
  ASSUME Patient, TypeOK, TypeOK', NEW j \in Jobs, job'[j].prio = job[j].prio
  PROVE  Level(j)' = Level(j)
<1>1. \A a \in 0..AgeBound : a \div AgingPeriod = 0
  BY LaneAssumption DEF Patient
<1>2. job[j].age \in 0..AgeBound /\ job'[j].age \in 0..AgeBound
  BY DEF TypeOK
<1>3. job[j].age \div AgingPeriod = 0 /\ job'[j].age \div AgingPeriod = 0
  BY <1>1, <1>2
<1> QED BY <1>3 DEF Level

LEMMA StaysBlocked ==
  ASSUME Patient, TypeOK, TypeOK', UNCHANGED active, queue \subseteq queue',
         \A i \in queue : job'[i].prio = job[i].prio /\ ahead'[i] = ahead[i],
         NEW j \in queue, Blocked(j)
  PROVE  Blocked(j)'
<1>1. CASE Cardinality(Running) >= Capacity
  <2>1. Running' = Running
    BY DEF Running
  <2> QED BY <1>1, <2>1 DEF Blocked
<1>2. CASE ~IsNext(j)
  <2>1. PICK i \in queue : i # j /\ Outranks(i, j)
    BY <1>2 DEF IsNext
  <2>2. i \in Jobs /\ j \in Jobs
    BY DEF TypeOK
  <2>3. Level(i)' = Level(i) /\ Level(j)' = Level(j)
    BY <2>2, LevelStays
  <2>4. (i \in ahead[j])' <=> i \in ahead[j]
    OBVIOUS
  <2>5. Outranks(i, j)'
    BY <2>1, <2>3, <2>4 DEF Outranks
  <2> QED BY <2>1, <2>5 DEF Blocked, IsNext
<1> QED BY <1>1, <1>2 DEF Blocked

\* A step that frees no room and wakes nobody unblocks none of the sleepers.
LEMMA SleepersStay ==
  ASSUME Patient, TypeOK, TypeOK', TablesAgree, UNCHANGED active, queue \subseteq queue',
         \A i \in queue : job'[i].prio = job[i].prio /\ ahead'[i] = ahead[i],
         \A u \in asleep' : phase'[u] = "queued" =>
           u \in Threads /\ phase[u] = "queued" /\ own'[u] = own[u] /\ Blocked(own[u])
  PROVE  NextOwnerAwake'
<1> SUFFICES ASSUME NEW u \in Threads, phase'[u] = "queued", u \in asleep'
             PROVE  Blocked(own[u])' /\ own'[u] = own[u]
  BY DEF NextOwnerAwake
<1>1. own[u] \in queue
  BY DEF TablesAgree, PhaseTells
<1> QED BY <1>1, StaysBlocked

LEMMA AwakeStep ==
  Patient /\ LaneInvAll /\ NextOwnerAwake /\ [Next]_vars => NextOwnerAwake'
<1> SUFFICES ASSUME Patient, TypeOK, TablesAgree, FollowInv, NextOwnerAwake, TypeOK', [Next]_vars
             PROVE  NextOwnerAwake'
  BY StepTypeOK DEF LaneInvAll, LaneInv
<1> USE LaneAssumption
<1>0. /\ own \in [Threads -> Jobs \cup {None}] /\ phase \in [Threads -> Phases]
      /\ job \in [Jobs -> JobRecord] /\ queue \subseteq Jobs /\ ahead \in [Jobs -> SUBSET Jobs]
      /\ follow \in [Threads -> Jobs \cup {None}] /\ asleep \subseteq Threads
  BY TypeParts DEF OwnType, FollowType, TableType, WaitType
<1>1. ASSUME asleep' = {} PROVE NextOwnerAwake'
  BY <1>1 DEF NextOwnerAwake
<1>2. \A u \in asleep : phase[u] = "queued" => u \in Threads /\ Blocked(own[u])
  BY <1>0 DEF NextOwnerAwake
<1>3. ASSUME UNCHANGED <<active, queue, ahead, own>>,
             \A i \in queue : job'[i].prio = job[i].prio,
             \A u \in asleep' : phase'[u] = "queued" =>
               phase[u] = "queued" /\ (u \in asleep \/ (u \in Threads /\ Blocked(own[u])))
      PROVE  NextOwnerAwake'
  BY <1>2, <1>3, SleepersStay
<1>4. ASSUME NEW c \in Calls, Join(c.thread, c.key, c.budget)
      PROVE  NextOwnerAwake'
  <2>1. c.key \in Keys /\ inflight[c.key] \in Jobs
    BY <1>4, TypeParts, CallType DEF Join, TableType
  <2>2. \A i \in Jobs : job'[i].prio = job[i].prio
    BY <1>0, <1>4, <2>1 DEF Join, JobRecord
  <2> QED BY <1>0, <1>3, <1>4, <2>2 DEF Join, ownVars
<1>5. ASSUME NEW c \in Calls, Submit(c.thread, c.key, c.prio, c.budget)
      PROVE  NextOwnerAwake'
  <2>1. PICK j \in Jobs :
          /\ job[j].state = "free" /\ \A i \in Jobs : i # j => job'[i] = job[i]
          /\ ahead' = [ahead EXCEPT ![j] = queue] /\ queue' = queue \cup {j}
          /\ own' = [own EXCEPT ![c.thread] = j]
    BY <1>0, <1>5 DEF Submit, FreeJobs
  <2>2. /\ c.thread \in Threads /\ follow[c.thread] = None
        /\ phase[c.thread] = "idle" \/ phase[c.thread] = "running"
        /\ phase' = [phase EXCEPT ![c.thread] = "queued"]
        /\ UNCHANGED <<active, asleep>>
    BY <1>5, CallType DEF Submit, MayCall
  <2>3. j \notin queue
    BY <2>1 DEF TablesAgree, QueueLive, Live
  <2>4. \A i \in queue : job'[i].prio = job[i].prio /\ ahead'[i] = ahead[i]
    BY <1>0, <2>1, <2>3
  <2>5. c.thread \notin asleep
    BY <2>2 DEF FollowInv, SleepersWait
  <2>6. \A u \in asleep : phase'[u] = phase[u] /\ own'[u] = own[u]
    BY <1>0, <2>1, <2>2, <2>5
  <2> QED BY <1>2, <2>1, <2>2, <2>4, <2>6, SleepersStay
<1>6. ASSUME NEW t \in Threads, OwnerWait(t)
      PROVE  NextOwnerAwake'
  <2>1. /\ phase[t] = "queued" /\ Blocked(own[t]) /\ asleep' = asleep \cup {t}
        /\ UNCHANGED <<job, active, queue, ahead, own, phase>>
    BY <1>6 DEF OwnerWait, OwnerTurn, SleepFor, jobVars
  <2> QED BY <1>3, <2>1
<1>7. ASSUME NEW t \in Threads,
             OwnerAbandon(t) \/ Dispatch(t) \/ Finish(t) \/ FollowerExpire(t)
      PROVE  NextOwnerAwake'
  BY <1>1, <1>7 DEF OwnerAbandon, Dispatch, Finish, FollowerExpire, NotifyAll
<1>8. ASSUME NEW t \in Threads, BeginWork(t) \/ \E o \in Outcomes : EndWork(t, o)
      PROVE  NextOwnerAwake'
  <2>1. UNCHANGED <<job, active, queue, ahead, own, asleep>>
    BY <1>8 DEF BeginWork, EndWork, jobVars, waitVars
  <2>2. \A u \in Threads : phase'[u] = "queued" => phase[u] = "queued"
    BY <1>0, <1>8 DEF BeginWork, EndWork
  <2> QED BY <1>0, <1>3, <2>1, <2>2
<1>9. ASSUME NEW t \in Threads, FollowerWait(t)
      PROVE  NextOwnerAwake'
  <2>1. /\ follow[t] # None /\ asleep' = asleep \cup {t}
        /\ UNCHANGED <<job, active, queue, ahead, own, phase>>
    BY <1>9 DEF FollowerWait, FollowerTurn, SleepFor, jobVars, ownVars
  <2>2. phase[t] # "queued"
    BY <2>1 DEF FollowInv, FollowPhase
  <2> QED BY <1>3, <2>1, <2>2
<1>10. ASSUME NEW t \in Threads, FollowerReceive(t)
       PROVE  NextOwnerAwake'
  <2>1. /\ follow[t] \in Jobs /\ job[follow[t]].outcome # "none"
        /\ UNCHANGED <<active, queue, ahead, own, phase, asleep>>
        /\ \A i \in Jobs : i # follow[t] => job'[i] = job[i]
    BY <1>0, <1>10 DEF FollowerReceive, FollowerTurn, ownVars
  <2>2. follow[t] \notin queue
    BY <2>1 DEF TablesAgree, QueueLive, LiveOwned
  <2>3. \A i \in queue : job'[i].prio = job[i].prio
    BY <1>0, <2>1, <2>2
  <2> QED BY <1>3, <2>1, <2>3
<1>11. ASSUME NEW t \in Threads, TimeoutWake(t)
       PROVE  NextOwnerAwake'
  BY <1>3, <1>11 DEF TimeoutWake, jobVars, ownVars
<1>12. ASSUME Tick
       PROVE  NextOwnerAwake'
  <2>1. \A i \in Jobs : job'[i].prio = job[i].prio
    <3> SUFFICES ASSUME NEW i \in Jobs PROVE job'[i].prio = job[i].prio
      OBVIOUS
    <3>1. job'[i] = [job[i] EXCEPT !.age = IF i \in queue /\ @ < AgeBound THEN @ + 1 ELSE @,
                                   !.token = Less(@)]
      BY <1>12 DEF Tick
    <3>2. job[i] \in JobRecord
      BY <1>0
    <3> QED BY <3>1, <3>2 DEF JobRecord
  <2> QED BY <1>0, <1>3, <1>12, <2>1 DEF Tick
<1>13. ASSUME UNCHANGED vars
       PROVE  NextOwnerAwake'
  BY <1>3, <1>13 DEF vars, jobVars, ownVars, waitVars
<1> QED
  BY <1>4, <1>5, <1>6, <1>7, <1>8, <1>9, <1>10, <1>11, <1>12, <1>13 DEF Next

\* While no wait is as long as an aging period, the owner of the job that the
\* lane would run next is awake.
THEOREM OwnersAreWoken == AgeBound < AgingPeriod => (Spec => []NextOwnerAwake)
<1> SUFFICES ASSUME Patient PROVE Spec => []NextOwnerAwake
  BY DEF Patient
<1>1. Init => NextOwnerAwake
  BY DEF Init, NextOwnerAwake
<1>2. LaneInvAll /\ NextOwnerAwake /\ [Next]_vars => NextOwnerAwake'
  BY AwakeStep
<1> QED BY <1>1, <1>2, FollowInvariant, PTL DEF Spec

-----------------------------------------------------------------------------
(* The lane implements coalesced calls (CoalescedCalls), for callers that   *)
(* do not nest: every step is a step of the promise or a stutter.           *)

\* The facts of the invariant the mapping reads: what a key in flight, a thread
\* without a job and a follower are.
LEMMA InFlight ==
  ASSUME TypeOK, TablesAgree, NEW k \in Keys, inflight[k] # None
  PROVE  /\ inflight[k] \in Jobs /\ Live(inflight[k]) /\ job[inflight[k]].key = k
         /\ job[inflight[k]].owner \in Threads /\ own[job[inflight[k]].owner] = inflight[k]
         /\ inflight[k] # None /\ job[inflight[k]].outcome = "none"
<1>1. inflight[k] \in Jobs
  BY DEF TypeOK
<1>2. Live(inflight[k]) /\ job[inflight[k]].key = k
  BY DEF TablesAgree, InflightLive
<1> QED BY <1>1, <1>2 DEF TablesAgree, LiveOwned

LEMMA NotMember ==
  ASSUME TypeOK, TablesAgree, NEW t \in Threads, own[t] = None, follow[t] = None
  PROVE  Promise!Idle(t)
<1>1. ASSUME NEW k \in Keys PROVE t \notin Members[k]
  <2>1. CASE inflight[k] = None
    BY <2>1 DEF Members
  <2>2. CASE inflight[k] # None
    BY <2>2, InFlight DEF Members, Followers
  <2> QED BY <2>1, <2>2
<1>2. Answer[t] = "none"
  BY DEF Answer
<1> QED BY <1>1, <1>2 DEF Promise!Idle

\* Nothing the mapping reads changes.
LEMMA Stutters ==
  ASSUME TypeOK, TablesAgree, UNCHANGED <<inflight, follow>>,
         \A j \in Jobs : Live(j) => job'[j].owner = job[j].owner /\ (j \in queue' <=> j \in queue),
         \A j \in Jobs : job'[j].outcome = job[j].outcome
  PROVE  UNCHANGED Promise!cvars
<1>1. Stage' = Stage
  <2>1. \A k \in Keys : inflight[k] # None => (inflight[k] \in queue' <=> inflight[k] \in queue)
    BY InFlight
  <2> QED BY <2>1 DEF Stage
<1>2. Members' = Members
  <2>1. \A k \in Keys : inflight[k] # None => job'[inflight[k]].owner = job[inflight[k]].owner
    BY InFlight
  <2>2. \A j : Followers(j)' = Followers(j)
    BY DEF Followers
  <2> QED BY <2>1, <2>2 DEF Members
<1>3. Answer' = Answer
  <2>1. \A t \in Threads : follow[t] # None => follow[t] \in Jobs
    BY DEF TypeOK
  <2> QED BY <2>1 DEF Answer
<1> QED BY <1>1, <1>2, <1>3 DEF Promise!cvars

\* Submit opens a computation.
LEMMA SubmitOpens ==
  ASSUME TypeOK, TablesAgree, FollowInv, NEW c \in Calls,
         Submit(c.thread, c.key, c.prio, c.budget), own[c.thread] = None
  PROVE  Promise!Open(c.thread, c.key)
<1> USE LaneAssumption
<1> DEFINE t == c.thread  k == c.key
<1>0. /\ follow \in [Threads -> Jobs \cup {None}] /\ job \in [Jobs -> JobRecord]
      /\ inflight \in [Keys -> Jobs \cup {None}] /\ queue \subseteq Jobs
  BY TypeParts DEF FollowType, TableType
<1>1. t \in Threads /\ k \in Keys
  BY CallType
<1>2. PICK j \in Jobs :
        /\ job[j].state = "free"
        /\ job' = [job EXCEPT ![j] =
                     [state |-> "live", key |-> c.key, owner |-> c.thread, prio |-> c.prio,
                      age |-> 0, followers |-> 0, token |-> c.budget, outcome |-> "none"]]
        /\ queue' = queue \cup {j} /\ inflight' = [inflight EXCEPT ![k] = j]
  BY DEF Submit, FreeJobs
<1>3. follow[t] = None /\ inflight[k] = None /\ UNCHANGED follow
  BY DEF Submit, MayCall, followVars
<1>4. job'[j].owner = t /\ \A i \in Jobs : i # j => job'[i] = job[i]
  BY <1>0, <1>2
<1>5. \A u \in Threads : follow[u] # j
  BY <1>0, <1>2 DEF FollowInv, FollowKnown, Live
<1>6. \A h \in Keys : inflight[h] # None => inflight[h] \in Jobs /\ inflight[h] # j
  BY <1>2, InFlight DEF Live
<1>7. \A i : Followers(i)' = Followers(i)
  BY <1>3 DEF Followers
<1>8. Followers(j) = {}
  BY <1>5 DEF Followers
<1> HIDE DEF t, k
<1>9. j # None /\ inflight'[k] = j /\ \A h \in Keys : h # k => inflight'[h] = inflight[h]
  BY <1>0, <1>1, <1>2
<1>10. Stage' = [Stage EXCEPT ![k] = "open"] /\ Stage[k] = "none"
  <2>1. Stage[k] = "none"
    BY <1>1, <1>3 DEF Stage
  <2>2. ASSUME NEW h \in Keys PROVE Stage'[h] = [Stage EXCEPT ![k] = "open"][h]
    <3>1. CASE h = k
      BY <1>1, <1>2, <1>9, <3>1 DEF Stage
    <3>2. CASE h # k
      BY <1>2, <1>6, <1>9, <3>2 DEF Stage
    <3> QED BY <3>1, <3>2
  <2> QED BY <2>1, <2>2 DEF Stage
<1>11. Members' = [Members EXCEPT ![k] = {t}]
  <2>1. ASSUME NEW h \in Keys PROVE Members'[h] = [Members EXCEPT ![k] = {t}][h]
    <3>1. CASE h = k
      BY <1>1, <1>4, <1>7, <1>8, <1>9, <3>1 DEF Members
    <3>2. CASE h # k
      BY <1>4, <1>6, <1>7, <1>9, <3>2 DEF Members
    <3> QED BY <3>1, <3>2
  <2> QED BY <2>1 DEF Members
<1>12. UNCHANGED Answer
  <2>1. \A u \in Threads : follow[u] # None => job'[follow[u]] = job[follow[u]]
    BY <1>0, <1>4, <1>5
  <2> QED BY <1>3, <2>1 DEF Answer
<1>13. Promise!Idle(t)
  BY <1>1, <1>3, NotMember DEF t
<1> QED BY <1>10, <1>11, <1>12, <1>13 DEF Promise!Open, t, k

\* Join adds a member.
LEMMA JoinJoins ==
  ASSUME TypeOK, TablesAgree, FollowInv, NEW c \in Calls,
         Join(c.thread, c.key, c.budget), own[c.thread] = None
  PROVE  Promise!Join(c.thread, c.key)
<1> USE LaneAssumption
<1> DEFINE t == c.thread  k == c.key  j == inflight[k]
<1>0. /\ follow \in [Threads -> Jobs \cup {None}] /\ job \in [Jobs -> JobRecord]
      /\ inflight \in [Keys -> Jobs \cup {None}]
  BY TypeParts DEF FollowType, TableType
<1>1. t \in Threads /\ k \in Keys
  BY CallType
<1>2. /\ j # None /\ follow[t] = None /\ job[j].followers < FollowerCapacity
      /\ follow' = [follow EXCEPT ![t] = j]
      /\ job' = [job EXCEPT ![j].followers = @ + 1, ![j].token = Later(@, c.budget)]
      /\ UNCHANGED <<inflight, queue>>
  BY DEF Join, MayCall
<1>3. j \in Jobs /\ Live(j) /\ job[j].outcome = "none"
  BY <1>1, <1>2, InFlight
<1>4. \A i \in Jobs : job'[i].owner = job[i].owner /\ job'[i].outcome = job[i].outcome
  BY <1>0, <1>2, <1>3 DEF JobRecord
<1>5. Stage' = Stage /\ Stage[k] # "none"
  BY <1>1, <1>2 DEF Stage
<1>6. Cardinality(Members[k]) < FollowerCapacity + 1
  <2>1. Members[k] = Followers(j) \cup {job[j].owner}
    BY <1>1, <1>2 DEF Members
  <2>2. Cardinality(Followers(j)) = job[j].followers /\ Cardinality(Followers(j)) \in Nat
    BY <1>3, FollowersFinite, FS_CardinalityType DEF FollowInv, Counted
  <2>3. Cardinality(Followers(j) \cup {job[j].owner})
          = IF job[j].owner \in Followers(j) THEN Cardinality(Followers(j))
            ELSE Cardinality(Followers(j)) + 1
    BY FollowersFinite, FS_AddElement, Zenon
  <2> HIDE DEF j
  <2> QED BY <1>2, <2>1, <2>2, <2>3
<1> HIDE DEF t, k, j
<1>7. follow'[t] = j /\ \A u \in Threads : u # t => follow'[u] = follow[u]
  BY <1>0, <1>1, <1>2
<1>8. Members' = [Members EXCEPT ![k] = @ \cup {t}]
  <2>1. ASSUME NEW h \in Keys PROVE Members'[h] = [Members EXCEPT ![k] = @ \cup {t}][h]
    <3>1. CASE h = k
      <4>1. {u \in Threads : follow'[u] = j} = {u \in Threads : follow[u] = j} \cup {t}
        BY <1>1, <1>2, <1>7
      <4>2. Members[k] = {job[j].owner} \cup {u \in Threads : follow[u] = j}
        BY <1>1, <1>2 DEF Members, Followers, j
      <4>3. Members'[k] = {job'[j].owner} \cup {u \in Threads : follow'[u] = j}
        BY <1>1, <1>2 DEF Members, Followers, j
      <4>4. Members'[k] = Members[k] \cup {t}
        BY <1>3, <1>4, <4>1, <4>2, <4>3
      <4> QED BY <1>1, <3>1, <4>4 DEF Members
    <3>2. CASE h # k
      <4>1. CASE inflight[h] = None
        BY <1>2, <3>2, <4>1 DEF Members
      <4>2. CASE inflight[h] # None
        <5>1. inflight[h] \in Jobs /\ job[inflight[h]].key = h
          BY <4>2, InFlight
        <5>2. job[j].key = k
          BY <1>1, <1>2, InFlight DEF j
        <5>3. inflight[h] # j
          BY <3>2, <5>1, <5>2
        <5>4. Followers(inflight[h])' = Followers(inflight[h])
          BY <1>2, <1>3, <1>7, <4>2, <5>3 DEF Followers
        <5> QED BY <1>2, <1>4, <3>2, <5>1, <5>4 DEF Members
      <4> QED BY <4>1, <4>2
    <3> QED BY <3>1, <3>2
  <2> QED BY <2>1 DEF Members
<1>9. UNCHANGED Answer
  <2>1. ASSUME NEW u \in Threads PROVE Answer'[u] = Answer[u]
    <3>1. CASE u = t
      <4>1. job'[j].outcome = "none" /\ follow'[u] = j /\ follow[u] = None
        BY <1>2, <1>3, <1>4, <1>7, <3>1
      <4> QED BY <4>1 DEF Answer
    <3>2. CASE u # t
      <4>1. follow'[u] = follow[u]
        BY <1>7, <3>2
      <4>2. follow[u] # None => job'[follow[u]].outcome = job[follow[u]].outcome
        BY <1>0, <1>4
      <4> QED BY <4>1, <4>2 DEF Answer
    <3> QED BY <3>1, <3>2
  <2> QED BY <2>1 DEF Answer
<1>10. Promise!Idle(t)
  BY <1>1, <1>2, NotMember DEF t
<1>11. Promise!Cardinality(Members[k]) = Cardinality(Members[k])
  BY DEF Promise!Cardinality, Cardinality
<1>12. Promise!Join(t, k)
  BY <1>5, <1>6, <1>8, <1>9, <1>10, <1>11 DEF Promise!Join
<1> QED BY <1>12 DEF t, k

\* An owner that leaves closes the computation: its followers have the outcome.
LEMMA LeavingCloses ==
  ASSUME TypeOK, TablesAgree, FollowInv, NEW t \in Threads, own[t] # None, follow[t] = None,
         NEW o \in Outcomes, Settle(own[t], o), queue' = queue \ {own[t]},
         inflight' = [inflight EXCEPT ![job[own[t]].key] = None], UNCHANGED follow,
         own[t] \notin queue \/ o = "deadline"
  PROVE  Promise!Close(t, job[own[t]].key, o)
<1> USE LaneAssumption
<1> DEFINE j == own[t]  k == job[own[t]].key
<1>0. /\ follow \in [Threads -> Jobs \cup {None}] /\ job \in [Jobs -> JobRecord]
      /\ inflight \in [Keys -> Jobs \cup {None}]
  BY TypeParts DEF FollowType, TableType
<1>1. /\ j \in Jobs /\ j # None /\ Live(j) /\ job[j].owner = t /\ k \in Keys /\ inflight[k] = j
  BY LiveDistinct
<1>2. /\ \A i \in Jobs : i # j => job'[i] = job[i]
      /\ Followers(j) # {} => job'[j].outcome = o
  BY <1>0, <1>1 DEF Settle, Settled, Blank
<1>3. \A i : Followers(i)' = Followers(i)
  BY DEF Followers
<1> HIDE DEF j, k
<1>4. inflight'[k] = None /\ \A h \in Keys : h # k => inflight'[h] = inflight[h]
  BY <1>0, <1>1 DEF k
<1>5. \A h \in Keys : h # k /\ inflight[h] # None => inflight[h] \in Jobs /\ inflight[h] # j
  BY <1>1, InFlight DEF j, k
<1>6. Members[k] = {t} \cup Followers(j)
  BY <1>1 DEF Members
<1>7. Stage[k] = "computing" \/ (Stage[k] = "open" /\ o = "deadline")
  BY <1>1 DEF Stage, j
<1>8. Stage' = [Stage EXCEPT ![k] = "none"]
  <2>1. ASSUME NEW h \in Keys PROVE Stage'[h] = [Stage EXCEPT ![k] = "none"][h]
    <3>1. CASE h = k
      BY <1>1, <1>4, <3>1 DEF Stage
    <3>2. CASE h # k
      BY <1>4, <1>5, <3>2 DEF Stage, j
    <3> QED BY <3>1, <3>2
  <2> QED BY <2>1 DEF Stage
<1>9. Members' = [Members EXCEPT ![k] = {}]
  <2>1. ASSUME NEW h \in Keys PROVE Members'[h] = [Members EXCEPT ![k] = {}][h]
    <3>1. CASE h = k
      BY <1>1, <1>4, <3>1 DEF Members
    <3>2. CASE h # k
      <4>1. inflight[h] # None => job'[inflight[h]] = job[inflight[h]]
        BY <1>2, <1>5, <3>2
      <4>2. inflight'[h] = inflight[h]
        BY <1>4, <3>2
      <4> QED BY <1>3, <3>2, <4>1, <4>2 DEF Members
    <3> QED BY <3>1, <3>2
  <2> QED BY <2>1 DEF Members
<1>10. Answer' = [u \in Threads |-> IF u \in Members[k] \ {t} THEN o ELSE Answer[u]]
  <2>1. ASSUME NEW u \in Threads
        PROVE  Answer'[u] = IF u \in Members[k] \ {t} THEN o ELSE Answer[u]
    <3>1. CASE follow[u] = j
      <4>1. u # t /\ u \in Followers(j)
        BY <1>1, <3>1 DEF Followers
      <4>2. Answer'[u] = o
        BY <1>1, <1>2, <3>1, <4>1 DEF Answer
      <4> QED BY <1>6, <4>1, <4>2
    <3>2. CASE follow[u] # j
      <4>1. u \notin Members[k] \ {t}
        BY <1>6, <3>2 DEF Followers
      <4>2. Answer'[u] = Answer[u]
        BY <1>0, <1>2, <3>2 DEF Answer
      <4> QED BY <4>1, <4>2
    <3> QED BY <3>1, <3>2
  <2> QED BY <2>1 DEF Answer
<1> QED BY <1>6, <1>7, <1>8, <1>9, <1>10 DEF Promise!Close, k

\* Dispatch starts the computation.
LEMMA DispatchStarts ==
  ASSUME TypeOK, TablesAgree, NEW t \in Threads, Dispatch(t)
  PROVE  Promise!Start(job[own[t]].key) /\ job[own[t]].key \in Keys
<1> USE LaneAssumption
<1> DEFINE j == own[t]  k == job[own[t]].key
<1>1. /\ own[t] # None /\ phase[t] = "queued" /\ queue' = queue \ {j}
      /\ UNCHANGED <<job, inflight, follow>>
  BY DEF Dispatch, OwnerTurn, Unqueue, followVars
<1>2. /\ j \in Jobs /\ j # None /\ k \in Keys /\ inflight[k] = j /\ j \in queue
  BY <1>1, LiveDistinct DEF TablesAgree, PhaseTells
<1> HIDE DEF j, k
<1>3. \A h \in Keys : h # k /\ inflight[h] # None => inflight[h] # j
  BY <1>2, InFlight DEF j, k
<1>4. Stage[k] = "open" /\ Stage' = [Stage EXCEPT ![k] = "computing"]
  <2>1. ASSUME NEW h \in Keys PROVE Stage'[h] = [Stage EXCEPT ![k] = "computing"][h]
    <3>1. CASE h = k
      BY <1>1, <1>2, <3>1 DEF Stage
    <3>2. CASE h # k
      BY <1>1, <1>3, <3>2 DEF Stage
    <3> QED BY <3>1, <3>2
  <2> QED BY <1>1, <1>2, <2>1 DEF Stage
<1>5. UNCHANGED <<Members, Answer>>
  <2>1. \A i : Followers(i)' = Followers(i)
    BY <1>1 DEF Followers
  <2> QED BY <1>1, <2>1 DEF Members, Answer
<1> QED BY <1>2, <1>4, <1>5 DEF Promise!Start, k

\* A follower whose deadline passes leaves; the owner remains.
LEMMA ExpiringLeaves ==
  ASSUME TypeOK, TablesAgree, FollowInv, NEW t \in Threads, FollowerExpire(t), own[t] = None
  PROVE  \E k \in Keys : Promise!Leave(t, k)
<1> USE LaneAssumption
<1> DEFINE j == follow[t]  k == job[j].key
<1>0. /\ follow \in [Threads -> Jobs \cup {None}] /\ job \in [Jobs -> JobRecord]
  BY TypeParts DEF FollowType
<1>1. /\ j \in Jobs /\ j # None /\ job[j].outcome = "none"
      /\ job' = [job EXCEPT ![j].followers = @ - 1]
      /\ follow' = [follow EXCEPT ![t] = None]
      /\ UNCHANGED <<inflight, queue>>
  BY <1>0 DEF FollowerExpire, FollowerTurn, FollowerReturns
<1>2. Live(j)
  BY <1>1 DEF FollowInv, FollowKnown
<1>3. k \in Keys /\ inflight[k] = j /\ job[j].owner # t
  BY <1>1, <1>2 DEF TablesAgree, LiveOwned
<1>4. \A i \in Jobs : job'[i].owner = job[i].owner /\ job'[i].outcome = job[i].outcome
  BY <1>0, <1>1 DEF JobRecord
<1>5. follow'[t] = None /\ \A u \in Threads : u # t => follow'[u] = follow[u]
  BY <1>0, <1>1
<1>6. t \in Followers(j)
  BY DEF Followers
<1> HIDE DEF k, j
<1>7. Members[k] = {job[j].owner} \cup Followers(j)
  BY <1>1, <1>3 DEF Members
<1>8. Stage' = Stage
  BY <1>1 DEF Stage
<1>9. Members' = [Members EXCEPT ![k] = @ \ {t}]
  <2>1. ASSUME NEW h \in Keys PROVE Members'[h] = [Members EXCEPT ![k] = @ \ {t}][h]
    <3>1. CASE h = k
      <4>1. {u \in Threads : follow'[u] = j} = Followers(j) \ {t}
        BY <1>1, <1>5 DEF Followers
      <4>2. Members'[k] = {job'[j].owner} \cup {u \in Threads : follow'[u] = j}
        BY <1>1, <1>3 DEF Members, Followers
      <4>3. Members'[k] = Members[k] \ {t}
        BY <1>1, <1>3, <1>4, <1>7, <4>1, <4>2
      <4> QED BY <1>3, <3>1, <4>3 DEF Members
    <3>2. CASE h # k
      <4>1. CASE inflight[h] = None
        BY <1>1, <3>2, <4>1 DEF Members
      <4>2. CASE inflight[h] # None
        <5>1. inflight[h] \in Jobs /\ job[inflight[h]].key = h
          BY <4>2, InFlight
        <5>2. inflight[h] # j
          BY <3>2, <5>1 DEF k
        <5>3. {u \in Threads : follow'[u] = inflight[h]} = {u \in Threads : follow[u] = inflight[h]}
          BY <1>5, <4>2, <5>2 DEF j
        <5>4. job'[inflight[h]].owner = job[inflight[h]].owner
          BY <1>4, <5>1
        <5> QED BY <1>1, <3>2, <5>3, <5>4 DEF Members, Followers
      <4> QED BY <4>1, <4>2
    <3> QED BY <3>1, <3>2
  <2> QED BY <2>1 DEF Members
<1>10. UNCHANGED Answer
  <2>1. ASSUME NEW u \in Threads PROVE Answer'[u] = Answer[u]
    <3>1. CASE u = t
      BY <1>1, <1>5, <3>1 DEF Answer, j
    <3>2. CASE u # t
      BY <1>0, <1>4, <1>5, <3>2 DEF Answer
    <3> QED BY <3>1, <3>2
  <2> QED BY <2>1 DEF Answer
<1> QED BY <1>3, <1>6, <1>7, <1>8, <1>9, <1>10 DEF Promise!Leave

\* A follower of a settled job takes the answer.
LEMMA ReceivingTakes ==
  ASSUME TypeOK, TablesAgree, FollowInv, NEW t \in Threads, FollowerReceive(t)
  PROVE  Promise!Take(t)
<1> USE LaneAssumption
<1> DEFINE j == follow[t]
<1>0. /\ follow \in [Threads -> Jobs \cup {None}] /\ job \in [Jobs -> JobRecord]
  BY TypeParts DEF FollowType
<1>1. /\ j \in Jobs /\ j # None /\ job[j].outcome # "none"
      /\ job' = IF Followers(j) = {t} THEN [job EXCEPT ![j] = Blank] ELSE job
      /\ follow' = [follow EXCEPT ![t] = None]
      /\ UNCHANGED <<inflight, queue>>
  BY <1>0 DEF FollowerReceive, FollowerTurn, FollowerReturns
<1>2. \A h \in Keys : inflight[h] # None => inflight[h] \in Jobs /\ inflight[h] # j
  BY <1>1, InFlight
<1>3. follow'[t] = None /\ \A u \in Threads : u # t => follow'[u] = follow[u]
  BY <1>0, <1>1
<1>4. \A i \in Jobs : i # j => job'[i] = job[i]
  BY <1>1
<1>5. \A u \in Threads : u # t /\ follow[u] # None => job'[follow[u]] = job[follow[u]]
  <2> SUFFICES ASSUME NEW u \in Threads, u # t, follow[u] # None
               PROVE  job'[follow[u]] = job[follow[u]]
    OBVIOUS
  <2>1. follow[u] = j => Followers(j) # {t}
    BY DEF Followers
  <2> QED BY <1>0, <1>1, <1>4, <2>1
<1>6. UNCHANGED Stage
  BY <1>1 DEF Stage
<1>7. UNCHANGED Members
  <2>1. ASSUME NEW h \in Keys PROVE Members'[h] = Members[h]
    <3>1. CASE inflight[h] = None
      BY <1>1, <3>1 DEF Members
    <3>2. CASE inflight[h] # None
      <4>1. {u \in Threads : follow'[u] = inflight[h]} = {u \in Threads : follow[u] = inflight[h]}
        BY <1>2, <1>3, <3>2
      <4>2. job'[inflight[h]].owner = job[inflight[h]].owner
        BY <1>2, <1>4, <3>2
      <4> QED BY <1>1, <4>1, <4>2 DEF Members, Followers
    <3> QED BY <3>1, <3>2
  <2> QED BY <2>1 DEF Members
<1>8. Answer[t] # "none" /\ Answer' = [Answer EXCEPT ![t] = "none"]
  <2>1. ASSUME NEW u \in Threads PROVE Answer'[u] = [Answer EXCEPT ![t] = "none"][u]
    <3>1. CASE u = t
      BY <1>3, <3>1 DEF Answer
    <3>2. CASE u # t
      BY <1>3, <1>5, <3>2 DEF Answer
    <3> QED BY <3>1, <3>2
  <2> QED BY <1>1, <2>1 DEF Answer
<1> QED BY <1>6, <1>7, <1>8 DEF Promise!Take

LEMMA StepPromised ==
  ~MayNest /\ LaneInvAll /\ [Next]_vars => [Promise!Next]_(Promise!cvars)
<1> SUFFICES ASSUME ~MayNest, TypeOK, TablesAgree, FollowInv, [Next]_vars
             PROVE  Promise!Next \/ UNCHANGED Promise!cvars
  BY DEF LaneInvAll, LaneInv
<1> USE LaneAssumption
<1>0. /\ job \in [Jobs -> JobRecord] /\ queue \subseteq Jobs
      /\ follow \in [Threads -> Jobs \cup {None}]
  BY TypeParts DEF FollowType, TableType
\* Whoever calls or follows owns nothing, and whoever owns follows nothing.
<1>1. \A t \in Threads : phase[t] = "idle" => own[t] = None
  BY DEF TablesAgree, OwnLive
<1>2. \A t \in Threads : follow[t] # None => own[t] = None
  BY <1>1 DEF FollowInv, FollowPhase
<1>3. ASSUME NEW c \in Calls, Join(c.thread, c.key, c.budget)
      PROVE  Promise!Next
  <2>1. c.thread \in Threads /\ c.key \in Keys
    BY CallType
  <2>2. own[c.thread] = None
    BY <1>1, <1>3, <2>1 DEF Join, MayCall
  <2>3. Promise!Join(c.thread, c.key)
    BY <1>3, <2>2, JoinJoins
  <2> QED BY <2>1, <2>3 DEF Promise!Next
<1>4. ASSUME NEW c \in Calls, Submit(c.thread, c.key, c.prio, c.budget)
      PROVE  Promise!Next
  <2>1. c.thread \in Threads /\ c.key \in Keys
    BY CallType
  <2>2. own[c.thread] = None
    BY <1>1, <1>4, <2>1 DEF Submit, MayCall
  <2>3. Promise!Open(c.thread, c.key)
    BY <1>4, <2>2, SubmitOpens
  <2> QED BY <2>1, <2>3 DEF Promise!Next
<1>5. ASSUME NEW t \in Threads, OwnerAbandon(t)
      PROVE  Promise!Next
  <2>1. /\ own[t] # None /\ Settle(own[t], "deadline") /\ queue' = queue \ {own[t]}
        /\ inflight' = [inflight EXCEPT ![job[own[t]].key] = None] /\ UNCHANGED follow
    BY <1>5 DEF OwnerAbandon, OwnerTurn, Unqueue, followVars
  <2>2. job[own[t]].key \in Keys /\ follow[t] = None
    BY <1>2, <2>1, LiveDistinct
  <2>3. Promise!Close(t, job[own[t]].key, "deadline")
    BY <2>1, <2>2, LeavingCloses DEF Outcomes
  <2> QED BY <2>2, <2>3 DEF Promise!Next, Outcomes
<1>6. ASSUME NEW t \in Threads, Finish(t)
      PROVE  Promise!Next
  <2>1. /\ phase[t] = "finishing" /\ Settle(own[t], pending[t]) /\ UNCHANGED <<queue, follow>>
        /\ inflight' = [inflight EXCEPT ![job[own[t]].key] = IF @ = own[t] THEN None ELSE @]
    BY <1>6 DEF Finish, followVars
  <2>2. own[t] # None /\ pending[t] \in Outcomes
    BY <2>1 DEF TablesAgree, OwnLive, FollowInv, FinishKnows
  <2>3. job[own[t]].key \in Keys /\ inflight[job[own[t]].key] = own[t] /\ follow[t] = None
    BY <1>2, <2>2, LiveDistinct
  <2>4. active[job[own[t]].key] = own[t]
    BY <2>1 DEF TablesAgree, PhaseTells, Working
  <2>5. own[t] \notin queue
    BY <2>2, <2>3, <2>4 DEF TablesAgree, ActiveInflight
  <2>6. queue' = queue \ {own[t]} /\ inflight' = [inflight EXCEPT ![job[own[t]].key] = None]
    BY <2>1, <2>3, <2>5
  <2>7. Promise!Close(t, job[own[t]].key, pending[t])
    BY <2>1, <2>2, <2>3, <2>5, <2>6, LeavingCloses
  <2> QED BY <2>2, <2>3, <2>7 DEF Promise!Next
<1>7. ASSUME NEW t \in Threads, Dispatch(t)
      PROVE  Promise!Next
  BY <1>7, DispatchStarts DEF Promise!Next
<1>8. ASSUME NEW t \in Threads, FollowerExpire(t)
      PROVE  Promise!Next
  <2>1. own[t] = None
    BY <1>2, <1>8 DEF FollowerExpire, FollowerTurn
  <2> QED BY <1>8, <2>1, ExpiringLeaves DEF Promise!Next
<1>9. ASSUME NEW t \in Threads, FollowerReceive(t)
      PROVE  Promise!Next
  BY <1>9, ReceivingTakes DEF Promise!Next
<1>10. ASSUME UNCHANGED <<job, queue, inflight, follow>>
       PROVE  UNCHANGED Promise!cvars
  BY <1>10, Stutters
<1>11. ASSUME NEW t \in Threads,
              \/ OwnerWait(t) \/ FollowerWait(t) \/ TimeoutWake(t)
              \/ BeginWork(t) \/ \E o \in Outcomes : EndWork(t, o)
       PROVE  UNCHANGED Promise!cvars
  BY <1>10, <1>11
  DEF OwnerWait, FollowerWait, TimeoutWake, BeginWork, EndWork, jobVars, followVars
<1>12. ASSUME Tick
       PROVE  UNCHANGED Promise!cvars
  <2>1. \A i \in Jobs : job'[i].owner = job[i].owner /\ job'[i].outcome = job[i].outcome
    <3> SUFFICES ASSUME NEW i \in Jobs
                 PROVE  job'[i].owner = job[i].owner /\ job'[i].outcome = job[i].outcome
      OBVIOUS
    <3>1. job'[i] = [job[i] EXCEPT !.age = IF i \in queue /\ @ < AgeBound THEN @ + 1 ELSE @,
                                   !.token = Less(@)]
      BY <1>12 DEF Tick
    <3>2. job[i] \in JobRecord
      BY <1>0
    <3> QED BY <3>1, <3>2 DEF JobRecord
  <2> QED BY <1>12, <2>1, Stutters DEF Tick
<1>13. ASSUME UNCHANGED vars
       PROVE  UNCHANGED Promise!cvars
  BY <1>10, <1>13 DEF vars, jobVars, followVars
<1> QED
  BY <1>3, <1>4, <1>5, <1>6, <1>7, <1>8, <1>9, <1>11, <1>12, <1>13 DEF Next

\* The lane keeps the promise of coalesced calls: one computation per key, and
\* every thread that is a member when it completes gets its outcome.
THEOREM OutcomeIsShared == ~MayNest => (Spec => SharedOutcome)
<1> SUFFICES ASSUME ~MayNest PROVE Spec => SharedOutcome
  OBVIOUS
<1>1. Init => Promise!Init
  BY LaneAssumption DEF Init, Promise!Init, Stage, Members, Answer
<1>2. LaneInvAll /\ [Next]_vars => [Promise!Next]_(Promise!cvars)
  BY StepPromised
<1> QED BY <1>1, <1>2, FollowInvariant, PTL DEF Spec, SharedOutcome, Promise!Spec
=============================================================================
