------------------------- MODULE HeavyRequestsProofs -------------------------
(***************************************************************************)
(* Theorems about HeavyRequests, for any number of threads, projects and   *)
(* lanes and any limits.                                                   *)
(***************************************************************************)
EXTENDS HeavyRequests, FiniteSetTheorems, TLAPS

LEMMA Names ==
  /\ {"idle", "leased", "queued", "gating", "working", "finishing", "following", "leaving"}
       \subseteq Places
  /\ \A p \in Owning : p \notin {"idle", "leaving", "leased", "following"}
BY DEF Places, Owning

Outcome == {"none", "result", "error", "deadline"}

CallRecord == [at : Places, lane : Lanes \cup {None}, entry : Entries \cup {None},
               key : Keys \cup {None}, leader : Threads \cup {None}, live : BOOLEAN,
               outcome : Outcome]

\* What a step that neither leases nor returns a lane leaves as it is.
SameLease(c, d) ==
  /\ d \in CallRecord /\ d.lane = c.lane /\ d.entry = c.entry
  /\ d.at = "idle" <=> c.at = "idle"
Still(c, d) == d.at = "working" <=> c.at = "working"

Frame ==
  /\ table' = table /\ leases' = leases /\ up' \in BOOLEAN
  /\ call' = [t \in Threads |-> call'[t]]
  /\ \A t \in Threads : SameLease(call[t], call'[t])
NobodyEnters == \A t \in Threads : Still(call[t], call'[t])

LEMMA SettledFrame ==
  ASSUME TypeOK, NEW t \in Threads, call[t].at \in {"queued", "finishing"},
         NEW o \in Outcome, call' = Settled(t, o), UNCHANGED <<table, leases, up>>
  PROVE  Frame /\ NobodyEnters
<1>1. ASSUME NEW u \in Threads PROVE SameLease(call[u], call'[u]) /\ Still(call[u], call'[u])
  <2>0. call[u] \in CallRecord
    BY DEF TypeOK, CallRecord, Outcome
  <2>1. CASE u = t
    <3>1. call'[u] = [call[u] EXCEPT !.at = "leaving", !.outcome = "none"]
      BY <2>1 DEF Settled
    <3>q. QED BY <2>0, <2>1, <3>1, Names DEF SameLease, Still, CallRecord, Outcome
  <2>2. CASE u # t /\ u \in Followers(t)
    <3>1. call'[u] = [call[u] EXCEPT !.at = "leaving", !.leader = None, !.outcome = o]
      BY <2>2 DEF Settled
    <3>2. call[u].at = "following"
      BY <2>2 DEF Followers, At
    <3>q. QED BY <2>0, <3>1, <3>2, Names DEF SameLease, Still, CallRecord
  <2>3. CASE u # t /\ u \notin Followers(t)
    BY <2>0, <2>3 DEF SameLease, Still, Settled
  <2>q. QED BY <2>1, <2>2, <2>3
<1>q. QED BY <1>1 DEF Frame, NobodyEnters, Settled, TypeOK

\* One thread moves on in its lane.
LEMMA OneMoves ==
  ASSUME TypeOK, NEW t \in Threads, NEW r, SameLease(call[t], r),
         call' = [call EXCEPT ![t] = r], UNCHANGED <<table, leases>>, up' \in BOOLEAN
  PROVE  /\ Frame /\ \A u \in Threads \ {t} : Still(call[u], call'[u])
         /\ call'[t] = r
<1>0. \A u \in Threads : call[u] \in CallRecord
  BY DEF TypeOK, CallRecord, Outcome
<1>1. \A u \in Threads : call'[u] = IF u = t THEN r ELSE call[u]
  BY DEF TypeOK
<1>2. \A u \in Threads : SameLease(call[u], call'[u])
  BY <1>0, <1>1 DEF SameLease
<1>q. QED BY <1>1, <1>2 DEF Frame, Still, TypeOK

\* The two ways the code of a lane writes this.
LEMMA GoFrame ==
  ASSUME TypeOK, NEW t \in Threads, NEW p \in Places \ {"idle"}, Go(t, p),
         call[t].at # "idle", UNCHANGED <<table, leases, up>>
  PROVE  /\ Frame /\ \A u \in Threads \ {t} : Still(call[u], call'[u])
         /\ call'[t].at = p
<1>. DEFINE r == [call[t] EXCEPT !.at = p]
<1>0. call[t] \in CallRecord
  BY DEF TypeOK, CallRecord, Outcome
<1>1. SameLease(call[t], r) /\ r.at = p
  BY <1>0 DEF SameLease, CallRecord
<1>2. call' = [call EXCEPT ![t] = r] /\ up' \in BOOLEAN
  BY DEF Go, TypeOK
<1>. HIDE DEF r
<1>q. QED BY <1>1, <1>2, OneMoves

LEMMA JoinFrame ==
  ASSUME TypeOK, NEW t \in Threads, NEW p \in Places \ {"idle"}, NEW u \in Threads \cup {None},
         call' = [call EXCEPT ![t].at = p, ![t].leader = u],
         call[t].at # "idle", UNCHANGED <<table, leases, up>>
  PROVE  /\ Frame /\ \A v \in Threads \ {t} : Still(call[v], call'[v])
         /\ call'[t].at = p
<1>. DEFINE r == [call[t] EXCEPT !.at = p, !.leader = u]
<1>0. call[t] \in CallRecord
  BY DEF TypeOK, CallRecord, Outcome
<1>1. SameLease(call[t], r) /\ r.at = p
  BY <1>0 DEF SameLease, CallRecord
<1>2. call' = [call EXCEPT ![t] = r] /\ up' \in BOOLEAN
  BY <1>0 DEF TypeOK, CallRecord
<1>. HIDE DEF r
<1>q. QED BY <1>1, <1>2, OneMoves

LEMMA OutcomeFrame ==
  ASSUME TypeOK, NEW t \in Threads, NEW p \in Places \ {"idle"}, NEW o \in Outcome,
         call' = [call EXCEPT ![t].at = p, ![t].outcome = o],
         call[t].at # "idle", UNCHANGED <<table, leases, up>>
  PROVE  /\ Frame /\ \A v \in Threads \ {t} : Still(call[v], call'[v])
         /\ call'[t].at = p
<1>. DEFINE r == [call[t] EXCEPT !.at = p, !.outcome = o]
<1>0. call[t] \in CallRecord
  BY DEF TypeOK, CallRecord, Outcome
<1>1. SameLease(call[t], r) /\ r.at = p
  BY <1>0 DEF SameLease, CallRecord
<1>2. call' = [call EXCEPT ![t] = r] /\ up' \in BOOLEAN
  BY <1>0 DEF TypeOK, CallRecord
<1>. HIDE DEF r
<1>q. QED BY <1>1, <1>2, OneMoves

LEMMA LaneFrame ==
  ASSUME TypeOK, NEW t \in Threads,
         \/ Join(t) \/ Submit(t) \/ Refuse(t) \/ Dispatch(t) \/ Withdraw(t)
         \/ FollowerExpire(t) \/ Finish(t) \/ GateExpire(t)
  PROVE  Frame /\ NobodyEnters
<1>1. CASE Submit(t) \/ Refuse(t) \/ Dispatch(t)
  <2>1. PICK p \in {"queued", "leaving", "gating"} : Go(t, p)
    BY <1>1 DEF Submit, Refuse, Dispatch
  <2>2. p \in Places \ {"idle"} /\ call[t].at \in {"leased", "queued"}
    BY <1>1, Names DEF Submit, Refuse, Dispatch, At
  <2>q. QED BY <1>1, <2>1, <2>2, GoFrame DEF Submit, Refuse, Dispatch, NobodyEnters, Still
<1>2. CASE Join(t)
  <2>1. PICK u \in Threads : call' = [call EXCEPT ![t].at = "following", ![t].leader = u]
    BY <1>2 DEF Join, InFlight, In
  <2>2. call[t].at = "leased" /\ "following" \in Places \ {"idle"} /\ UNCHANGED <<table, leases, up>>
    BY <1>2, Names DEF Join, At
  <2>3. Frame /\ (\A v \in Threads \ {t} : Still(call[v], call'[v])) /\ call'[t].at = "following"
    BY <2>1, <2>2, JoinFrame
  <2>q. QED BY <2>2, <2>3 DEF NobodyEnters, Still
<1>3. CASE Withdraw(t)
  BY <1>3, SettledFrame DEF Withdraw, At, Outcome
<1>4. CASE Finish(t)
  BY <1>4, SettledFrame DEF Finish, At, TypeOK, Outcome
<1>5. CASE FollowerExpire(t)
  BY <1>5, JoinFrame, Names DEF FollowerExpire, At, NobodyEnters, Still
<1>6. CASE GateExpire(t)
  <2>1. /\ call[t].at = "gating" /\ "finishing" \in Places \ {"idle"} /\ "deadline" \in Outcome
        /\ UNCHANGED <<table, leases, up>>
        /\ call' = [call EXCEPT ![t].at = "finishing", ![t].outcome = "deadline"]
    BY <1>6, Names DEF GateExpire, At, Outcome
  <2>2. Frame /\ (\A v \in Threads \ {t} : Still(call[v], call'[v])) /\ call'[t].at = "finishing"
    BY <2>1, OutcomeFrame
  <2>q. QED BY <2>1, <2>2 DEF NobodyEnters, Still
<1>q. QED BY <1>1, <1>2, <1>3, <1>4, <1>5, <1>6

LEMMA WorkFrame ==
  ASSUME TypeOK, NEW t \in Threads, EnterGate(t) \/ \E o \in Outcome : EndWork(t, o)
  PROVE  Frame /\ up' = up /\ \A u \in Threads \ {t} : Still(call[u], call'[u])
<1>1. CASE EnterGate(t)
  BY <1>1, GoFrame, Names DEF EnterGate, At
<1>2. ASSUME NEW o \in Outcome, EndWork(t, o)
      PROVE  Frame /\ up' = up /\ \A u \in Threads \ {t} : Still(call[u], call'[u])
  <2>1. PICK w \in Outcome : call' = [call EXCEPT ![t].at = "finishing", ![t].outcome = w]
    BY <1>2 DEF EndWork, Outcome
  <2>2. call[t].at = "working" /\ "finishing" \in Places \ {"idle"} /\ UNCHANGED <<table, leases, up>>
    BY <1>2, Names DEF EndWork, At
  <2>q. QED BY <2>1, <2>2, OutcomeFrame
<1>q. QED BY <1>1, <1>2

LEMMA ClockFrame ==
  ASSUME TypeOK, NEW t \in Threads, Expire(t) \/ HardTimeout(t)
  PROVE  Frame /\ NobodyEnters
<1>0. \A u \in Threads : call[u] \in CallRecord
  BY DEF TypeOK, CallRecord, Outcome
<1>1. CASE Expire(t)
  <2>. DEFINE r == [call[t] EXCEPT !.live = FALSE]
  <2>1. SameLease(call[t], r) /\ Still(call[t], r)
    BY <1>0 DEF SameLease, Still, CallRecord
  <2>2. call' = [call EXCEPT ![t] = r] /\ UNCHANGED <<table, leases>> /\ up' \in BOOLEAN
    BY <1>1 DEF Expire, TypeOK
  <2>. HIDE DEF r
  <2>q. QED BY <2>1, <2>2, OneMoves DEF NobodyEnters
<1>2. CASE HardTimeout(t)
  BY <1>0, <1>2 DEF HardTimeout, TypeOK, Frame, SameLease, NobodyEnters, Still
<1>q. QED BY <1>1, <1>2

-----------------------------------------------------------------------------
(* Leases.                                                                 *)

UsersOf(c, e) == {t \in Threads : c[t].entry = e}

\* Each call counts in the entry the table has for its lane, lanes do not share
\* entries, and only a lane that is used is in the table.
LeaseInv ==
  /\ TypeOK
  /\ \A t \in Threads :
       IF At(t, "idle") THEN call[t].entry = None
       ELSE /\ call[t].lane \in Lanes /\ call[t].entry \in Entries
            /\ table[call[t].lane] = call[t].entry
  /\ \A l, m \in Lanes : table[l] # None /\ table[l] = table[m] => l = m
  /\ \A e \in Entries : leases[e] = Cardinality(UsersOf(call, e))
  /\ \A l \in Lanes : table[l] # None => UsersOf(call, table[l]) # {}

LEMMA FrameKeepsLeases == LeaseInv /\ Frame => LeaseInv'
<1>. SUFFICES ASSUME LeaseInv, Frame PROVE LeaseInv'
  OBVIOUS
<1>1. \A e : UsersOf(call', e) = UsersOf(call, e)
  BY DEF UsersOf, Frame, SameLease
<1>2. TypeOK'
  <2>1. \A t \in Threads : call'[t] \in CallRecord
    BY DEF Frame, SameLease
  <2>q. QED BY <2>1 DEF LeaseInv, Frame, TypeOK, CallRecord, Outcome
<1>3. \A t \in Threads : /\ call'[t].lane = call[t].lane /\ call'[t].entry = call[t].entry
                         /\ At(t, "idle")' <=> At(t, "idle")
  BY DEF Frame, SameLease, At
<1>4. table' = table /\ leases' = leases
  BY DEF Frame
<1>q. QED BY <1>1, <1>2, <1>3, <1>4 DEF LeaseInv

LEMMA UsersFinite == \A e : IsFiniteSet(UsersOf(call, e))
BY ShardedAssumption, FS_Subset DEF UsersOf

LEMMA AcquireKeepsLeases ==
  ASSUME LeaseInv, NEW t \in Threads, NEW k \in Keys, NEW l \in Lanes, AcquireLane(t, l, k)
  PROVE  LeaseInv'
<1>. DEFINE e == IF table[l] = None THEN CHOOSE n \in Entries : Unused(n) ELSE table[l]
            r == [Idle EXCEPT !.at = "leased", !.lane = l, !.entry = e, !.key = k]
<1>1. /\ table' = [table EXCEPT ![l] = e] /\ leases' = [leases EXCEPT ![e] = @ + 1]
      /\ call' = [call EXCEPT ![t] = r] /\ up' = up /\ call[t].at = "idle"
  BY DEF AcquireLane, At
<1>2. /\ e \in Entries
      /\ table[l] = None => Unused(e)
      /\ table[l] # None => e = table[l]
  BY DEF AcquireLane, LeaseInv, TypeOK
<1>3. /\ r \in CallRecord /\ r.at = "leased" /\ r.lane = l /\ r.entry = e
  BY <1>2, Names DEF Idle, CallRecord, Outcome
<1>. HIDE DEF r, e
<1>4. TypeOK'
  <2>1. call' \in [Threads -> CallRecord]
    BY <1>1, <1>3 DEF LeaseInv, TypeOK, CallRecord, Outcome
  <2>2. table' \in [Lanes -> Entries \cup {None}] /\ leases' \in [Entries -> Nat]
    BY <1>1, <1>2 DEF LeaseInv, TypeOK
  <2>q. QED BY <1>1, <2>1, <2>2 DEF LeaseInv, TypeOK, CallRecord, Outcome
<1>5. \A u \in Threads : call'[u] = IF u = t THEN r ELSE call[u]
  BY <1>1 DEF LeaseInv, TypeOK
<1>6. /\ t \notin UsersOf(call, e) /\ UsersOf(call', e) = UsersOf(call, e) \cup {t}
      /\ \A f \in Entries \ {e} : UsersOf(call', f) = UsersOf(call, f)
  <2>1. call[t].entry = None /\ None \notin Entries
    BY <1>1, ShardedAssumption DEF LeaseInv, At
  <2>q. QED BY <1>2, <1>3, <1>5, <2>1 DEF UsersOf
<1>7. \A f \in Entries : leases'[f] = Cardinality(UsersOf(call', f))
  <2>1. Cardinality(UsersOf(call, e) \cup {t}) = Cardinality(UsersOf(call, e)) + 1
    BY <1>6, UsersFinite, FS_AddElement
  <2>q. QED BY <1>1, <1>2, <1>6, <2>1 DEF LeaseInv, TypeOK
<1>8. \A m \in Lanes : table'[m] = IF m = l THEN e ELSE table[m]
  BY <1>1 DEF LeaseInv, TypeOK
<1>9. \A m \in Lanes : m # l => table[m] # e
  BY <1>2, ShardedAssumption DEF LeaseInv, Unused
<1>10. \A u \in Threads : u # t /\ call[u].lane = l /\ ~At(u, "idle") => call[u].entry = e
  BY <1>2, ShardedAssumption DEF LeaseInv
<1>11. \A u \in Threads :
         IF At(u, "idle")' THEN call'[u].entry = None
         ELSE /\ call'[u].lane \in Lanes /\ call'[u].entry \in Entries
              /\ table'[call'[u].lane] = call'[u].entry
  BY <1>2, <1>3, <1>5, <1>8, <1>10 DEF LeaseInv, At
<1>12. \A m, n \in Lanes : table'[m] # None /\ table'[m] = table'[n] => m = n
  BY <1>8, <1>9 DEF LeaseInv
<1>13. \A m \in Lanes : table'[m] # None => UsersOf(call', table'[m]) # {}
  BY <1>2, <1>6, <1>8, <1>9 DEF LeaseInv, TypeOK
<1>q. QED BY <1>4, <1>7, <1>11, <1>12, <1>13 DEF LeaseInv

LEMMA ReleaseKeepsLeases ==
  ASSUME LeaseInv, NEW t \in Threads, ReleaseLane(t)
  PROVE  LeaseInv'
<1>. DEFINE e == call[t].entry
            l == call[t].lane
<1>1. /\ call[t].at = "leaving" /\ up' = up /\ call' = [call EXCEPT ![t] = Idle]
      /\ leases' = [leases EXCEPT ![e] = @ - 1]
      /\ table' = IF leases[e] = 1 /\ In(e, Owning) = {} THEN [table EXCEPT ![l] = None] ELSE table
  BY DEF ReleaseLane, At
<1>2. l \in Lanes /\ e \in Entries /\ table[l] = e /\ e # None
  BY <1>1, ShardedAssumption DEF LeaseInv, At
<1>3. \A u \in Threads : call'[u] = IF u = t THEN Idle ELSE call[u]
  BY <1>1 DEF LeaseInv, TypeOK
<1>4. Idle \in CallRecord /\ Idle.at = "idle" /\ Idle.entry = None
  BY Names DEF Idle, CallRecord, Outcome
<1>5. /\ t \in UsersOf(call, e) /\ UsersOf(call', e) = UsersOf(call, e) \ {t}
      /\ \A f \in Entries \ {e} : UsersOf(call', f) = UsersOf(call, f)
  BY <1>2, <1>3, <1>4, ShardedAssumption DEF UsersOf
<1>6. Cardinality(UsersOf(call, e) \ {t}) = Cardinality(UsersOf(call, e)) - 1 /\ Cardinality(UsersOf(call, e)) \in Nat
  BY <1>5, UsersFinite, FS_RemoveElement, FS_CardinalityType
<1>7. leases[e] = Cardinality(UsersOf(call, e)) /\ IsFiniteSet(UsersOf(call, e) \ {t})
  BY <1>2, UsersFinite, FS_RemoveElement DEF LeaseInv
<1>8. leases[e] = 1 <=> UsersOf(call, e) \ {t} = {}
  <2>1. Cardinality(UsersOf(call, e) \ {t}) = 0 <=> UsersOf(call, e) \ {t} = {}
    BY <1>7, FS_EmptySet
  <2>q. QED BY <1>6, <1>7, <2>1
<1>9. UsersOf(call, e) \ {t} = {} => In(e, Owning) = {}
  BY <1>1, Names DEF In, UsersOf
<1>10. table' = IF UsersOf(call', e) = {} THEN [table EXCEPT ![l] = None] ELSE table
  BY <1>1, <1>5, <1>8, <1>9
<1>11. \A f \in Entries : leases'[f] = Cardinality(UsersOf(call', f))
  BY <1>1, <1>2, <1>5, <1>6, <1>7 DEF LeaseInv, TypeOK
<1>. HIDE DEF e, l
<1>12. TypeOK'
  <2>1. call' \in [Threads -> CallRecord]
    BY <1>1, <1>4 DEF LeaseInv, TypeOK, CallRecord, Outcome
  <2>2. table' \in [Lanes -> Entries \cup {None}]
    BY <1>10 DEF LeaseInv, TypeOK
  <2>3. leases' \in [Entries -> Nat]
    <3>1. leases[e] - 1 \in Nat
      BY <1>5, <1>6, <1>7, UsersFinite, FS_CardinalityType
    <3>q. QED BY <1>1, <1>2, <3>1 DEF LeaseInv, TypeOK
  <2>q. QED BY <1>1, <2>1, <2>2, <2>3 DEF LeaseInv, TypeOK, CallRecord, Outcome
<1>13. \A m \in Lanes : table'[m] = IF m = l /\ UsersOf(call', e) = {} THEN None ELSE table[m]
  BY <1>2, <1>10 DEF LeaseInv, TypeOK
<1>14. \A u \in Threads : u # t /\ ~At(u, "idle") /\ call[u].lane = l => u \in UsersOf(call', e)
  BY <1>2, <1>5 DEF LeaseInv, UsersOf
<1>15. \A u \in Threads :
         IF At(u, "idle")' THEN call'[u].entry = None
         ELSE /\ call'[u].lane \in Lanes /\ call'[u].entry \in Entries
              /\ table'[call'[u].lane] = call'[u].entry
  BY <1>3, <1>4, <1>13, <1>14 DEF LeaseInv, At
<1>16. \A m, n \in Lanes : table'[m] # None /\ table'[m] = table'[n] => m = n
  BY <1>13 DEF LeaseInv
<1>17. \A m \in Lanes : table'[m] # None => UsersOf(call', table'[m]) # {}
  BY <1>2, <1>5, <1>13 DEF LeaseInv, TypeOK
<1>q. QED BY <1>11, <1>12, <1>15, <1>16, <1>17 DEF LeaseInv

-----------------------------------------------------------------------------
(* The steps of the daemon.                                                *)

LEMMA StepsOf ==
  ASSUME TypeOK, [Next]_vars
  PROVE  \/ \E t \in Threads, k \in Keys : \E l \in Asks[t] : AcquireLane(t, l, k)
         \/ \E t \in Threads : ReleaseLane(t)
         \/ Frame
<1>1. CASE LaneStep
  BY <1>1, LaneFrame DEF LaneStep, LaneNext
<1>2. ASSUME NEW t \in Threads, Deadline(t) \/ Stuck(t) PROVE Frame
  BY <1>2, ClockFrame DEF Deadline, Stuck
<1>3. ASSUME NEW t \in Threads, CallHandler(t) \/ BeginWork(t) PROVE Frame
  BY <1>3, WorkFrame DEF CallHandler, BeginWork
<1>4. ASSUME NEW t \in Threads, HandlerReturns(t) PROVE Frame
  BY <1>4, WorkFrame DEF HandlerReturns, Outcome
<1>5. ASSUME NEW t \in Threads, FinishWork(t) PROVE Frame
  <2>1. parent[t] \in Outcome /\ EndWork(t, parent[t])
    BY <1>5 DEF FinishWork, Worker!Return, Worker!Returned, Outcome
  <2>q. QED BY <2>1, WorkFrame
<1>6. CASE UNCHANGED shardVars
  BY <1>6 DEF shardVars, Frame, TypeOK, SameLease, CallRecord, Outcome
<1>q. QED BY <1>1, <1>2, <1>3, <1>4, <1>5, <1>6 DEF Next, WorkStep, ChildStep, vars

LEMMA StepKeepsLeases ==
  ASSUME LeaseInv, [Next]_vars
  PROVE  LeaseInv'
<1>1. ASSUME NEW t \in Threads, NEW l \in Asks[t] PROVE l \in Lanes
  BY ShardedAssumption
<1>q. QED BY <1>1, StepsOf, FrameKeepsLeases, AcquireKeepsLeases, ReleaseKeepsLeases DEF LeaseInv

LEMMA LeasesStart == Init => LeaseInv
<1>. SUFFICES ASSUME Init PROVE LeaseInv
  OBVIOUS
<1>1. Idle \in CallRecord /\ Idle.at = "idle" /\ Idle.entry = None
  BY Names DEF Idle, CallRecord, Outcome
<1>2. TypeOK
  BY <1>1 DEF Init, TypeOK, CallRecord, Outcome
<1>3. \A e \in Entries : UsersOf(call, e) = {}
  BY <1>1, ShardedAssumption DEF Init, UsersOf
<1>q. QED BY <1>1, <1>2, <1>3, FS_EmptySet DEF Init, LeaseInv, At

\* Every variable of the lanes keeps its type: no lease count goes below zero.
THEOREM TypeCorrect == Spec => []TypeOK
<1>1. RequestInit => LeaseInv
  BY LeasesStart DEF RequestInit
<1>2. LeaseInv => TypeOK
  BY DEF LeaseInv
<1>q. QED BY <1>1, <1>2, StepKeepsLeases, PTL DEF Spec

\* However many calls lease and return a lane, its count is that of the calls that use it,
\* and the table has it as long as there is one.
THEOREM LeasesCorrect == Spec => []LeasesExact
<1>1. RequestInit => LeaseInv
  BY LeasesStart DEF RequestInit
<1>2. LeaseInv => LeasesExact
  <2>. SUFFICES ASSUME LeaseInv PROVE LeasesExact
    OBVIOUS
  <2>1. ASSUME NEW l \in Lanes, table[l] # None
        PROVE  leases[table[l]] = Cardinality(In(table[l], Places)) /\ leases[table[l]] > 0
    <3>1. table[l] \in Entries
      BY <2>1 DEF LeaseInv, TypeOK
    <3>2. In(table[l], Places) = UsersOf(call, table[l])
      BY DEF In, UsersOf, LeaseInv, TypeOK
    <3>3. Cardinality(UsersOf(call, table[l])) # 0 /\ Cardinality(UsersOf(call, table[l])) \in Nat
      BY <2>1, <3>1, UsersFinite, FS_EmptySet, FS_CardinalityType DEF LeaseInv
    <3>q. QED BY <3>1, <3>2, <3>3 DEF LeaseInv
  <2>q. QED BY <2>1 DEF LeasesExact, LeaseInv
<1>q. QED BY <1>1, <1>2, StepKeepsLeases, PTL DEF Spec

-----------------------------------------------------------------------------
(* Child processes.                                                        *)

\* run_route is over, or has ended its child, wherever the code says so; outside of the
\* work of a job there is no run_route.
WorkerInv ==
  /\ parent \in [Threads -> {"none", "spawned", "polling", "doomed", "received", "checking",
                             "result", "error", "deadline", "eof"}]
  /\ child \in [Threads -> {"none", "waiting", "working", "sent", "dead"}]
  /\ inbox \in [Threads -> {"none", "result", "error", "eof"}]
  /\ pipe \in [Threads -> {"none", "result", "error", "eof"}]
  /\ \A t \in Threads :
       /\ parent[t] \in {"none", "checking", "result", "error", "deadline"} => ~Worker!Alive(t)
       /\ t \in Inline => parent[t] = "none"
       /\ up /\ ~At(t, "working") => parent[t] = "none"

LEMMA WorkersElsewhere ==
  ASSUME WorkerInv, UNCHANGED workVars, up' => up, NobodyEnters
  PROVE  WorkerInv'
BY DEF WorkerInv, workVars, NobodyEnters, Still, At, Worker!Alive

LEMMA ChildKeepsWorkers ==
  ASSUME WorkerInv, NEW t \in Threads, Worker!ChildSteps(t), UNCHANGED shardVars
  PROVE  WorkerInv'
<1>1. ASSUME NEW a \in Worker!Answers, Worker!Answer(t, a) PROVE WorkerInv'
  BY <1>1 DEF Worker!Answer, Worker!Answers, WorkerInv, Worker!Alive, shardVars, At
<1>2. CASE Worker!Exit(t)
  BY <1>2 DEF Worker!Exit, WorkerInv, Worker!Alive, shardVars, At
<1>q. QED BY <1>1, <1>2 DEF Worker!ChildSteps

LEMMA ParentKeepsWorkers ==
  ASSUME WorkerInv, NEW t \in Threads, Worker!ParentSteps(t) \/ Worker!Read(t),
         UNCHANGED shardVars, At(t, "working")
  PROVE  WorkerInv'
<1>1. CASE Worker!Start(t)
  BY <1>1 DEF Worker!Start, WorkerInv, Worker!Alive, shardVars, At
<1>2. CASE Worker!Doom(t) \/ Worker!SeeDead(t) \/ Worker!GiveUp(t)
  BY <1>2 DEF Worker!Doom, Worker!SeeDead, Worker!GiveUp, Worker!Step, WorkerInv, Worker!Alive,
              shardVars, At
<1>3. CASE Worker!Terminate(t)
  BY <1>3 DEF Worker!Terminate, Worker!Step, WorkerInv, Worker!Alive, shardVars, At
<1>4. CASE Worker!Receive(t)
  BY <1>4 DEF Worker!Receive, WorkerInv, Worker!Alive, shardVars, At
<1>5. CASE Worker!Reap(t)
  BY <1>5 DEF Worker!Reap, WorkerInv, Worker!Alive, shardVars, At
<1>6. CASE Worker!Read(t)
  BY <1>6 DEF Worker!Read, WorkerInv, Worker!Alive, shardVars, At
<1>q. QED BY <1>1, <1>2, <1>3, <1>4, <1>5, <1>6 DEF Worker!ParentSteps

LEMMA StepKeepsWorkers ==
  ASSUME LeaseInv, WorkerInv, [Next]_vars
  PROVE  WorkerInv'
<1>t. TypeOK
  BY DEF LeaseInv
<1>1. CASE LaneStep
  <2>1. ASSUME NEW t \in Threads, ReleaseLane(t) \/ \E k \in Keys : \E l \in Asks[t] : AcquireLane(t, l, k)
        PROVE  NobodyEnters /\ up' = up
    <3>1. PICK r : /\ call' = [call EXCEPT ![t] = r] /\ r.at \in {"idle", "leased"}
                   /\ call[t].at \in {"idle", "leaving"} /\ up' = up
      BY <2>1 DEF ReleaseLane, AcquireLane, At, Idle
    <3>q. QED BY <1>t, <3>1 DEF NobodyEnters, Still, TypeOK
  <2>2. ASSUME NEW t \in Threads,
               \/ Join(t) \/ Submit(t) \/ Refuse(t) \/ Dispatch(t) \/ Withdraw(t)
               \/ FollowerExpire(t) \/ Finish(t) \/ GateExpire(t)
        PROVE  NobodyEnters /\ up' = up
    BY <1>t, <2>2, LaneFrame
       DEF Join, Submit, Refuse, Dispatch, Withdraw, FollowerExpire, Finish, GateExpire
  <2>3. NobodyEnters /\ up' = up /\ UNCHANGED workVars
    BY <1>1, <2>1, <2>2 DEF LaneStep, LaneNext, Aside
  <2>q. QED BY <2>3, WorkersElsewhere
<1>2. ASSUME NEW t \in Threads, Deadline(t) \/ Stuck(t) PROVE WorkerInv'
  <2>1. NobodyEnters /\ UNCHANGED workVars /\ (up' => up)
    BY <1>t, <1>2, ClockFrame DEF Deadline, Stuck, Expire, HardTimeout
  <2>q. QED BY <2>1, WorkersElsewhere
<1>3. ASSUME NEW t \in Threads, CallHandler(t) \/ HandlerReturns(t) PROVE WorkerInv'
  <2>1. t \in Inline /\ UNCHANGED workVars
    BY <1>3 DEF CallHandler, HandlerReturns
  <2>2. up' = up /\ \A u \in Threads \ {t} : Still(call[u], call'[u])
    BY <1>t, <1>3, WorkFrame DEF CallHandler, HandlerReturns, Outcome
  <2>q. QED BY <2>1, <2>2 DEF WorkerInv, workVars, Still, At, Worker!Alive
<1>4. ASSUME NEW t \in Threads, BeginWork(t) PROVE WorkerInv'
  <2>1. up' = up /\ \A u \in Threads \ {t} : Still(call[u], call'[u])
    BY <1>t, <1>4, WorkFrame DEF BeginWork
  <2>2. t \notin Inline /\ Worker!Spawn(t) /\ call'[t].at = "working"
    BY <1>t, <1>4, GoFrame, Names DEF BeginWork, EnterGate, At
  <2>q. QED BY <2>1, <2>2 DEF WorkerInv, Worker!Spawn, Still, At, Worker!Alive
<1>5. ASSUME NEW t \in Threads, FinishWork(t) PROVE WorkerInv'
  <2>1. Worker!Return(t) /\ Worker!Returned(t) /\ EndWork(t, parent[t]) /\ parent[t] \in Outcome
    BY <1>5 DEF FinishWork, Worker!Return, Worker!Returned, Outcome
  <2>2. up' = up /\ \A u \in Threads \ {t} : Still(call[u], call'[u])
    BY <1>t, <2>1, WorkFrame
  <2>q. QED BY <2>1, <2>2 DEF WorkerInv, Worker!Return, Worker!Returned, Still, At, Worker!Alive
<1>6. ASSUME NEW t \in Threads, WorkStep(t) \/ ChildStep(t) PROVE WorkerInv'
  BY <1>6, ParentKeepsWorkers, ChildKeepsWorkers DEF WorkStep, ChildStep
<1>7. CASE UNCHANGED vars
  BY <1>7 DEF vars, WorkerInv, workVars, shardVars, At, Worker!Alive
<1>q. QED BY <1>1, <1>2, <1>3, <1>4, <1>5, <1>6, <1>7 DEF Next

\* A job gives its slot of the gate back only when its child is dead, so the slots bound
\* the processes too.
THEOREM ReapedCorrect == Spec => []ReapedBeforeRelease
<1>1. RequestInit => LeaseInv /\ WorkerInv
  <2>1. RequestInit => WorkerInv
    BY DEF RequestInit, Init, Idle, Worker!WorkerInit, WorkerInv, Worker!Alive, At
  <2>q. QED BY <2>1, LeasesStart DEF RequestInit
<1>2. WorkerInv => ReapedBeforeRelease
  BY DEF WorkerInv, ReapedBeforeRelease
<1>q. QED BY <1>1, <1>2, StepKeepsLeases, StepKeepsWorkers, PTL DEF Spec

-----------------------------------------------------------------------------
(* The calls of one piece of work.                                         *)

\* A job goes over to its end with an outcome.
Ends(t) ==
  \E o \in Outcome \ {"none"} :
    /\ call[t].at \in {"gating", "working"}
    /\ call' = [call EXCEPT ![t].at = "finishing", ![t].outcome = o]

\* What a step of the daemon does to the calls.
LEMMA StepKinds ==
  ASSUME [Next]_vars
  PROVE  \/ \E t \in Threads, k \in Keys : \E l \in Asks[t] : AcquireLane(t, l, k)
         \/ \E t \in Threads :
              \/ ReleaseLane(t) \/ Join(t) \/ Submit(t) \/ Refuse(t) \/ Dispatch(t)
              \/ Withdraw(t) \/ FollowerExpire(t) \/ Finish(t)
              \/ EnterGate(t) \/ Ends(t) \/ Expire(t)
         \/ call' = call
<1>1. CASE LaneStep
  <2>1. ASSUME NEW t \in Threads, GateExpire(t) PROVE Ends(t)
    BY <2>1 DEF GateExpire, Ends, At, Outcome
  <2>q. QED BY <1>1, <2>1 DEF LaneStep, LaneNext
<1>2. ASSUME NEW t \in Threads, NEW o \in Outcome \ {"none"}, EndWork(t, o) PROVE Ends(t)
  <2>1. PICK w \in Outcome \ {"none"} : call' = [call EXCEPT ![t].at = "finishing", ![t].outcome = w]
    BY <1>2 DEF EndWork, Outcome
  <2>q. QED BY <1>2, <2>1 DEF EndWork, Ends, At
<1>3. ASSUME NEW t \in Threads, HandlerReturns(t) PROVE Ends(t)
  BY <1>2, <1>3 DEF HandlerReturns, Outcome
<1>4. ASSUME NEW t \in Threads, FinishWork(t) PROVE Ends(t)
  BY <1>2, <1>4 DEF FinishWork, Worker!Return, Worker!Returned, Outcome
<1>5. ASSUME NEW t \in Threads, Stuck(t) \/ WorkStep(t) \/ ChildStep(t) PROVE call' = call
  BY <1>5 DEF Stuck, HardTimeout, WorkStep, ChildStep, shardVars
<1>q. QED BY <1>1, <1>3, <1>4, <1>5 DEF Next, Deadline, CallHandler, BeginWork, vars, shardVars

\* An outcome is there from the end of a job on; a follower waits for a job of its lane
\* and key, and there is one such job.
Outs ==
  \A t \in Threads :
    /\ call[t].at \notin {"finishing", "leaving"} => call[t].outcome = "none"
    /\ At(t, "finishing") => call[t].outcome # "none"
    /\ ~At(t, "idle") => call[t].key \in Keys
Led ==
  \A f \in Threads : At(f, "following") =>
    /\ call[f].leader \in Threads /\ call[call[f].leader].at \in Owning
    /\ call[call[f].leader].lane = call[f].lane /\ call[call[f].leader].key = call[f].key
OneOwner ==
  \A t, u \in Threads :
    (call[t].at \in Owning /\ call[u].at \in Owning
     /\ call[t].lane = call[u].lane /\ call[t].key = call[u].key) => t = u
FlightInv == LeaseInv /\ Outs /\ Led /\ OneOwner

LEMMA FlightStep == FlightInv /\ [Next]_vars => FlightInv'
<1>. SUFFICES ASSUME FlightInv, [Next]_vars PROVE Outs' /\ Led' /\ OneOwner'
  BY StepKeepsLeases DEF FlightInv
<1>t. TypeOK /\ \A u \in Threads : call[u] \in CallRecord
  BY DEF FlightInv, LeaseInv, TypeOK, CallRecord, Outcome
<1>1. ASSUME NEW t \in Threads, NEW k \in Keys, NEW l \in Asks[t], AcquireLane(t, l, k)
      PROVE  Outs' /\ Led' /\ OneOwner'
  <2>1. PICK e : call' = [call EXCEPT ![t] = [Idle EXCEPT !.at = "leased", !.lane = l, !.entry = e, !.key = k]]
    BY <1>1 DEF AcquireLane
  <2>2. \A u \in Threads : u # t => call'[u] = call[u]
    BY <1>t, <2>1 DEF TypeOK
  <2>3. call'[t].at = "leased" /\ call'[t].outcome = "none" /\ call'[t].key = k
    BY <1>t, <2>1 DEF TypeOK, Idle
  <2>4. call[t].at = "idle"
    BY <1>1 DEF AcquireLane, At
  <2>q. QED BY <2>2, <2>3, <2>4, Names DEF FlightInv, Outs, Led, OneOwner, At, Owning
<1>2. ASSUME NEW t \in Threads, ReleaseLane(t) PROVE Outs' /\ Led' /\ OneOwner'
  <2>2. \A u \in Threads : u # t => call'[u] = call[u]
    BY <1>t, <1>2 DEF TypeOK, ReleaseLane
  <2>3. call'[t].at = "idle" /\ call'[t].outcome = "none" /\ call[t].at = "leaving"
    BY <1>t, <1>2 DEF TypeOK, Idle, ReleaseLane, At
  <2>q. QED BY <2>2, <2>3, Names DEF FlightInv, Outs, Led, OneOwner, At, Owning
<1>3. ASSUME NEW t \in Threads, Join(t) PROVE Outs' /\ Led' /\ OneOwner'
  <2>1. PICK v \in InFlight(call[t].entry, call[t].key) :
          call' = [call EXCEPT ![t].at = "following", ![t].leader = v]
    BY <1>3 DEF Join
  <2>2. /\ call[t].at = "leased" /\ v \in Threads /\ call[v].at \in Owning
        /\ call[v].entry = call[t].entry /\ call[v].key = call[t].key
    BY <1>3, <2>1 DEF Join, At, InFlight, In
  <2>3. call[v].lane = call[t].lane
    BY <2>2, ShardedAssumption DEF FlightInv, LeaseInv, At, Owning
  <2>4. \A u \in Threads : call'[u] = IF u = t THEN [call[u] EXCEPT !.at = "following", !.leader = v]
                                               ELSE call[u]
    BY <1>t, <2>1 DEF TypeOK, Go
  <2>5. /\ call'[t].at = "following" /\ call'[t].leader = v /\ call'[t].outcome = call[t].outcome
        /\ call'[t].lane = call[t].lane /\ call'[t].key = call[t].key
    BY <1>t, <2>4 DEF CallRecord
  <2>6. v # t
    BY <2>2 DEF Owning
  <2>r. \A u \in Threads : u # t => call'[u] = call[u]
    BY <2>4
  <2>x. Outs'
    BY <2>2, <2>3, <2>r, <2>5, <2>6 DEF FlightInv, Outs, At, Owning
  <2>y. Led'
    BY <2>2, <2>3, <2>r, <2>5, <2>6 DEF FlightInv, Led, At, Owning
  <2>z. OneOwner'
    BY <2>2, <2>3, <2>r, <2>5, <2>6 DEF FlightInv, OneOwner, Owning
  <2>q. QED BY <2>x, <2>y, <2>z
<1>4. ASSUME NEW t \in Threads, Submit(t) PROVE Outs' /\ Led' /\ OneOwner'
  <2>1. /\ Go(t, "queued") /\ call[t].at = "leased"
        /\ \A u \in Threads : call[u].at \in Owning =>
             call[u].entry # call[t].entry \/ call[u].key # call[t].key
    BY <1>4 DEF Submit, At, InFlight, In
  <2>2. \A u \in Threads : call'[u] = IF u = t THEN [call[u] EXCEPT !.at = "queued"] ELSE call[u]
    BY <1>t, <2>1 DEF TypeOK, Go
  <2>3. /\ call'[t].at = "queued" /\ call'[t].outcome = call[t].outcome
        /\ call'[t].lane = call[t].lane /\ call'[t].key = call[t].key
    BY <1>t, <2>2 DEF CallRecord
  <2>4. \A u \in Threads : call[u].at \in Owning =>
          call[u].lane # call[t].lane \/ call[u].key # call[t].key
    BY <2>1 DEF FlightInv, LeaseInv, At, Owning
  <2>r. \A u \in Threads : u # t => call'[u] = call[u]
    BY <2>2
  <2>x. Outs'
    BY <2>1, <2>r, <2>3, <2>4 DEF FlightInv, Outs, At, Owning
  <2>y. Led'
    BY <2>1, <2>r, <2>3, <2>4 DEF FlightInv, Led, At, Owning
  <2>z. OneOwner'
    BY <2>1, <2>r, <2>3, <2>4 DEF FlightInv, OneOwner, Owning
  <2>q. QED BY <2>x, <2>y, <2>z
<1>5. ASSUME NEW t \in Threads, Refuse(t) \/ Dispatch(t) \/ EnterGate(t)
      PROVE  Outs' /\ Led' /\ OneOwner'
  <2>1. PICK p \in {"leaving", "gating", "working"} :
          /\ Go(t, p)
          /\ \/ call[t].at = "leased" /\ p = "leaving"
             \/ call[t].at \in {"queued", "gating"} /\ p # "leaving"
    BY <1>5 DEF Refuse, Dispatch, EnterGate, At
  <2>2. \A u \in Threads : call'[u] = IF u = t THEN [call[u] EXCEPT !.at = p] ELSE call[u]
    BY <1>t, <2>1 DEF TypeOK, Go
  <2>3. /\ call'[t].at = p /\ call'[t].outcome = call[t].outcome
        /\ call'[t].lane = call[t].lane /\ call'[t].key = call[t].key
    BY <1>t, <2>2 DEF CallRecord
  <2>r. \A u \in Threads : u # t => call'[u] = call[u]
    BY <2>2
  <2>x. Outs'
    BY <2>1, <2>r, <2>3 DEF FlightInv, Outs, At, Owning
  <2>y. Led'
    BY <2>1, <2>r, <2>3 DEF FlightInv, Led, At, Owning
  <2>z. OneOwner'
    BY <2>1, <2>r, <2>3 DEF FlightInv, OneOwner, Owning
  <2>q. QED BY <2>x, <2>y, <2>z
<1>6. ASSUME NEW t \in Threads, Withdraw(t) \/ Finish(t) PROVE Outs' /\ Led' /\ OneOwner'
  <2>1. PICK o : call' = Settled(t, o)
    BY <1>6 DEF Withdraw, Finish
  <2>2. call[t].at \in {"queued", "finishing"}
    BY <1>6 DEF Withdraw, Finish, At
  <2>3. call'[t].at = "leaving" /\ call'[t].key = call[t].key
    BY <1>t, <2>1 DEF Settled, CallRecord
  <2>4. ASSUME NEW u \in Threads \ {t}
        PROVE  \/ At(u, "following") /\ call'[u].at = "leaving" /\ call'[u].key = call[u].key
               \/ ~(At(u, "following") /\ call[u].leader = t) /\ call'[u] = call[u]
    BY <1>t, <2>1 DEF Settled, Followers, CallRecord
  <2>5. Outs'
    BY <2>2, <2>3, <2>4 DEF FlightInv, Outs, At
  <2>6. Led' /\ OneOwner'
    BY <2>3, <2>4 DEF FlightInv, Led, OneOwner, At, Owning
  <2>q. QED BY <2>5, <2>6
<1>7. ASSUME NEW t \in Threads, FollowerExpire(t) PROVE Outs' /\ Led' /\ OneOwner'
  <2>1. call[t].at = "following" /\ call' = [call EXCEPT ![t].at = "leaving", ![t].leader = None]
    BY <1>7 DEF FollowerExpire, At
  <2>2. \A u \in Threads : call'[u] = IF u = t THEN [call[u] EXCEPT !.at = "leaving", !.leader = None]
                                               ELSE call[u]
    BY <1>t, <2>1 DEF TypeOK, Go
  <2>3. call'[t].at = "leaving" /\ call'[t].key = call[t].key
    BY <1>t, <2>2 DEF CallRecord
  <2>r. \A u \in Threads : u # t => call'[u] = call[u]
    BY <2>2
  <2>s. call[t].at = "following"
    BY <2>1
  <2>x. Outs'
    BY <2>s, <2>r, <2>3 DEF FlightInv, Outs, At, Owning
  <2>y. Led'
    BY <2>s, <2>r, <2>3 DEF FlightInv, Led, At, Owning
  <2>z. OneOwner'
    BY <2>s, <2>r, <2>3 DEF FlightInv, OneOwner, Owning
  <2>q. QED BY <2>x, <2>y, <2>z
<1>8. ASSUME NEW t \in Threads, Ends(t) PROVE Outs' /\ Led' /\ OneOwner'
  <2>1. PICK o \in Outcome \ {"none"} :
          /\ call[t].at \in {"gating", "working"}
          /\ call' = [call EXCEPT ![t].at = "finishing", ![t].outcome = o]
    BY <1>8 DEF Ends
  <2>2. \A u \in Threads : call'[u] = IF u = t THEN [call[u] EXCEPT !.at = "finishing", !.outcome = o]
                                               ELSE call[u]
    BY <1>t, <2>1 DEF TypeOK, Go
  <2>3. /\ call'[t].at = "finishing" /\ call'[t].outcome = o
        /\ call'[t].lane = call[t].lane /\ call'[t].key = call[t].key
    BY <1>t, <2>2 DEF CallRecord
  <2>r. \A u \in Threads : u # t => call'[u] = call[u]
    BY <2>2
  <2>s. call[t].at \in {"gating", "working"} /\ o \in Outcome \ {"none"}
    BY <2>1
  <2>x. Outs'
    BY <2>s, <2>r, <2>3 DEF FlightInv, Outs, At, Owning
  <2>y. Led'
    BY <2>s, <2>r, <2>3 DEF FlightInv, Led, At, Owning
  <2>z. OneOwner'
    BY <2>s, <2>r, <2>3 DEF FlightInv, OneOwner, Owning
  <2>q. QED BY <2>x, <2>y, <2>z
<1>9. ASSUME NEW t \in Threads, Expire(t) PROVE Outs' /\ Led' /\ OneOwner'
  <2>1. \A u \in Threads : /\ call'[u].at = call[u].at /\ call'[u].outcome = call[u].outcome
                           /\ call'[u].lane = call[u].lane /\ call'[u].key = call[u].key
                           /\ call'[u].leader = call[u].leader
    BY <1>t, <1>9 DEF Expire, CallRecord, TypeOK
  <2>x. Outs'
    BY <2>1 DEF FlightInv, Outs, At, Owning
  <2>y. Led'
    BY <2>1 DEF FlightInv, Led, At, Owning
  <2>z. OneOwner'
    BY <2>1 DEF FlightInv, OneOwner, Owning
  <2>q. QED BY <2>x, <2>y, <2>z
<1>10. CASE call' = call
  BY <1>10 DEF FlightInv, Outs, Led, OneOwner, At
<1>q. QED BY <1>1, <1>2, <1>3, <1>4, <1>5, <1>6, <1>7, <1>8, <1>9, <1>10, StepKinds

LEMMA FlightStarts == RequestInit => FlightInv
<1>. SUFFICES ASSUME RequestInit PROVE FlightInv
  OBVIOUS
<1>1. \A t \in Threads : call[t].at = "idle" /\ call[t].outcome = "none"
  BY DEF RequestInit, Init, Idle
<1>q. QED BY <1>1, LeasesStart DEF RequestInit, FlightInv, Outs, Led, OneOwner, At, Owning

-----------------------------------------------------------------------------
(* The time that calls lend to a job.                                      *)

\* A job is given up only when the time of all who wait for it has passed, or when it has
\* none and the limit of its child ends it; who joins after that comes too late.
GivenUp(u) ==
  parent[u] \in {"doomed", "deadline"} \/ (At(u, "finishing") /\ call[u].outcome = "deadline")
LateInv ==
  \A u \in Threads : GivenUp(u) => \A f \in Followers(u) : ~call[f].live \/ f \in late

LEMMA LateFrame ==
  ASSUME LateInv,
         \A f \in Threads : At(f, "following")' =>
           \/ /\ At(f, "following") /\ call'[f].leader = call[f].leader
              /\ (call'[f].live => call[f].live) /\ (f \in late => f \in late')
           \/ f \in late'
           \/ \A u \in Threads : call'[f].leader = u => ~GivenUp(u)',
         \A u \in Threads : GivenUp(u)' =>
           GivenUp(u) \/ \A f \in Followers(u) : ~call[f].live \/ f \in late'
  PROVE  LateInv'
<1>. SUFFICES ASSUME NEW u \in Threads, GivenUp(u)', NEW f \in Followers(u)', call'[f].live
              PROVE  f \in late'
  BY DEF LateInv
<1>1. f \in Threads /\ At(f, "following")' /\ call'[f].leader = u
  BY DEF Followers
<1>2. CASE /\ At(f, "following") /\ call'[f].leader = call[f].leader
           /\ (call'[f].live => call[f].live) /\ (f \in late => f \in late')
  <2>1. f \in Followers(u)
    BY <1>1, <1>2 DEF Followers
  <2>q. QED BY <1>2, <2>1 DEF LateInv
<1>q. QED BY <1>1, <1>2

\* Outside of the work, a job is given up only in the queue of the gate.
LEMMA LaneGivesUp ==
  ASSUME TypeOK, LaneNext
  PROVE  /\ \A u \in Threads : At(u, "finishing")' /\ call'[u].outcome = "deadline" =>
              (At(u, "finishing") /\ call[u].outcome = "deadline") \/ ~TokenLive(u)
         /\ \A f \in Threads : At(f, "following")' =>
              \/ At(f, "following") /\ call'[f].leader = call[f].leader /\ call'[f].live = call[f].live
              \/ Join(f)
<1>. DEFINE Waits(f) == At(f, "following")' =>
              \/ At(f, "following") /\ call'[f].leader = call[f].leader /\ call'[f].live = call[f].live
              \/ Join(f)
            Gives(u) == At(u, "finishing")' /\ call'[u].outcome = "deadline" =>
              (At(u, "finishing") /\ call[u].outcome = "deadline") \/ ~TokenLive(u)
<1>t. call \in [Threads -> CallRecord]
  BY DEF TypeOK, CallRecord, Outcome
\* One thread moves, to another place.
<1>0. ASSUME NEW t \in Threads, \A u \in Threads \ {t} : call'[u] = call[u],
             call'[t].at \notin {"following", "finishing"}
      PROVE  \A u \in Threads : Waits(u) /\ Gives(u)
  BY <1>0 DEF At
<1>1. ASSUME NEW t \in Threads, NEW k \in Keys, NEW l \in Asks[t], AcquireLane(t, l, k)
      PROVE  \A u \in Threads : Waits(u) /\ Gives(u)
  <2>1. PICK e : call' = [call EXCEPT ![t] = [Idle EXCEPT !.at = "leased", !.lane = l, !.entry = e, !.key = k]]
    BY <1>1 DEF AcquireLane
  <2>2. call'[t].at = "leased" /\ \A u \in Threads \ {t} : call'[u] = call[u]
    BY <1>t, <2>1 DEF Idle
  <2>. HIDE DEF Waits, Gives
  <2>q. QED BY <1>0, <2>2
<1>2. ASSUME NEW t \in Threads,
             ReleaseLane(t) \/ Submit(t) \/ Refuse(t) \/ Dispatch(t) \/ FollowerExpire(t)
      PROVE  \A u \in Threads : Waits(u) /\ Gives(u)
  <2>1. call'[t].at \in {"idle", "queued", "leaving", "gating"} /\ \A u \in Threads \ {t} : call'[u] = call[u]
    BY <1>t, <1>2 DEF ReleaseLane, Submit, Refuse, Dispatch, FollowerExpire, Go, Idle, CallRecord
  <2>. HIDE DEF Waits, Gives
  <2>q. QED BY <1>0, <2>1
<1>3. ASSUME NEW t \in Threads, Join(t) PROVE \A u \in Threads : Waits(u) /\ Gives(u)
  <2>1. PICK v : call' = [call EXCEPT ![t].at = "following", ![t].leader = v]
    BY <1>3 DEF Join
  <2>2. call'[t].at = "following" /\ \A u \in Threads \ {t} : call'[u] = call[u]
    BY <1>t, <2>1 DEF CallRecord
  <2>q. QED BY <1>3, <2>2 DEF At
<1>4. ASSUME NEW t \in Threads, Withdraw(t) \/ Finish(t)
      PROVE  \A u \in Threads : Waits(u) /\ Gives(u)
  <2>1. PICK o : call' = Settled(t, o)
    BY <1>4 DEF Withdraw, Finish
  <2>2. \A u \in Threads : call'[u].at = "leaving" \/ call'[u] = call[u]
    BY <1>t, <2>1 DEF Settled, CallRecord
  <2>q. QED BY <2>2 DEF At
<1>5. ASSUME NEW t \in Threads, GateExpire(t) PROVE \A u \in Threads : Waits(u) /\ Gives(u)
  <2>1. ~TokenLive(t) /\ call' = [call EXCEPT ![t].at = "finishing", ![t].outcome = "deadline"]
    BY <1>5 DEF GateExpire
  <2>2. call'[t].at = "finishing" /\ \A u \in Threads \ {t} : call'[u] = call[u]
    BY <1>t, <2>1 DEF CallRecord
  <2>q. QED BY <2>1, <2>2 DEF At
<1>6. \A u \in Threads : Waits(u) /\ Gives(u)
  <2>. HIDE DEF Waits, Gives
  <2>q. QED BY <1>1, <1>2, <1>3, <1>4, <1>5 DEF LaneNext
<1>q. QED BY <1>6

LEMMA LateStep == TypeOK /\ WorkerInv /\ LateInv /\ [Next]_vars => LateInv'
<1>. SUFFICES ASSUME TypeOK, WorkerInv, LateInv, [Next]_vars PROVE LateInv'
  OBVIOUS
<1>t. call \in [Threads -> CallRecord]
  BY DEF TypeOK, CallRecord, Outcome
<1>p. /\ parent = [t \in Threads |-> parent[t]]
      /\ \A t \in Threads : inbox[t] \in {"none", "result", "error", "eof"}
  BY DEF WorkerInv
<1>n. \A u \in Threads : ~TokenLive(u) => \A f \in Followers(u) : ~call[f].live
  BY DEF TokenLive
\* Nobody joins, no deadline comes back, and nothing is given up but what has no time left.
<1>0. ASSUME \A f \in Threads : At(f, "following")' =>
               /\ At(f, "following") /\ call'[f].leader = call[f].leader
               /\ (call'[f].live => call[f].live),
             late \subseteq late',
             \A u \in Threads : GivenUp(u)' => GivenUp(u) \/ ~TokenLive(u)
      PROVE  LateInv'
  BY <1>0, <1>n, LateFrame
<1>1. CASE LaneStep
  <2>1. /\ parent' = parent
        /\ \A f \in Threads : At(f, "following")' =>
             (f \in late \/ (At(f, "leased") /\ Doomed(call'[f].leader)) => f \in late')
    BY <1>1 DEF LaneStep, Aside, workVars, At
  <2>2. /\ \A u \in Threads : At(u, "finishing")' /\ call'[u].outcome = "deadline" =>
             (At(u, "finishing") /\ call[u].outcome = "deadline") \/ ~TokenLive(u)
        /\ \A f \in Threads : At(f, "following")' =>
             \/ At(f, "following") /\ call'[f].leader = call[f].leader /\ call'[f].live = call[f].live
             \/ Join(f)
    BY <1>1, LaneGivesUp DEF LaneStep
  <2>3. ASSUME NEW f \in Threads, Join(f) PROVE f \in late' \/ \A u \in Threads : call'[f].leader = u => ~GivenUp(u)'
    <3>1. PICK v \in Threads : /\ call[v].at \in Owning /\ call[f].at = "leased"
                               /\ call' = [call EXCEPT ![f].at = "following", ![f].leader = v]
      BY <2>3 DEF Join, InFlight, In, At
    <3>2. v # f /\ call'[v] = call[v] /\ call'[f].at = "following" /\ call'[f].leader = v
      BY <1>t, <3>1 DEF Owning, CallRecord
    <3>3. GivenUp(v)' => Doomed(v)
      BY <2>1, <3>2 DEF GivenUp, Doomed, At
    <3>q. QED BY <2>1, <3>1, <3>2, <3>3 DEF At
  <2>4. \A u \in Threads : GivenUp(u)' => GivenUp(u) \/ \A f \in Followers(u) : ~call[f].live
    BY <1>n, <2>1, <2>2 DEF GivenUp
  <2>q. QED BY <2>1, <2>2, <2>3, <2>4, LateFrame
<1>2. ASSUME NEW t \in Threads, Deadline(t) \/ Stuck(t) PROVE LateInv'
  <2>1. /\ UNCHANGED <<parent, late>>
        /\ \A u \in Threads : /\ call'[u].at = call[u].at /\ call'[u].outcome = call[u].outcome
                              /\ call'[u].leader = call[u].leader /\ (call'[u].live => call[u].live)
    BY <1>t, <1>2 DEF Deadline, Stuck, Expire, HardTimeout, workVars, CallRecord
  <2>q. QED BY <1>0, <2>1 DEF GivenUp, At
<1>3. ASSUME NEW t \in Threads, CallHandler(t) \/ BeginWork(t) PROVE LateInv'
  <2>1. /\ call' = [call EXCEPT ![t].at = "working"] /\ late' = late
        /\ \A u \in Threads : parent'[u] \in {"doomed", "deadline"} =>
             parent[u] = parent'[u] \/ (u = t /\ t \notin tokens)
    BY <1>p, <1>3 DEF CallHandler, BeginWork, EnterGate, Go, workVars, Worker!Spawn
  <2>2. call'[t].at = "working" /\ \A u \in Threads \ {t} : call'[u] = call[u]
    BY <1>t, <2>1 DEF CallRecord
  <2>q. QED BY <1>0, <2>1, <2>2 DEF GivenUp, At, tokens
<1>4. ASSUME NEW t \in Threads, NEW o \in Outcome, EndWork(t, o), late' = late,
             o = "deadline" => parent[t] = "deadline",
             \A u \in Threads : parent'[u] \in {"doomed", "deadline"} => parent[u] = parent'[u]
      PROVE  LateInv'
  <2>1. PICK w : /\ call' = [call EXCEPT ![t].at = "finishing", ![t].outcome = w]
                 /\ w = "deadline" => o = "deadline" \/ ~TokenLive(t)
    BY <1>4 DEF EndWork
  <2>2. /\ call'[t].at = "finishing" /\ call'[t].outcome = w
        /\ \A u \in Threads \ {t} : call'[u] = call[u]
    BY <1>t, <2>1 DEF CallRecord
  <2>q. QED BY <1>0, <1>4, <2>1, <2>2 DEF GivenUp, At
<1>5. ASSUME NEW t \in Threads, HandlerReturns(t) PROVE LateInv'
  BY <1>4, <1>5 DEF HandlerReturns, workVars, Outcome
<1>6. ASSUME NEW t \in Threads, FinishWork(t) PROVE LateInv'
  <2>1. /\ parent[t] \in Outcome /\ EndWork(t, parent[t]) /\ late' = late
        /\ \A u \in Threads : parent'[u] \in {"doomed", "deadline"} => parent[u] = parent'[u]
    BY <1>p, <1>6 DEF FinishWork, Worker!Return, Worker!Returned, Outcome
  <2>q. QED BY <1>4, <2>1
<1>7. ASSUME NEW t \in Threads, WorkStep(t) PROVE LateInv'
  <2>1. call' = call /\ late \subseteq late'
    BY <1>7 DEF WorkStep, shardVars
  <2>2. CASE Worker!Doom(t)
    <3>1. /\ \A u \in Threads : parent'[u] \in {"doomed", "deadline"} => u = t \/ parent[u] = parent'[u]
          /\ t \notin tokens \/ t \in unlimited
      BY <1>p, <2>2 DEF Worker!Doom, Worker!Step
    <3>2. t \in unlimited => Followers(t) \subseteq late'
      BY <1>7, <2>2 DEF WorkStep
    <3>3. \A u \in Threads : GivenUp(u)' =>
            GivenUp(u) \/ \A f \in Followers(u) : ~call[f].live \/ f \in late'
      BY <1>n, <2>1, <3>1, <3>2 DEF GivenUp, At, tokens
    <3>q. QED BY <2>1, <3>3, LateFrame DEF At
  <2>3. CASE \/ Worker!Start(t) \/ Worker!Receive(t) \/ Worker!SeeDead(t) \/ Worker!GiveUp(t)
             \/ Worker!Terminate(t) \/ Worker!Reap(t) \/ Worker!Read(t)
    <3>1. \A u \in Threads : parent'[u] \in {"doomed", "deadline"} =>
            parent[u] \in {"doomed", "deadline"} \/ (u = t /\ t \notin tokens)
      BY <1>p, <2>3 DEF Worker!Start, Worker!Receive, Worker!SeeDead, Worker!GiveUp, Worker!Terminate,
                  Worker!Reap, Worker!Read, Worker!Step
    <3>q. QED BY <1>0, <2>1, <3>1 DEF GivenUp, At, tokens
  <2>q. QED BY <1>7, <2>2, <2>3 DEF WorkStep, Worker!ParentSteps
<1>8. ASSUME NEW t \in Threads, ChildStep(t) PROVE LateInv'
  <2>1. UNCHANGED <<call, parent, late>>
    BY <1>8 DEF ChildStep, Worker!ChildSteps, Worker!Answer, Worker!Exit, shardVars
  <2>q. QED BY <1>0, <2>1 DEF GivenUp, At
<1>9. CASE UNCHANGED vars
  <2>1. UNCHANGED <<call, parent, late>>
    BY <1>9 DEF vars, workVars, shardVars
  <2>q. QED BY <1>0, <2>1 DEF GivenUp, At
<1>q. QED BY <1>1, <1>2, <1>3, <1>5, <1>6, <1>7, <1>8, <1>9 DEF Next

\* A call that joins a job is told of a deadline only when its own has passed, when it
\* joined too late, or when a call without deadline had left the job to the limit of its
\* child (_invoke_heavy_handler, HeavyWorkCoordinator.run).
THEOREM LentTimeCorrect == Spec => LentTimeIsUsed
<1>. DEFINE IInv == FlightInv /\ WorkerInv /\ LateInv
<1>1. RequestInit => IInv
  <2>1. RequestInit => WorkerInv /\ LateInv
    BY DEF RequestInit, Init, Idle, Worker!WorkerInit, WorkerInv, Worker!Alive, At, LateInv, GivenUp
  <2>q. QED BY <2>1, FlightStarts
<1>2. IInv /\ [Next]_vars => IInv'
  BY FlightStep, StepKeepsWorkers, LateStep DEF FlightInv, LeaseInv
<1>3. ASSUME IInv, [Next]_vars, NEW t \in Threads, At(t, "following"),
             call'[t].outcome = "deadline"
      PROVE  ~call[t].live \/ t \in late
  <2>t. call \in [Threads -> CallRecord] /\ call[t].at = "following" /\ call[t].outcome = "none"
    BY <1>3 DEF FlightInv, LeaseInv, TypeOK, CallRecord, Outcome, Outs, At
  <2>0. call'[t].outcome # call[t].outcome
    BY <1>3, <2>t
  \* Only the end of its job tells it.
  <2>1. PICK u \in Threads : t \in Followers(u) /\
               (Withdraw(u) \/ (Finish(u) /\ call[u].outcome = "deadline"))
    <3>1. ASSUME NEW u \in Threads, NEW k \in Keys, NEW l \in Asks[u], AcquireLane(u, l, k)
          PROVE  FALSE
      BY <2>0, <2>t, <3>1 DEF AcquireLane, At
    <3>2. ASSUME NEW u \in Threads,
                 \/ ReleaseLane(u) \/ Join(u) \/ Submit(u) \/ Refuse(u) \/ Dispatch(u)
                 \/ FollowerExpire(u) \/ EnterGate(u) \/ Ends(u) \/ Expire(u)
          PROVE  FALSE
      BY <2>0, <2>t, <3>2 DEF ReleaseLane, Join, Submit, Refuse, Dispatch, FollowerExpire,
         EnterGate, Ends, Expire, At, Go, CallRecord
    <3>3. ASSUME NEW u \in Threads, NEW o, call' = Settled(u, o), call[u].at # "following"
          PROVE  t \in Followers(u) /\ o = "deadline"
      BY <1>3, <2>0, <2>t, <3>3 DEF Settled, CallRecord
    <3>4. PICK u \in Threads : Withdraw(u) \/ Finish(u)
      BY <1>3, <2>0, <3>1, <3>2, StepKinds
    <3>q. QED BY <3>3, <3>4 DEF Withdraw, Finish, At
  <2>2. CASE Withdraw(u)
    BY <2>1, <2>2 DEF Withdraw, TokenLive
  <2>3. CASE Finish(u) /\ call[u].outcome = "deadline"
    BY <1>3, <2>1, <2>3 DEF Finish, LateInv, GivenUp
  <2>q. QED BY <2>1, <2>2, <2>3
<1>4. IInv /\ [Next]_vars =>
        [\A t \in Threads :
           At(t, "following") /\ call'[t].outcome = "deadline" => ~call[t].live \/ t \in late]_vars
  BY <1>3
<1>q. QED BY <1>1, <1>2, <1>4, PTL DEF Spec, LentTimeIsUsed

-----------------------------------------------------------------------------
(* Single flight across lanes: the calls of each piece of work, a lane and  *)
(* a key, are CoalescedCalls.                                              *)

Work == Lanes \X Keys
InWork(u) == call[u].at \in Owning \cup {"following"}
On(u, w) == call[u].lane = w[1] /\ call[u].key = w[2]
WorkOf(u) == <<call[u].lane, call[u].key>>

\* A step that a call does not notice, and one of work that it has no part in.
Seat(u) ==
  /\ call'[u].at \in Owning <=> call[u].at \in Owning
  /\ At(u, "following")' <=> At(u, "following")
  /\ At(u, "queued")' <=> At(u, "queued")
  /\ InWork(u) => call'[u].lane = call[u].lane /\ call'[u].key = call[u].key
Away(u, w) == ~(InWork(u) /\ On(u, w))

LEMMA Pairs ==
  /\ \A l \in Lanes, k \in Keys : <<l, k>> \in Work /\ <<l, k>>[1] = l /\ <<l, k>>[2] = k
  /\ \A v, w \in Work : v[1] = w[1] /\ v[2] = w[2] => v = w
BY DEF Work

LEMMA MembersAre ==
  \A w \in Work : Members[w] = {u \in Threads : InWork(u) /\ On(u, w)}
BY DEF Work, Members, Owners, InWork, On, At

LEMMA OtherWork ==
  ASSUME NEW w \in Work, \A u \in Threads : Seat(u) \/ (Away(u, w) /\ Away(u, w)')
  PROVE  Stage'[w] = Stage[w] /\ Members'[w] = Members[w]
<1>1. Owners(w)' = Owners(w)
  BY DEF Owners, Seat, Away, InWork, On
<1>2. (\A t \in Owners(w)' : At(t, "queued")') <=> \A t \in Owners(w) : At(t, "queued")
  BY <1>1 DEF Owners, Seat, Away, InWork, On
<1>3. {u \in Threads : InWork(u)' /\ On(u, w)'} = {u \in Threads : InWork(u) /\ On(u, w)}
  BY DEF Seat, Away, InWork, On, At
<1>4. /\ Members'[w] = {u \in Threads : InWork(u)' /\ On(u, w)'}
      /\ Members[w] = {u \in Threads : InWork(u) /\ On(u, w)}
  BY DEF Work, Members, Owners, InWork, On, At
<1>5. Stage'[w] = Stage[w]
  BY <1>1, <1>2 DEF Stage, Work
<1>q. QED BY <1>3, <1>4, <1>5

\* The abstract variables as functions of the work.
LEMMA Written ==
  ASSUME NEW v \in Work, \A w \in Work \ {v} : Stage'[w] = Stage[w] /\ Members'[w] = Members[w]
  PROVE  /\ Stage' = [Stage EXCEPT ![v] = Stage'[v]]
         /\ Members' = [Members EXCEPT ![v] = Members'[v]]
<1>1. /\ Stage = [w \in Work |-> Stage[w]] /\ Stage' = [w \in Work |-> Stage'[w]]
      /\ Members = [w \in Work |-> Members[w]] /\ Members' = [w \in Work |-> Members'[w]]
  BY DEF Stage, Members, Work
<1>q. QED BY <1>1

LEMMA NothingHappens ==
  ASSUME \A u \in Threads : Seat(u), \A u \in Threads : Answer'[u] = Answer[u]
  PROVE  UNCHANGED Flights!cvars
<1>1. \A w \in Work : Stage'[w] = Stage[w] /\ Members'[w] = Members[w]
  BY OtherWork
<1>2. /\ Stage = [w \in Work |-> Stage[w]] /\ Stage' = [w \in Work |-> Stage'[w]]
      /\ Members = [w \in Work |-> Members[w]] /\ Members' = [w \in Work |-> Members'[w]]
      /\ Answer = [u \in Threads |-> Answer[u]] /\ Answer' = [u \in Threads |-> Answer'[u]]
  BY DEF Stage, Members, Work, Answer
<1>3. Stage' = Stage /\ Members' = Members /\ Answer' = Answer
  BY <1>1, <1>2
<1>q. QED BY <1>3 DEF Flights!cvars

LEMMA SameAnswers ==
  ASSUME \A u \in Threads : Answer'[u] = Answer[u]
  PROVE  Answer' = Answer
<1>1. Answer = [u \in Threads |-> Answer[u]] /\ Answer' = [u \in Threads |-> Answer'[u]]
  BY DEF Answer
<1>q. QED BY <1>1

\* The work of an owner: it and its followers are the members.
LEMMA OwnerHasWork ==
  ASSUME FlightInv, NEW t \in Threads, call[t].at \in Owning
  PROVE  /\ WorkOf(t) \in Work /\ WorkOf(t)[1] = call[t].lane /\ WorkOf(t)[2] = call[t].key
         /\ Owners(WorkOf(t)) = {t}
         /\ Members[WorkOf(t)] = {t} \cup Followers(t) /\ t \notin Followers(t)
         /\ Stage[WorkOf(t)] = IF At(t, "queued") THEN "open" ELSE "computing"
<1>1. call[t].lane \in Lanes /\ call[t].key \in Keys
  BY DEF FlightInv, LeaseInv, Outs, At, Owning
<1>2. WorkOf(t) \in Work /\ WorkOf(t)[1] = call[t].lane /\ WorkOf(t)[2] = call[t].key
  BY <1>1, Pairs DEF WorkOf
<1>. DEFINE w == WorkOf(t)
<1>. HIDE DEF w
<1>3. w \in Work /\ w[1] = call[t].lane /\ w[2] = call[t].key
  BY <1>2 DEF w
<1>4. Owners(w) = {t}
  BY <1>3 DEF Owners, FlightInv, OneOwner
<1>5. \A f \in Threads : At(f, "following") /\ On(f, w) <=> f \in Followers(t)
  BY <1>3 DEF FlightInv, Led, OneOwner, Followers, On
<1>6. Members[w] = {t} \cup Followers(t)
  BY <1>3, <1>4, <1>5 DEF Members, Work, On, Followers
<1>7. Stage[w] = IF At(t, "queued") THEN "open" ELSE "computing"
  BY <1>3, <1>4 DEF Stage, Work
<1>8. t \notin Followers(t)
  BY DEF Followers, At, Owning
<1>q. QED BY <1>2, <1>4, <1>6, <1>7, <1>8 DEF w

\* Work without an owner has no members.
LEMMA NobodyWaits ==
  ASSUME FlightInv, NEW w \in Work, Owners(w) = {}
  PROVE  Members[w] = {} /\ Stage[w] = "none"
<1>1. ASSUME NEW f \in Threads, At(f, "following"), On(f, w) PROVE FALSE
  <2>1. call[f].leader \in Owners(w)
    BY <1>1 DEF FlightInv, Led, Owners, On
  <2>q. QED BY <2>1
<1>2. Members[w] = {}
  BY <1>1 DEF Members, Work, On
<1>q. QED BY <1>2 DEF Stage, Work

LEMMA SubmitOpens ==
  ASSUME FlightInv, NEW t \in Threads, Submit(t)
  PROVE  Flights!Open(t, WorkOf(t)) /\ WorkOf(t) \in Work
<1>t. call \in [Threads -> CallRecord]
  BY DEF FlightInv, LeaseInv, TypeOK, CallRecord, Outcome
<1>1. /\ call[t].at = "leased" /\ call[t].lane \in Lanes /\ call[t].key \in Keys
      /\ call[t].outcome = "none" /\ call' = [call EXCEPT ![t].at = "queued"]
      /\ \A u \in Threads : call[u].at \in Owning =>
           call[u].entry # call[t].entry \/ call[u].key # call[t].key
  BY DEF Submit, Go, At, InFlight, In, FlightInv, LeaseInv, Outs
<1>2. PICK w \in Work : w = WorkOf(t) /\ w[1] = call[t].lane /\ w[2] = call[t].key
  <2>1. WorkOf(t) \in Work /\ WorkOf(t)[1] = call[t].lane /\ WorkOf(t)[2] = call[t].key
    BY <1>1, Pairs DEF WorkOf
  <2>q. QED BY <2>1
<1>3. /\ call'[t].at = "queued" /\ call'[t].lane = call[t].lane /\ call'[t].key = call[t].key
      /\ call'[t].outcome = "none"
      /\ \A u \in Threads \ {t} : call'[u] = call[u]
  BY <1>t, <1>1 DEF CallRecord
<1>4. Owners(w) = {}
  BY <1>1, <1>2 DEF Owners, FlightInv, LeaseInv, At, Owning
<1>5. Members[w] = {} /\ Stage[w] = "none"
  BY <1>2, <1>4, NobodyWaits
<1>6. Owners(w)' = {t}
  BY <1>2, <1>3, <1>4 DEF Owners, Owning
<1>7. Stage'[w] = "open"
  BY <1>2, <1>3, <1>6 DEF Stage, Work, At
<1>8. Members'[w] = {t}
  <2>1. \A u \in Threads : ~(At(u, "following")' /\ call'[u].lane = w[1] /\ call'[u].key = w[2])
    BY <1>2, <1>3, <1>5 DEF Members, Work, At
  <2>q. QED BY <1>2, <1>6, <2>1 DEF Members, Work
<1>9. ASSUME NEW v \in Work \ {w} PROVE Stage'[v] = Stage[v] /\ Members'[v] = Members[v]
  <2>1. Away(t, v) /\ Away(t, v)'
    BY <1>1, <1>2, <1>3, <1>9, Pairs DEF Away, InWork, On
  <2>2. \A u \in Threads \ {t} : Seat(u)
    BY <1>3 DEF Seat, At
  <2>q. QED BY <2>1, <2>2, OtherWork
<1>10. Answer' = Answer
  BY <1>1, <1>3, SameAnswers DEF Answer, At
<1>11. Flights!Idle(t)
  <2>1. Answer[t] = "none"
    BY <1>1 DEF Answer, At
  <2>2. \A v \in Work : t \notin Members[v]
    BY <1>1, MembersAre DEF InWork, Owning
  <2>q. QED BY <2>1, <2>2 DEF Flights!Idle, Work
<1>12. Stage' = [Stage EXCEPT ![w] = "open"] /\ Members' = [Members EXCEPT ![w] = {t}]
  BY <1>2, <1>7, <1>8, <1>9, Written
<1>13. Flights!Open(t, w)
  BY <1>5, <1>10, <1>11, <1>12 DEF Flights!Open
<1>q. QED BY <1>2, <1>13

LEMMA JoinJoins ==
  ASSUME FlightInv, NEW t \in Threads, Join(t)
  PROVE  Flights!Join(t, WorkOf(t)) /\ WorkOf(t) \in Work
<1>t. call \in [Threads -> CallRecord]
  BY DEF FlightInv, LeaseInv, TypeOK, CallRecord, Outcome
<1>1. PICK v \in Threads :
        /\ call[v].at \in Owning /\ call[v].entry = call[t].entry /\ call[v].key = call[t].key
        /\ Cardinality(Followers(v)) < FollowerLimit
        /\ call' = [call EXCEPT ![t].at = "following", ![t].leader = v]
  BY DEF Join, InFlight, In
<1>2. /\ call[t].at = "leased" /\ call[t].lane \in Lanes /\ call[t].key \in Keys
      /\ call[t].outcome = "none"
  BY DEF Join, At, FlightInv, LeaseInv, Outs
<1>3. call[v].lane = call[t].lane /\ v # t
  BY <1>1, <1>2, ShardedAssumption DEF FlightInv, LeaseInv, At, Owning
<1>4. PICK w \in Work :
        w = WorkOf(t) /\ w = WorkOf(v) /\ w[1] = call[t].lane /\ w[2] = call[t].key
  BY <1>1, <1>2, <1>3, Pairs DEF WorkOf
<1>5. /\ call'[t].at = "following" /\ call'[t].lane = call[t].lane /\ call'[t].key = call[t].key
      /\ \A u \in Threads \ {t} : call'[u] = call[u]
  BY <1>t, <1>1 DEF CallRecord
<1>6. /\ Members[w] = {v} \cup Followers(v) /\ v \notin Followers(v) /\ Stage[w] # "none"
  BY <1>1, <1>4, OwnerHasWork
<1>7. Members'[w] = Members[w] \cup {t} /\ Stage'[w] = Stage[w]
  <2>1. Owners(w)' = Owners(w)
    BY <1>2, <1>5 DEF Owners, Owning
  <2>2. Stage'[w] = Stage[w]
    BY <1>2, <1>4, <1>5, <2>1 DEF Stage, Work, At, Owners, Owning
  <2>3. /\ Members'[w] = {u \in Threads : InWork(u)' /\ On(u, w)'}
        /\ Members[w] = {u \in Threads : InWork(u) /\ On(u, w)}
    BY <1>4 DEF Work, Members, Owners, InWork, On, At
  <2>4. \A u \in Threads : InWork(u)' /\ On(u, w)' <=> u = t \/ (InWork(u) /\ On(u, w))
    BY <1>2, <1>4, <1>5 DEF InWork, On
  <2>q. QED BY <2>2, <2>3, <2>4
<1>8. ASSUME NEW x \in Work \ {w} PROVE Stage'[x] = Stage[x] /\ Members'[x] = Members[x]
  <2>1. Away(t, x) /\ Away(t, x)'
    BY <1>2, <1>4, <1>5, <1>8, Pairs DEF Away, InWork, On, Owning
  <2>2. \A u \in Threads \ {t} : Seat(u)
    BY <1>5 DEF Seat, At
  <2>q. QED BY <2>1, <2>2, OtherWork
<1>9. Answer' = Answer
  BY <1>2, <1>5, SameAnswers DEF Answer, At
<1>10. Flights!Idle(t)
  <2>1. Answer[t] = "none"
    BY <1>2 DEF Answer, At
  <2>2. \A x \in Work : t \notin Members[x]
    BY <1>2, MembersAre DEF InWork, Owning
  <2>q. QED BY <2>1, <2>2 DEF Flights!Idle, Work
<1>11. Stage' = Stage /\ Members' = [Members EXCEPT ![w] = @ \cup {t}]
  <2>1. Stage' = [Stage EXCEPT ![w] = Stage[w]] /\ Members' = [Members EXCEPT ![w] = Members[w] \cup {t}]
    BY <1>4, <1>7, <1>8, Written
  <2>2. Stage = [x \in Work |-> Stage[x]]
    BY DEF Stage, Work
  <2>q. QED BY <2>1, <2>2
<1>12. Flights!Cardinality(Members[w]) < FollowerLimit + 1
  <2>1. IsFiniteSet(Followers(v))
    BY ShardedAssumption, FS_Subset DEF Followers
  <2>2. Cardinality(Members[w]) = Cardinality(Followers(v)) + 1 /\ Cardinality(Followers(v)) \in Nat
    BY <1>6, <2>1, FS_AddElement, FS_CardinalityType
  <2>3. Flights!Cardinality(Members[w]) = Cardinality(Members[w])
    BY DEF Flights!Cardinality, Cardinality
  <2>4. Cardinality(Members[w]) < FollowerLimit + 1
    BY <1>1, <2>2, ShardedAssumption
  <2>q. QED BY <2>3, <2>4
<1>13. Flights!Join(t, w)
  BY <1>6, <1>9, <1>10, <1>11, <1>12 DEF Flights!Join
<1>q. QED BY <1>4, <1>13

LEMMA ExpireLeaves ==
  ASSUME FlightInv, NEW t \in Threads, FollowerExpire(t)
  PROVE  \E w \in Work : Flights!Leave(t, w)
<1>t. call \in [Threads -> CallRecord]
  BY DEF FlightInv, LeaseInv, TypeOK, CallRecord, Outcome
<1>1. PICK v \in Threads :
        /\ call[t].at = "following" /\ call[t].outcome = "none"
        /\ call[t].leader = v /\ call[v].at \in Owning /\ v # t
        /\ call[v].lane = call[t].lane /\ call[v].key = call[t].key
        /\ call' = [call EXCEPT ![t].at = "leaving", ![t].leader = None]
  BY DEF FollowerExpire, At, FlightInv, Outs, Led, Owning
<1>s. call[t].at = "following" /\ call[t].outcome = "none"
  BY <1>1
<1>2. PICK w \in Work : /\ w = WorkOf(v) /\ w[1] = call[t].lane /\ w[2] = call[t].key
                        /\ Members[w] = {v} \cup Followers(v)
  <2>1. /\ WorkOf(v) \in Work /\ WorkOf(v)[1] = call[t].lane /\ WorkOf(v)[2] = call[t].key
        /\ Members[WorkOf(v)] = {v} \cup Followers(v)
    BY <1>1, OwnerHasWork
  <2>q. QED BY <2>1
<1>3. t \in Members[w] /\ Members[w] # {t}
  BY <1>1, <1>2 DEF Followers, At
<1>4. /\ call'[t].at = "leaving" /\ call'[t].outcome = "none"
      /\ \A u \in Threads \ {t} : call'[u] = call[u]
  BY <1>t, <1>1 DEF CallRecord
<1>5. Stage'[w] = Stage[w]
  <2>1. Owners(w)' = Owners(w)
    BY <1>s, <1>4 DEF Owners, Owning
  <2>q. QED BY <1>s, <1>4, <2>1 DEF Stage, Work, At, Owners, Owning
<1>6. Members'[w] = Members[w] \ {t}
  <2>1. /\ Members'[w] = {u \in Threads : InWork(u)' /\ On(u, w)'}
        /\ Members[w] = {u \in Threads : InWork(u) /\ On(u, w)}
    BY DEF Work, Members, Owners, InWork, On, At
  <2>2. \A u \in Threads : InWork(u)' /\ On(u, w)' <=> u # t /\ InWork(u) /\ On(u, w)
    BY <1>4 DEF InWork, On, Owning
  <2>q. QED BY <2>1, <2>2
<1>7. ASSUME NEW x \in Work \ {w} PROVE Stage'[x] = Stage[x] /\ Members'[x] = Members[x]
  <2>1. Away(t, x) /\ Away(t, x)'
    BY <1>1, <1>2, <1>4, <1>7, Pairs DEF Away, InWork, On, Owning
  <2>2. \A u \in Threads \ {t} : Seat(u)
    BY <1>4 DEF Seat, At
  <2>q. QED BY <2>1, <2>2, OtherWork
<1>8. Answer' = Answer
  BY <1>s, <1>4, SameAnswers DEF Answer, At
<1>9. Stage' = Stage /\ Members' = [Members EXCEPT ![w] = @ \ {t}]
  <2>1. Stage' = [Stage EXCEPT ![w] = Stage[w]] /\ Members' = [Members EXCEPT ![w] = Members[w] \ {t}]
    BY <1>5, <1>6, <1>7, Written
  <2>2. Stage = [x \in Work |-> Stage[x]]
    BY DEF Stage, Work
  <2>q. QED BY <2>1, <2>2
<1>10. Flights!Leave(t, w)
  BY <1>3, <1>8, <1>9 DEF Flights!Leave
<1>q. QED BY <1>10

LEMMA DispatchStarts ==
  ASSUME FlightInv, NEW t \in Threads, Dispatch(t)
  PROVE  \E w \in Work : Flights!Start(w)
<1>t. call \in [Threads -> CallRecord]
  BY DEF FlightInv, LeaseInv, TypeOK, CallRecord, Outcome
<1>1. call[t].at = "queued" /\ call' = [call EXCEPT ![t].at = "gating"]
  BY DEF Dispatch, At, Go
<1>2. PICK w \in Work : /\ w[1] = call[t].lane /\ w[2] = call[t].key
                        /\ Owners(w) = {t} /\ Stage[w] = "open"
  <2>1. /\ WorkOf(t) \in Work /\ WorkOf(t)[1] = call[t].lane /\ WorkOf(t)[2] = call[t].key
        /\ Owners(WorkOf(t)) = {t} /\ Stage[WorkOf(t)] = "open"
    BY <1>1, OwnerHasWork DEF At, Owning
  <2>q. QED BY <2>1
<1>3. /\ call'[t].at = "gating" /\ call'[t].lane = call[t].lane /\ call'[t].key = call[t].key
      /\ call'[t].outcome = call[t].outcome
      /\ \A u \in Threads \ {t} : call'[u] = call[u]
  BY <1>t, <1>1 DEF CallRecord
<1>4. Owners(w)' = {t}
  <2>1. Owners(w)' = Owners(w)
    BY <1>1, <1>3 DEF Owners, Owning
  <2>q. QED BY <1>2, <2>1
<1>5. Stage'[w] = "computing"
  BY <1>3, <1>4 DEF Stage, Work, At
<1>6. Members'[w] = Members[w]
  <2>1. /\ Members'[w] = {u \in Threads : InWork(u)' /\ On(u, w)'}
        /\ Members[w] = {u \in Threads : InWork(u) /\ On(u, w)}
    BY DEF Work, Members, Owners, InWork, On, At
  <2>2. \A u \in Threads : InWork(u)' /\ On(u, w)' <=> InWork(u) /\ On(u, w)
    BY <1>1, <1>3 DEF InWork, On, Owning
  <2>q. QED BY <2>1, <2>2
<1>7. ASSUME NEW x \in Work \ {w} PROVE Stage'[x] = Stage[x] /\ Members'[x] = Members[x]
  <2>1. Away(t, x) /\ Away(t, x)'
    BY <1>1, <1>2, <1>3, <1>7, Pairs DEF Away, InWork, On, Owning
  <2>2. \A u \in Threads \ {t} : Seat(u)
    BY <1>3 DEF Seat, At
  <2>q. QED BY <2>1, <2>2, OtherWork
<1>8. Answer' = Answer
  BY <1>1, <1>3, SameAnswers DEF Answer, At
<1>9. Stage' = [Stage EXCEPT ![w] = "computing"] /\ Members' = Members
  <2>1. Stage' = [Stage EXCEPT ![w] = "computing"] /\ Members' = [Members EXCEPT ![w] = Members[w]]
    BY <1>5, <1>6, <1>7, Written
  <2>2. Members = [x \in Work |-> Members[x]]
    BY DEF Members, Work
  <2>q. QED BY <2>1, <2>2
<1>10. Flights!Start(w)
  BY <1>2, <1>8, <1>9 DEF Flights!Start
<1>q. QED BY <1>10

\* A job is over, in the queue or at its end: its owner returns, and every follower has
\* the outcome.
LEMMA SettledCloses ==
  ASSUME FlightInv, NEW t \in Threads, NEW o, call' = Settled(t, o),
         (At(t, "queued") /\ o = "deadline") \/ At(t, "finishing")
  PROVE  \E w \in Work : Flights!Close(t, w, o)
<1>t. call \in [Threads -> CallRecord]
  BY DEF FlightInv, LeaseInv, TypeOK, CallRecord, Outcome
<1>1. call[t].at \in Owning
  BY DEF At, Owning
<1>2. PICK w \in Work : /\ w[1] = call[t].lane /\ w[2] = call[t].key
                        /\ Owners(w) = {t} /\ Members[w] = {t} \cup Followers(t)
                        /\ Stage[w] = IF At(t, "queued") THEN "open" ELSE "computing"
  <2>1. /\ WorkOf(t) \in Work /\ WorkOf(t)[1] = call[t].lane /\ WorkOf(t)[2] = call[t].key
        /\ Owners(WorkOf(t)) = {t} /\ Members[WorkOf(t)] = {t} \cup Followers(t)
        /\ Stage[WorkOf(t)] = IF At(t, "queued") THEN "open" ELSE "computing"
    BY <1>1, OwnerHasWork
  <2>q. QED BY <2>1
<1>3. /\ t \notin Followers(t)
      /\ call'[t].at = "leaving" /\ call'[t].outcome = "none"
      /\ \A f \in Followers(t) : call'[f].at = "leaving" /\ call'[f].outcome = o
      /\ \A u \in Threads \ ({t} \cup Followers(t)) : call'[u] = call[u]
  BY <1>t, <1>1 DEF Settled, CallRecord, Followers, At, Owning
<1>4. \A f \in Followers(t) : f \in Threads /\ At(f, "following") /\ On(f, w)
  BY <1>2 DEF Followers, FlightInv, Led, On
<1>5. \A u \in Threads : ~(InWork(u)' /\ On(u, w)')
  <2>1. {u \in Threads : InWork(u) /\ On(u, w)} = {t} \cup Followers(t)
    BY <1>2, MembersAre
  <2>2. ASSUME NEW u \in {t} \cup Followers(t) PROVE ~InWork(u)'
    BY <1>3, <2>2 DEF InWork, Owning
  <2>3. ASSUME NEW u \in Threads \ ({t} \cup Followers(t)) PROVE ~(InWork(u)' /\ On(u, w)')
    BY <1>3, <2>1, <2>3 DEF InWork, On
  <2>q. QED BY <2>2, <2>3
<1>6. Members'[w] = {} /\ Stage'[w] = "none"
  <2>1. Owners(w)' = {}
    BY <1>5 DEF Owners, InWork, On
  <2>2. Members'[w] = {u \in Threads : InWork(u)' /\ On(u, w)'}
    BY DEF Work, Members, Owners, InWork, On, At
  <2>q. QED BY <1>5, <2>1, <2>2 DEF Stage, Work
<1>7. ASSUME NEW x \in Work \ {w} PROVE Stage'[x] = Stage[x] /\ Members'[x] = Members[x]
  <2>1. On(t, w)
    BY <1>2 DEF On
  <2>2. \A u \in {t} \cup Followers(t) : Away(u, x) /\ Away(u, x)'
    BY <1>3, <1>4, <1>7, <2>1, Pairs DEF Away, InWork, On, Owning
  <2>3. \A u \in Threads \ ({t} \cup Followers(t)) : Seat(u)
    BY <1>3 DEF Seat, At
  <2>q. QED BY <2>2, <2>3, OtherWork
<1>8. Answer' = [u \in Threads |-> IF u \in Members[w] \ {t} THEN o ELSE Answer[u]]
  <2>1. Answer' = [u \in Threads |-> Answer'[u]]
    BY DEF Answer
  <2>2. \A u \in Threads : Answer[u] = IF call[u].at = "leaving" THEN call[u].outcome ELSE "none"
    BY DEF Answer, At
  <2>3. \A u \in Threads : Answer'[u] = IF call'[u].at = "leaving" THEN call'[u].outcome ELSE "none"
    BY DEF Answer, At
  <2>4. \A u \in Threads : Answer'[u] = IF u \in Members[w] \ {t} THEN o ELSE Answer[u]
    <3>1. Answer[t] = "none" /\ Answer'[t] = "none"
      BY <1>1, <1>3, <2>2, <2>3 DEF Owning
    <3>2. \A f \in Followers(t) : Answer'[f] = o
      BY <1>3, <1>4, <2>3
    <3>3. \A u \in Threads \ ({t} \cup Followers(t)) : Answer'[u] = Answer[u]
      BY <1>3, <2>2, <2>3
    <3>q. QED BY <1>2, <1>3, <3>1, <3>2, <3>3
  <2>q. QED BY <2>1, <2>4
<1>9. Stage' = [Stage EXCEPT ![w] = "none"] /\ Members' = [Members EXCEPT ![w] = {}]
  BY <1>6, <1>7, Written
<1>10. t \in Members[w] /\ (Stage[w] = "computing" \/ (Stage[w] = "open" /\ o = "deadline"))
  BY <1>2 DEF At
<1>11. Flights!Close(t, w, o)
  BY <1>8, <1>9, <1>10 DEF Flights!Close
<1>q. QED BY <1>11

\* A call that is told of the outcome of another's job takes it along.
LEMMA ReleaseTakes ==
  ASSUME FlightInv, NEW t \in Threads, ReleaseLane(t)
  PROVE  Flights!Take(t) \/ UNCHANGED Flights!cvars
<1>t. call \in [Threads -> CallRecord]
  BY DEF FlightInv, LeaseInv, TypeOK, CallRecord, Outcome
<1>1. /\ call[t].at = "leaving" /\ call'[t].at = "idle" /\ call'[t].outcome = "none"
      /\ \A u \in Threads \ {t} : call'[u] = call[u]
  BY <1>t DEF ReleaseLane, At, Idle
<1>2. \A u \in Threads : Seat(u)
  BY <1>1 DEF Seat, At, InWork, Owning
<1>3. Answer[t] = call[t].outcome /\ Answer'[t] = "none"
      /\ \A u \in Threads \ {t} : Answer'[u] = Answer[u]
  BY <1>1 DEF Answer, At
<1>4. CASE call[t].outcome = "none"
  BY <1>2, <1>3, <1>4, NothingHappens
<1>5. CASE call[t].outcome # "none"
  <2>1. \A w \in Work : Stage'[w] = Stage[w] /\ Members'[w] = Members[w]
    BY <1>2, OtherWork
  <2>2. /\ Stage = [w \in Work |-> Stage[w]] /\ Stage' = [w \in Work |-> Stage'[w]]
        /\ Members = [w \in Work |-> Members[w]] /\ Members' = [w \in Work |-> Members'[w]]
        /\ Answer = [u \in Threads |-> Answer[u]] /\ Answer' = [u \in Threads |-> Answer'[u]]
    BY DEF Stage, Members, Work, Answer
  <2>3. Stage' = Stage /\ Members' = Members
    BY <2>1, <2>2
  <2>4. Answer' = [Answer EXCEPT ![t] = "none"]
    BY <1>3, <2>2
  <2>q. QED BY <1>3, <1>5, <2>3, <2>4 DEF Flights!Take
<1>q. QED BY <1>4, <1>5

LEMMA StepFlies == FlightInv /\ [Next]_vars => [Flights!Next]_(Flights!cvars)
<1>. SUFFICES ASSUME FlightInv, [Next]_vars PROVE Flights!Next \/ UNCHANGED Flights!cvars
  OBVIOUS
<1>t. call \in [Threads -> CallRecord]
  BY DEF FlightInv, LeaseInv, TypeOK, CallRecord, Outcome
<1>w. Work = Lanes \X Keys
  BY DEF Work
<1>1. ASSUME NEW t \in Threads, NEW k \in Keys, NEW l \in Asks[t], AcquireLane(t, l, k)
      PROVE  UNCHANGED Flights!cvars
  <2>1. PICK e : call' = [call EXCEPT ![t] = [Idle EXCEPT !.at = "leased", !.lane = l, !.entry = e, !.key = k]]
    BY <1>1 DEF AcquireLane
  <2>2. call'[t].at = "leased" /\ \A u \in Threads \ {t} : call'[u] = call[u]
    BY <1>t, <2>1 DEF Idle
  <2>3. call[t].at = "idle"
    BY <1>1 DEF AcquireLane, At
  <2>4. \A u \in Threads : Seat(u)
    BY <2>2, <2>3 DEF Seat, At, InWork, Owning
  <2>5. \A u \in Threads : Answer'[u] = Answer[u]
    BY <2>2, <2>3 DEF Answer, At
  <2>q. QED BY <2>4, <2>5, NothingHappens
\* A call that is refused, a job that is admitted or has ended, a deadline.
<1>2. ASSUME NEW t \in Threads, Refuse(t) \/ EnterGate(t) \/ Ends(t) \/ Expire(t) \/ call' = call
      PROVE  UNCHANGED Flights!cvars
  <2>1. \A u \in Threads : /\ call'[u].lane = call[u].lane /\ call'[u].key = call[u].key
                           /\ \/ call'[u].at = call[u].at /\ call'[u].outcome = call[u].outcome
                              \/ /\ call[u].at = "leased" /\ call'[u].at = "leaving"
                                 /\ call'[u].outcome = call[u].outcome
                              \/ /\ call[u].at \in {"gating", "working"}
                                 /\ call'[u].at \in {"working", "finishing"}
    BY <1>t, <1>2 DEF Refuse, EnterGate, Ends, Expire, Go, At, CallRecord
  <2>2. \A u \in Threads : Seat(u)
    BY <2>1 DEF Seat, At, InWork, Owning
  <2>3. \A u \in Threads : Answer'[u] = Answer[u]
    BY <2>1 DEF Answer, At, FlightInv, Outs
  <2>q. QED BY <2>2, <2>3, NothingHappens
<1>3. ASSUME NEW t \in Threads, Submit(t) PROVE Flights!Next
  BY <1>3, <1>w, SubmitOpens DEF Flights!Next
<1>4. ASSUME NEW t \in Threads, Join(t) PROVE Flights!Next
  BY <1>4, <1>w, JoinJoins DEF Flights!Next
<1>5. ASSUME NEW t \in Threads, FollowerExpire(t) PROVE Flights!Next
  BY <1>5, <1>w, ExpireLeaves DEF Flights!Next
<1>6. ASSUME NEW t \in Threads, Dispatch(t) PROVE Flights!Next
  BY <1>6, <1>w, DispatchStarts DEF Flights!Next
<1>7. ASSUME NEW t \in Threads, Withdraw(t) PROVE Flights!Next
  <2>1. \E w \in Work : Flights!Close(t, w, "deadline")
    BY <1>7, SettledCloses DEF Withdraw
  <2>q. QED BY <1>w, <2>1 DEF Flights!Next
<1>8. ASSUME NEW t \in Threads, Finish(t) PROVE Flights!Next
  <2>1. \E w \in Work : Flights!Close(t, w, call[t].outcome)
    BY <1>8, SettledCloses DEF Finish
  <2>2. call[t].outcome \in {"result", "error", "deadline"}
    BY <1>t, <1>8 DEF CallRecord, Outcome, Finish, At, FlightInv, Outs
  <2>q. QED BY <1>w, <2>1, <2>2 DEF Flights!Next
<1>9. ASSUME NEW t \in Threads, ReleaseLane(t) PROVE Flights!Next \/ UNCHANGED Flights!cvars
  BY <1>9, ReleaseTakes DEF Flights!Next
<1>10. ASSUME call' = call PROVE UNCHANGED Flights!cvars
  <2>1. \A u \in Threads : Seat(u) /\ Answer'[u] = Answer[u]
    BY <1>10 DEF Seat, At, Answer
  <2>q. QED BY <2>1, NothingHappens
<1>q. QED BY <1>1, <1>2, <1>3, <1>4, <1>5, <1>6, <1>7, <1>8, <1>9, <1>10, StepKinds

\* However lanes come and go, two calls with the same project, kind and key share one job
\* while it is in flight, and every follower gets its outcome (ShardedHeavyWork.run):
\* step by step, the calls of each piece of work are CoalescedCalls.
THEOREM FlightsCorrect == Spec => SingleFlightAcrossLanes
<1>1. RequestInit => Flights!Init
  <2>. SUFFICES ASSUME RequestInit PROVE Flights!Init
    OBVIOUS
  <2>1. \A t \in Threads : call[t].at = "idle"
    BY DEF RequestInit, Init, Idle
  <2>2. \A w \in Work : Owners(w) = {} /\ Members[w] = {} /\ Stage[w] = "none"
    BY <2>1 DEF Owners, Members, Stage, Work, At, Owning
  <2>3. \A t \in Threads : Answer[t] = "none"
    BY <2>1 DEF Answer, At
  <2>4. /\ Stage = [w \in Work |-> Stage[w]] /\ Members = [w \in Work |-> Members[w]]
        /\ Answer = [u \in Threads |-> Answer[u]]
    BY DEF Stage, Members, Work, Answer
  <2>q. QED BY <2>2, <2>3, <2>4 DEF Flights!Init, Work
<1>q. QED BY <1>1, FlightStarts, FlightStep, StepFlies, PTL
          DEF Spec, SingleFlightAcrossLanes, Flights!Spec
=============================================================================
