-------------------------- MODULE CacheLeaseProofs --------------------------
(***************************************************************************)
(* Safety of the leases for any number of users, collectors and marker     *)
(* names, and that they implement ProjectLock.                             *)
(***************************************************************************)
EXTENDS CacheLease, TLAPS

-----------------------------------------------------------------------------
(* Types.                                                                  *)

LEMMA InitTypeOK == Init => TypeOK
BY DEF Init, TypeOK, Places, Procs

LEMMA StepTypeOK == TypeOK /\ [Next]_vars => TypeOK'
<1> USE LeaseAssumption
<1> SUFFICES ASSUME TypeOK, [Next]_vars
             PROVE  TypeOK'
  OBVIOUS
<1> USE DEF TypeOK, Places, Opening, Gated, Go, fileVars, scanVars
<1>1. ASSUME NEW p \in Procs, NEW t \in {"share", "close", "exclude"}, Begin(p, t)
      PROVE  TypeOK'
  BY <1>1 DEF Begin
<1>2. ASSUME NEW u \in Users, AcquireShared(u) \/ Close(u)
      PROVE  TypeOK'
  BY <1>1, <1>2 DEF AcquireShared, Close, Procs
<1>3. ASSUME NEW c \in Collectors, TryAcquireExclusive(c)
      PROVE  TypeOK'
  BY <1>1, <1>3 DEF TryAcquireExclusive, Procs
<1>4. ASSUME NEW p \in Procs, GateSteps(p)
      PROVE  TypeOK'
  <2>1. CASE Open(p)
    BY <2>1 DEF Open
  <2>2. CASE Fstat(p, "fstat", "lstat") \/ Fstat(p, "fstat2", "lstat2")
    BY <2>2 DEF Fstat
  <2>3. CASE \/ Unchanged(p, "lstat", "size")
             \/ Unchanged(p, "lstat2", IF task[p] = "close" THEN "unlock" ELSE "scan")
    BY <2>3 DEF Unchanged
  <2>4. CASE Changed(p)
    BY <2>4 DEF Changed, FreeGate, Return
  <2>5. CASE Size(p)
    BY <2>5 DEF Size
  <2>6. CASE Write(p)
    BY <2>6 DEF Write
  <2>7. CASE TakeGate(p)
    BY <2>7 DEF TakeGate
  <2>8. CASE GiveUp(p)
    BY <2>8 DEF GiveUp, Return
  <2> QED
    BY <1>4, <2>1, <2>2, <2>3, <2>4, <2>5, <2>6, <2>7, <2>8 DEF GateSteps
<1>5. ASSUME NEW p \in Procs,
             \/ Scan(p)
             \/ \E m \in Markers : ProbeUnlocked(p, m) \/ ProbeLocked(p, m) \/ Unlink(p, m)
             \/ Abort(p)
      PROVE  TypeOK'
  <2>1. CASE Scan(p)
    BY <2>1 DEF Scan
  <2>2. ASSUME NEW m \in Markers, ProbeUnlocked(p, m)
        PROVE  TypeOK'
    BY <2>2 DEF ProbeUnlocked
  <2>3. ASSUME NEW m \in Markers, ProbeLocked(p, m)
        PROVE  TypeOK'
    BY <2>3 DEF ProbeLocked, FreeGate, Return
  <2>4. ASSUME NEW m \in Markers, Unlink(p, m)
        PROVE  TypeOK'
    BY <2>4 DEF Unlink
  <2>5. CASE Abort(p)
    BY <2>5 DEF Abort, FreeGate, Return
  <2> QED
    BY <1>5, <2>1, <2>2, <2>3, <2>4, <2>5
<1>6. ASSUME NEW u \in Users, UserSteps(u)
      PROVE  TypeOK'
  <2>1. ASSUME NEW m \in Markers, Create(u, m)
        PROVE  TypeOK'
    BY <2>1 DEF Create
  <2>2. CASE Mark(u)
    BY <2>2 DEF Mark, Procs
  <2>3. CASE Leave(u)
    BY <2>3 DEF Leave, FreeGate, Procs
  <2> QED
    BY <1>5, <1>6, <2>1, <2>2, <2>3 DEF UserSteps, Procs
<1>7. ASSUME NEW u \in Users, Unlock(u) \/ Remove(u)
      PROVE  TypeOK'
  <2>1. CASE Unlock(u)
    BY <2>1 DEF Unlock, Return
  <2>2. CASE Remove(u)
    BY <2>2 DEF Remove, FreeGate, Return
  <2> QED
    BY <1>7, <2>1, <2>2
<1>8. ASSUME NEW c \in Collectors, CollectorSteps(c)
      PROVE  TypeOK'
  <2>1. CASE AllProbed(c) \/ Exclusive(c)
    BY <2>1 DEF AllProbed, Exclusive
  <2>2. CASE CloseExclusive(c)
    BY <2>2 DEF CloseExclusive, FreeGate, Return
  <2> QED
    BY <1>5, <1>8, <2>1, <2>2 DEF CollectorSteps, Procs
<1>9. ASSUME NEW p \in Procs, Raise(p) \/ Crash(p)
      PROVE  TypeOK'
  <2>1. CASE Raise(p)
    BY <2>1 DEF Raise
  <2>2. CASE Crash(p)
    BY <2>2 DEF Crash, FreeGate, Return
  <2> QED
    BY <1>9, <2>1, <2>2
<1>10. CASE UNCHANGED vars
  BY <1>10 DEF vars
<1> QED
  BY <1>2, <1>3, <1>4, <1>6, <1>7, <1>8, <1>9, <1>10 DEF Next

\* The leases keep their variables in their types (TypeOK), whatever the
\* processes do and whenever they die.
THEOREM TypeCorrect == Spec => []TypeOK
<1>1. Init => TypeOK
  BY InitTypeOK
<1>2. TypeOK /\ [Next]_vars => TypeOK'
  BY StepTypeOK
<1> QED
  BY <1>1, <1>2, PTL DEF Spec

-----------------------------------------------------------------------------
(* The inductive invariant.                                                *)

Holds(p) == p \in Holders

\* What a process may rely on where it is.
TaskTells(p) ==
  /\ task[p] \in {"share", "close"} => p \in Users
  /\ task[p] = "exclude" => p \in Collectors
  /\ at[p] \in Opening \cup {"fstat2", "lstat2"} => task[p] # "none"
  /\ at[p] \in {"scan", "probe", "unlink"} => task[p] \in {"share", "exclude"}
  /\ at[p] \in {"mark", "leave"} => task[p] = "share"
  /\ at[p] \in {"unlock", "remove"} => task[p] = "close"
  /\ at[p] = "holding" => p \in Users /\ task[p] = "none"
  /\ at[p] = "exclusive" => task[p] = "exclude"
  /\ at[p] \in {"idle", "unsafe"} => task[p] = "none"

GateTells(p) ==
  /\ at[p] \in Gated => gate = p
  /\ gate = p => at[p] \in Gated \cup {"unlock"}

MarkerTells(p) ==
  /\ Holds(p) => mine[p] \in file /\ locked[mine[p]] = p
  /\ at[p] = "mark" => mine[p] \in file
  /\ ~Holds(p) /\ at[p] \notin {"mark", "remove"} => mine[p] = None

ScanTells(p) ==
  /\ left[p] # {} => at[p] \in {"probe", "unlink"}
  /\ stale[p] # {} => at[p] \in {"probe", "unlink"}
  /\ \A m \in stale[p] : locked[m] = None
  /\ task[p] = "share" /\ at[p] = "probe" => stale[p] = {}
  /\ task[p] = "share" /\ at[p] = "unlink" => \E m \in Markers : stale[p] = {m}
  /\ task[p] = "exclude" /\ at[p] = "unlink" => left[p] = {}

\* A collector has every marker in its hands.
CollectorTells(p) ==
  task[p] = "exclude" =>
    /\ at[p] = "probe" => file \subseteq left[p] \cup stale[p]
    /\ at[p] = "unlink" => file \subseteq stale[p]
    /\ at[p] = "exclusive" => file = {}

Local(p) == TaskTells(p) /\ GateTells(p) /\ MarkerTells(p) /\ ScanTells(p) /\ CollectorTells(p)

\* Nobody shares a marker, and only the user of a lease locks one.
OwnMarkers == \A p, q \in Procs : mine[p] = mine[q] /\ mine[p] # None => p = q
LocksOwned == \A m \in Markers : locked[m] # None => Holds(locked[m]) /\ mine[locked[m]] = m

LeaseInv ==
  /\ TypeOK
  /\ \A p \in Procs : Local(p)
  /\ OwnMarkers
  /\ LocksOwned

LEMMA LeaseInvInit == Init => LeaseInv
BY InitTypeOK, LeaseAssumption
   DEF Init, LeaseInv, Local, TaskTells, GateTells, MarkerTells, ScanTells, CollectorTells,
       OwnMarkers, LocksOwned, Holds, Holders, Opening, Gated, Procs

\* What a step of p may do that others notice: only the holder of the gate adds
\* a marker or locks one, and what disappears is its own or provably unlocked.
Frame(p) ==
  /\ \A q \in Procs \ {p} : /\ at'[q] = at[q] /\ task'[q] = task[q] /\ mine'[q] = mine[q]
                            /\ left'[q] = left[q] /\ stale'[q] = stale[q]
  /\ \/ gate' = gate
     \/ gate = p /\ gate' = None
     \/ gate = None /\ gate' = p
  /\ \A m \in file' \ file : gate = p
  /\ \A m \in file \ file' : m = mine[p] \/ (gate = p /\ locked[m] = None)
  /\ \A m \in Markers : locked'[m] # locked[m] => /\ m = mine[p]
                                                  /\ locked'[m] \in {None, p}
                                                  /\ locked'[m] = p => gate = p

LEMMA FrameKeepsOthers ==
  ASSUME LeaseInv, NEW p \in Procs, Frame(p), TypeOK',
         NEW q \in Procs, q # p
  PROVE  Local(q)'
<1> USE LeaseAssumption
<1>0. /\ Local(q)
      /\ at'[q] = at[q] /\ task'[q] = task[q] /\ mine'[q] = mine[q]
      /\ left'[q] = left[q] /\ stale'[q] = stale[q]
  BY DEF LeaseInv, Frame
<1>1. Holds(q)' = Holds(q)
  BY <1>0 DEF Holds, Holders
<1>2. TaskTells(q)'
  BY <1>0 DEF Local, TaskTells
<1>3. GateTells(q)'
  BY <1>0 DEF Local, GateTells, Frame, Procs
<1>4. mine[q] # None => mine[q] # mine[p]
  BY DEF LeaseInv, OwnMarkers
<1>5. MarkerTells(q)'
  <2>1. Holds(q) => mine[q] \in file' /\ locked'[mine[q]] = q
    BY <1>0, <1>4 DEF Local, MarkerTells, Frame, LeaseInv, TypeOK, Procs
  <2>2. at[q] = "mark" => mine[q] \in file'
    <3> SUFFICES ASSUME at[q] = "mark"
                 PROVE  mine[q] \in file'
      OBVIOUS
    <3>1. gate = q /\ mine[q] \in file
      BY <1>0 DEF Local, MarkerTells, GateTells, Gated
    <3> QED
      BY <1>4, <3>1 DEF Frame, LeaseInv, TypeOK, Procs
  <2> QED
    BY <1>0, <1>1, <2>1, <2>2 DEF Local, MarkerTells
<1>6. ScanTells(q)'
  <2>1. ASSUME NEW m \in stale[q]
        PROVE  locked'[m] = None
    <3>1. at[q] \in {"probe", "unlink"} /\ locked[m] = None /\ m \in Markers
      BY <1>0 DEF Local, ScanTells, LeaseInv, TypeOK
    <3>2. gate = q
      BY <1>0, <3>1 DEF Local, GateTells, Gated
    <3> QED
      BY <3>1, <3>2 DEF Frame
  <2> QED
    BY <1>0, <2>1 DEF Local, ScanTells
<1>7. CollectorTells(q)'
  <2>1. at[q] \in {"probe", "unlink", "exclusive"} => file' \subseteq file
    BY <1>0 DEF Local, GateTells, Gated, Frame
  <2> QED
    BY <1>0, <2>1 DEF Local, CollectorTells
<1> QED
  BY <1>2, <1>3, <1>5, <1>6, <1>7 DEF Local

\* A step of p preserves the invariant if it respects the others and itself.
LEMMA LocalStep ==
  ASSUME LeaseInv, NEW p \in Procs, Frame(p), TypeOK', Local(p)',
         mine'[p] \in {None, mine[p]} \/ \A q \in Procs : mine[q] # mine'[p],
         \A m \in Markers : locked'[m] = p => Holds(p)' /\ mine'[p] = m
  PROVE  LeaseInv'
<1> USE LeaseAssumption
<1>1. \A q \in Procs : Local(q)'
  BY FrameKeepsOthers
<1>2. OwnMarkers'
  BY DEF LeaseInv, OwnMarkers, Frame
<1>3. ASSUME NEW m \in Markers, locked'[m] # None
      PROVE  locked'[m] \in Holders' /\ mine'[locked'[m]] = m
  <2>1. CASE locked'[m] = p
    BY <2>1 DEF Holds
  <2>2. CASE locked'[m] # p
    <3> DEFINE q == locked'[m]
    <3>1. locked[m] = q /\ q \in Procs \ {p}
      BY <1>3, <2>2 DEF Frame, TypeOK
    <3>2. q \in Holders /\ mine[q] = m
      BY <1>3, <3>1 DEF LeaseInv, LocksOwned, Holds
    <3>3. at'[q] = at[q] /\ task'[q] = task[q] /\ mine'[q] = mine[q]
      BY <3>1 DEF Frame
    <3> QED
      BY <3>2, <3>3 DEF Holders
  <2> QED
    BY <2>1, <2>2
<1>4. LocksOwned'
  BY <1>3 DEF LocksOwned, Holds
<1> QED
  BY <1>1, <1>2, <1>4 DEF LeaseInv

\* The locks of p are on its marker.
LEMMA LocksOfP ==
  ASSUME LeaseInv, NEW p \in Procs, NEW m \in Markers, locked[m] = p
  PROVE  m = mine[p] /\ Holds(p)
BY LeaseAssumption DEF LeaseInv, LocksOwned

\* The same, for the steps after which p keeps its marker and no lock is new.
LEMMA QuietStep ==
  ASSUME LeaseInv, NEW p \in Procs, Frame(p), TypeOK', Local(p)',
         mine'[p] = mine[p], locked' = locked, Holds(p) => Holds(p)'
  PROVE  LeaseInv'
<1>1. \A m \in Markers : locked'[m] = p => Holds(p)' /\ mine'[p] = m
  BY LocksOfP
<1>2. mine'[p] \in {None, mine[p]}
  OBVIOUS
<1> QED
  BY <1>1, <1>2, LocalStep

\* The same, for the steps after which p has neither a marker nor a lock.
LEMMA LastStep ==
  ASSUME LeaseInv, NEW p \in Procs, Frame(p), TypeOK', Local(p)',
         mine'[p] = None, \A m \in Markers : locked'[m] # p
  PROVE  LeaseInv'
<1>1. \A m \in Markers : locked'[m] = p => Holds(p)' /\ mine'[p] = m
  OBVIOUS
<1>2. mine'[p] \in {None, mine[p]}
  OBVIOUS
<1> QED
  BY <1>1, <1>2, LocalStep

LEMMA BeginStep ==
  ASSUME LeaseInv, TypeOK', NEW p \in Procs,
         \/ p \in Users /\ (AcquireShared(p) \/ Close(p))
         \/ p \in Collectors /\ TryAcquireExclusive(p)
  PROVE  LeaseInv'
<1> USE LeaseAssumption
<1>0. TypeOK /\ Local(p)
  BY DEF LeaseInv
<1>1. Frame(p)
  BY <1>0 DEF AcquireShared, Close, TryAcquireExclusive, Begin, Frame, Go, fileVars, scanVars, TypeOK
<1>2. TaskTells(p)' /\ (Holds(p) <=> Holds(p)')
  BY <1>0 DEF AcquireShared, Close, TryAcquireExclusive, Begin, Go, TypeOK, Local, TaskTells,
              Holds, Holders, Opening, Gated
<1>3. GateTells(p)' /\ MarkerTells(p)' /\ ScanTells(p)' /\ CollectorTells(p)'
  BY <1>0, <1>2 DEF AcquireShared, Close, TryAcquireExclusive, Begin, Go, TypeOK, Local, TaskTells,
              GateTells, MarkerTells, ScanTells, CollectorTells, fileVars, scanVars, Opening, Gated
<1> QED
  BY <1>1, <1>2, <1>3, QuietStep
     DEF Local, AcquireShared, Close, TryAcquireExclusive, Begin, fileVars, scanVars

LEMMA GateStep ==
  ASSUME LeaseInv, TypeOK', NEW p \in Procs, GateSteps(p)
  PROVE  LeaseInv'
<1> USE LeaseAssumption
<1>0. TypeOK /\ Local(p)
  BY DEF LeaseInv
<1>1. CASE \/ Open(p)
           \/ Fstat(p, "fstat", "lstat") \/ Fstat(p, "fstat2", "lstat2")
           \/ Unchanged(p, "lstat", "size")
           \/ Unchanged(p, "lstat2", IF task[p] = "close" THEN "unlock" ELSE "scan")
           \/ Size(p)
           \/ Write(p)
           \/ TakeGate(p)
  <2> USE <1>1 DEF Open, Fstat, Unchanged, Size, Write, TakeGate, Go, fileVars, scanVars
  <2>1. Frame(p)
    BY <1>0 DEF Frame, TypeOK
  <2>2. TaskTells(p)' /\ (Holds(p) <=> Holds(p)')
    BY <1>0 DEF TypeOK, Local, TaskTells, Holds, Holders, Opening, Gated
  <2>3. GateTells(p)'
    BY <1>0 DEF TypeOK, Local, TaskTells, GateTells, Opening, Gated, Procs
  <2>4. MarkerTells(p)' /\ ScanTells(p)' /\ CollectorTells(p)'
    BY <1>0, <2>2 DEF TypeOK, Local, TaskTells, MarkerTells, ScanTells, CollectorTells, Opening
  <2> QED
    BY <2>1, <2>2, <2>3, <2>4, QuietStep DEF Local
<1>2. CASE (Changed(p) \/ GiveUp(p)) /\ task[p] = "close"
  <2> USE <1>2 DEF Changed, GiveUp, FreeGate, Go, fileVars, scanVars
  <2>1. Frame(p)
    BY <1>0 DEF Frame, TypeOK
  <2>2. TaskTells(p)' /\ (Holds(p) <=> Holds(p)')
    BY <1>0 DEF TypeOK, Local, TaskTells, Holds, Holders, Opening, Gated
  <2>3. GateTells(p)' /\ MarkerTells(p)' /\ ScanTells(p)' /\ CollectorTells(p)'
    BY <1>0, <2>2 DEF TypeOK, Local, TaskTells, GateTells, MarkerTells, ScanTells, CollectorTells,
                      Opening, Gated, Procs
  <2> QED
    BY <2>1, <2>2, <2>3, QuietStep DEF Local
<1>3. CASE (Changed(p) \/ GiveUp(p)) /\ task[p] # "close"
  <2> USE <1>3 DEF Changed, GiveUp, FreeGate, Return, Go, fileVars
  <2>1. Frame(p)
    BY <1>0 DEF Frame, TypeOK
  <2>2. ~Holds(p) /\ ~Holds(p)'
    BY <1>0 DEF TypeOK, Local, TaskTells, Holds, Holders, Opening, Gated
  <2>3. Local(p)'
    BY <1>0, <2>2 DEF TypeOK, Local, TaskTells, GateTells, MarkerTells, ScanTells, CollectorTells,
                      Opening, Gated, Procs
  <2>4. \A m \in Markers : locked'[m] # p
    BY <2>2, LocksOfP
  <2> QED
    BY <1>0, <2>1, <2>3, <2>4, LastStep DEF TypeOK
<1> QED
  BY <1>1, <1>2, <1>3 DEF GateSteps

LEMMA ScanStep ==
  ASSUME LeaseInv, TypeOK', NEW p \in Procs,
         \/ Scan(p)
         \/ \E m \in Markers : ProbeUnlocked(p, m) \/ Unlink(p, m)
         \/ \E m \in Markers : ProbeLocked(p, m) /\ task[p] = "share"
         \/ p \in Collectors /\ (AllProbed(p) \/ Exclusive(p))
  PROVE  LeaseInv'
<1> USE LeaseAssumption
<1>0. TypeOK /\ Local(p)
  BY DEF LeaseInv
<1>1. gate = p /\ task[p] \in {"share", "exclude"} /\ ~Holds(p) /\ mine[p] = None
  BY <1>0 DEF Local, TaskTells, GateTells, MarkerTells, Holds, Holders, Opening, Gated,
              Scan, ProbeUnlocked, Unlink, ProbeLocked, AllProbed, Exclusive
<1>2. SUFFICES /\ Frame(p)
               /\ task'[p] = task[p] /\ gate' = gate /\ mine'[p] = mine[p] /\ locked' = locked
               /\ at'[p] \in {"probe", "unlink", "exclusive"}
               /\ at'[p] = "exclusive" => task[p] = "exclude"
               /\ ScanTells(p)' /\ CollectorTells(p)'
  <2> SUFFICES ASSUME /\ Frame(p)
                      /\ task'[p] = task[p] /\ gate' = gate /\ mine'[p] = mine[p] /\ locked' = locked
                      /\ at'[p] \in {"probe", "unlink", "exclusive"}
                      /\ at'[p] = "exclusive" => task[p] = "exclude"
                      /\ ScanTells(p)' /\ CollectorTells(p)'
               PROVE  LeaseInv'
    OBVIOUS
  <2>1. ~Holds(p)'
    BY <1>1 DEF Holds, Holders, Opening
  <2>2. TaskTells(p)' /\ GateTells(p)' /\ MarkerTells(p)'
    BY <1>0, <1>1, <2>1 DEF Local, TaskTells, GateTells, MarkerTells, Opening, Gated
  <2> QED
    BY <1>1, <2>2, QuietStep DEF Local
<1>3. CASE Scan(p)
  BY <1>0, <1>1, <1>3 DEF Scan, Frame, ScanTells, CollectorTells, Local, Go, fileVars, scanVars, TypeOK
<1>4. ASSUME NEW m \in Markers, ProbeUnlocked(p, m)
      PROVE  /\ Frame(p)
             /\ task'[p] = task[p] /\ gate' = gate /\ mine'[p] = mine[p] /\ locked' = locked
             /\ at'[p] \in {"probe", "unlink"}
             /\ ScanTells(p)' /\ CollectorTells(p)'
  BY <1>0, <1>1, <1>4 DEF ProbeUnlocked, Frame, ScanTells, CollectorTells, Local, Go, fileVars, TypeOK
<1>5. ASSUME NEW m \in Markers, Unlink(p, m)
      PROVE  /\ Frame(p)
             /\ task'[p] = task[p] /\ gate' = gate /\ mine'[p] = mine[p] /\ locked' = locked
             /\ at'[p] \in {"probe", "unlink"}
             /\ ScanTells(p)' /\ CollectorTells(p)'
  BY <1>0, <1>1, <1>5 DEF Unlink, Frame, ScanTells, CollectorTells, Local, Go, TypeOK
<1>6. ASSUME NEW m \in Markers, ProbeLocked(p, m), task[p] = "share"
      PROVE  /\ Frame(p)
             /\ task'[p] = task[p] /\ gate' = gate /\ mine'[p] = mine[p] /\ locked' = locked
             /\ at'[p] \in {"probe", "unlink"}
             /\ ScanTells(p)' /\ CollectorTells(p)'
  BY <1>0, <1>1, <1>6 DEF ProbeLocked, Frame, ScanTells, CollectorTells, Local, fileVars, TypeOK
<1>7. CASE p \in Collectors /\ (AllProbed(p) \/ Exclusive(p))
  <2>1. task[p] = "exclude"
    BY <1>0, <1>1, <1>7 DEF Local, TaskTells
  <2> QED
    BY <1>0, <1>1, <1>7, <2>1 DEF AllProbed, Exclusive, Frame, ScanTells, CollectorTells, Local, Go,
                                  fileVars, scanVars, TypeOK
<1> QED
  BY <1>3, <1>4, <1>5, <1>6, <1>7

\* The file operations that can end a call: it has let go of gate and marker.
LEMMA EndStep ==
  ASSUME LeaseInv, TypeOK', NEW p \in Procs,
         \/ \E m \in Markers : ProbeLocked(p, m) /\ task[p] # "share"
         \/ Abort(p) \/ Crash(p) \/ CloseExclusive(p)
         \/ p \in Users /\ Remove(p)
         \/ p \in Users /\ Unlock(p) /\ gate # p
  PROVE  LeaseInv'
<1> USE LeaseAssumption
<1>0. TypeOK /\ Local(p)
  BY DEF LeaseInv
<1> USE DEF ProbeLocked, Abort, Crash, CloseExclusive, Remove, Unlock, FreeGate
<1>1. /\ at'[p] = "idle" /\ task'[p] = "none" /\ mine'[p] = None /\ left'[p] = {} /\ stale'[p] = {}
      /\ \A q \in Procs \ {p} : /\ at'[q] = at[q] /\ task'[q] = task[q] /\ mine'[q] = mine[q]
                                /\ left'[q] = left[q] /\ stale'[q] = stale[q]
  BY <1>0 DEF Return, Go, TypeOK
<1>2. gate' = IF gate = p THEN None ELSE gate
  BY <1>0
<1>3. /\ file' \subseteq file
      /\ \A m \in file \ file' : m = mine[p]
  BY <1>0 DEF fileVars
<1>4. \A m \in Markers : /\ locked'[m] \in {locked[m], None}
                         /\ locked'[m] # locked[m] => m = mine[p]
                         /\ locked'[m] # p
  <2> SUFFICES ASSUME NEW m \in Markers
               PROVE  /\ locked'[m] \in {locked[m], None}
                      /\ locked'[m] # locked[m] => m = mine[p]
                      /\ locked'[m] # p
    OBVIOUS
  <2>1. locked[m] = p => m = mine[p] /\ Holds(p)
    BY LocksOfP
  <2>2. CASE Crash(p)
    BY <1>0, <2>1, <2>2 DEF TypeOK, Procs
  <2>3. CASE Abort(p) \/ Unlock(p)
    BY <1>0, <2>1, <2>3 DEF TypeOK, Procs
  <2>4. CASE locked' = locked /\ ~Holds(p)
    BY <2>1, <2>4
  <2>5. CASE (\E n \in Markers : ProbeLocked(p, n) /\ task[p] # "share") \/ CloseExclusive(p) \/ Remove(p)
    BY <1>0, <2>4, <2>5 DEF Local, TaskTells, Holds, Holders, Opening, Gated, fileVars
  <2> QED
    BY <2>2, <2>3, <2>5
<1>5. Frame(p)
  BY <1>0, <1>1, <1>2, <1>3, <1>4 DEF Frame
<1>6. ~Holds(p)'
  BY <1>1 DEF Holds, Holders, Opening
<1>7. Local(p)'
  BY <1>0, <1>1, <1>2, <1>6 DEF Local, TaskTells, GateTells, MarkerTells, ScanTells, CollectorTells,
                                Opening, Gated, Procs
<1> QED
  BY <1>1, <1>4, <1>5, <1>7, LastStep

LEMMA RegisterStep ==
  ASSUME LeaseInv, TypeOK', NEW u \in Users,
         (\E m \in Markers : Create(u, m)) \/ Mark(u) \/ Leave(u)
  PROVE  LeaseInv'
<1> USE LeaseAssumption
<1>0. TypeOK /\ Local(u) /\ u \in Procs
  BY DEF LeaseInv, Procs
<1>1. ASSUME NEW m \in Markers, Create(u, m)
      PROVE  LeaseInv'
  <2> USE <1>1 DEF Create, Go
  <2>1. gate = u /\ task[u] = "share" /\ ~Holds(u) /\ ~Holds(u)'
    BY <1>0 DEF Local, TaskTells, GateTells, Holds, Holders, Opening, Gated, TypeOK
  <2>2. Frame(u)
    BY <1>0, <2>1 DEF Frame, TypeOK
  <2>3. Local(u)'
    BY <1>0, <2>1 DEF Local, TaskTells, GateTells, MarkerTells, ScanTells, CollectorTells,
                      Opening, Gated, TypeOK
  <2>4. \A q \in Procs : mine[q] # mine'[u]
    BY <1>0 DEF Fresh, TypeOK
  <2>5. \A n \in Markers : locked'[n] # u
    BY <1>0, <2>1, LocksOfP
  <2> QED
    BY <1>0, <2>2, <2>3, <2>4, <2>5, LocalStep
<1>2. CASE Mark(u)
  <2> USE <1>2 DEF Mark, Go, scanVars
  <2>1. gate = u /\ task[u] = "share" /\ mine[u] \in file /\ stale[u] = {} /\ Holds(u)'
    BY <1>0 DEF Local, TaskTells, GateTells, MarkerTells, ScanTells, Holds, Holders, Opening, Gated, TypeOK
  <2>2. Frame(u)
    BY <1>0, <2>1 DEF Frame, TypeOK
  <2>3. Local(u)'
    BY <1>0, <2>1 DEF Local, TaskTells, GateTells, MarkerTells, ScanTells, CollectorTells,
                      Opening, Gated, TypeOK
  <2>4. \A n \in Markers : locked'[n] = u => Holds(u)' /\ mine'[u] = n
    BY <1>0, <2>1, LocksOfP DEF TypeOK
  <2>5. mine'[u] \in {None, mine[u]}
    OBVIOUS
  <2> QED
    BY <1>0, <2>2, <2>3, <2>4, <2>5, LocalStep
<1>3. CASE Leave(u)
  <2> USE <1>3 DEF Leave, Go, FreeGate, fileVars, scanVars
  <2>1. gate = u /\ Holds(u) /\ Holds(u)'
    BY <1>0 DEF Local, GateTells, Holds, Holders, Opening, Gated, TypeOK
  <2>2. Frame(u)
    BY <1>0, <2>1 DEF Frame, TypeOK
  <2>3. Local(u)'
    BY <1>0, <2>1 DEF Local, TaskTells, GateTells, MarkerTells, ScanTells, CollectorTells,
                      Opening, Gated, TypeOK, Procs
  <2> QED
    BY <1>0, <2>1, <2>2, <2>3, QuietStep
<1> QED
  BY <1>1, <1>2, <1>3

LEMMA UnlockStep ==
  ASSUME LeaseInv, TypeOK', NEW u \in Users, Unlock(u), gate = u
  PROVE  LeaseInv'
<1> USE LeaseAssumption DEF Unlock, Go, scanVars
<1>0. TypeOK /\ Local(u) /\ u \in Procs
  BY DEF LeaseInv, Procs
<1>1. task[u] = "close" /\ Holds(u) /\ ~Holds(u)'
  BY <1>0 DEF Local, TaskTells, Holds, Holders, Opening, TypeOK
<1>2. mine[u] \in Markers /\ locked[mine[u]] = u
  BY <1>0, <1>1 DEF Local, MarkerTells, TypeOK
<1>3. Frame(u)
  BY <1>0, <1>2 DEF Frame, TypeOK
<1>4. Local(u)'
  BY <1>0, <1>1 DEF Local, TaskTells, GateTells, MarkerTells, ScanTells, CollectorTells,
                    Opening, Gated, TypeOK
<1>5. \A m \in Markers : locked'[m] # u
  BY <1>0, <1>2, LocksOfP DEF TypeOK
<1>6. mine'[u] \in {None, mine[u]}
  OBVIOUS
<1>7. \A m \in Markers : locked'[m] = u => Holds(u)' /\ mine'[u] = m
  BY <1>5
<1> QED
  BY <1>0, <1>3, <1>4, <1>6, <1>7, LocalStep

LEMMA RaiseStep ==
  ASSUME LeaseInv, TypeOK', NEW p \in Procs, Raise(p)
  PROVE  LeaseInv'
<1> USE LeaseAssumption DEF Raise, Go, fileVars, scanVars
<1>0. TypeOK /\ Local(p)
  BY DEF LeaseInv
<1>1. Frame(p) /\ (Holds(p) <=> Holds(p)')
  BY <1>0 DEF Frame, TypeOK, Local, TaskTells, Holds, Holders, Opening
<1>2. Local(p)'
  BY <1>0, <1>1 DEF Local, TaskTells, GateTells, MarkerTells, ScanTells, CollectorTells,
                    Opening, Gated, TypeOK
<1> QED
  BY <1>1, <1>2, QuietStep

LEMMA LeaseInvStep == LeaseInv /\ [Next]_vars => LeaseInv'
<1> SUFFICES ASSUME LeaseInv, [Next]_vars
             PROVE  LeaseInv'
  OBVIOUS
<1>1. TypeOK'
  BY StepTypeOK DEF LeaseInv
<1>2. ASSUME NEW u \in Users,
             AcquireShared(u) \/ Close(u) \/ UserSteps(u) \/ Unlock(u) \/ Remove(u)
      PROVE  LeaseInv'
  <2>1. u \in Procs
    BY DEF Procs
  <2>2. CASE AcquireShared(u) \/ Close(u)
    BY <1>1, <2>1, <2>2, BeginStep
  <2>3. CASE Unlock(u) \/ Remove(u)
    BY <1>1, <2>1, <2>3, UnlockStep, EndStep
  <2>4. CASE Scan(u) \/ \E m \in Markers : ProbeUnlocked(u, m) \/ ProbeLocked(u, m) \/ Unlink(u, m)
    BY <1>1, <2>1, <2>4, ScanStep, EndStep
  <2>5. CASE (\E m \in Markers : Create(u, m)) \/ Mark(u) \/ Leave(u)
    BY <1>1, <2>5, RegisterStep
  <2>6. CASE Abort(u)
    BY <1>1, <2>1, <2>6, EndStep
  <2> QED
    BY <1>2, <2>2, <2>3, <2>4, <2>5, <2>6 DEF UserSteps
<1>3. ASSUME NEW c \in Collectors, TryAcquireExclusive(c) \/ CollectorSteps(c)
      PROVE  LeaseInv'
  <2>1. c \in Procs
    BY DEF Procs
  <2>2. CASE TryAcquireExclusive(c)
    BY <1>1, <2>1, <2>2, BeginStep
  <2>3. CASE \/ Scan(c)
             \/ \E m \in Markers : ProbeUnlocked(c, m) \/ ProbeLocked(c, m) \/ Unlink(c, m)
             \/ AllProbed(c) \/ Exclusive(c)
    BY <1>1, <2>1, <2>3, ScanStep, EndStep
  <2>4. CASE CloseExclusive(c) \/ Abort(c)
    BY <1>1, <2>1, <2>4, EndStep
  <2> QED
    BY <1>3, <2>2, <2>3, <2>4 DEF CollectorSteps
<1>4. ASSUME NEW p \in Procs, GateSteps(p) \/ Raise(p) \/ Crash(p)
      PROVE  LeaseInv'
  BY <1>1, <1>4, GateStep, RaiseStep, EndStep
<1>5. CASE UNCHANGED vars
  BY <1>5 DEF vars, LeaseInv, TypeOK, Local, TaskTells, GateTells, MarkerTells, ScanTells,
              CollectorTells, OwnMarkers, LocksOwned, Holds, Holders
<1> QED
  BY <1>2, <1>3, <1>4, <1>5 DEF Next

LEMMA LeaseInvariant == Spec => []LeaseInv
<1>1. Init => LeaseInv
  BY LeaseInvInit
<1>2. LeaseInv /\ [Next]_vars => LeaseInv'
  BY LeaseInvStep
<1> QED
  BY <1>1, <1>2, PTL DEF Spec

\* The marker of a lease in use is never reaped (HolderProtected): what a reaper
\* finds unlocked belongs to nobody, and nobody can come to own it.
THEOREM HolderProtectedCorrect == Spec => []HolderProtected
<1>1. LeaseInv => HolderProtected
  BY DEF LeaseInv, Local, MarkerTells, HolderProtected, Holds, Holders, Procs
<1> QED
  BY <1>1, LeaseInvariant, PTL

LEMMA ExclusiveIsAlone == LeaseInv => ExclusiveAlone
<1> SUFFICES ASSUME LeaseInv, NEW c \in Collectors, at[c] = "exclusive"
             PROVE  Holders = {} /\ file = {}
  BY DEF ExclusiveAlone
<1>1. Local(c)
  BY DEF LeaseInv, Procs
<1>2. file = {}
  BY <1>1 DEF Local, TaskTells, CollectorTells
<1>3. \A u \in Holders : mine[u] \in file
  BY DEF LeaseInv, Local, MarkerTells, Holds, Holders, Procs
<1> QED
  BY <1>2, <1>3

\* While a collector deletes, no lease is in use and no marker is left
\* (ExclusiveAlone).
THEOREM ExclusionCorrect == Spec => []ExclusiveAlone
BY ExclusiveIsAlone, LeaseInvariant, PTL

-----------------------------------------------------------------------------
(* The leases implement ProjectLock.                                       *)

\* At most one collector has an exclusive lease: it keeps the gate.
ExcluderTells ==
  /\ Excluder \in Collectors \cup {None}
  /\ \A c \in Collectors : at[c] = "exclusive" <=> Excluder = c

LEMMA ExcluderIs == LeaseInv => ExcluderTells
<1> SUFFICES ASSUME LeaseInv
             PROVE  ExcluderTells
  OBVIOUS
<1> USE DEF ExcluderTells
<1>1. \A c \in Collectors : at[c] = "exclusive" => gate = c
  BY DEF LeaseInv, Local, GateTells, Gated, Procs
<1>2. CASE \E c \in Collectors : at[c] = "exclusive"
  <2>1. Excluder \in Collectors /\ at[Excluder] = "exclusive"
    BY <1>2 DEF Excluder
  <2> QED
    BY <1>1, <2>1
<1>3. CASE ~ \E c \in Collectors : at[c] = "exclusive"
  BY <1>3, LeaseAssumption DEF Excluder, Procs
<1> QED
  BY <1>2, <1>3

\* A step that moves nobody into or out of a lease.
LEMMA SameLeases ==
  ASSUME LeaseInv, LeaseInv', Holders' = Holders,
         \A c \in Collectors : at'[c] = "exclusive" <=> at[c] = "exclusive"
  PROVE  UNCHANGED Lock!lockVars
<1> USE ExcluderIs DEF ExcluderTells
<1>1. Excluder' = Excluder
  <2>1. CASE Excluder = None
    BY <2>1, ExcluderIs DEF Excluder
  <2>2. CASE Excluder # None
    <3>1. Excluder \in Collectors /\ at'[Excluder] = "exclusive"
      BY <2>2, ExcluderIs
    <3>2. \A c \in Collectors : at'[c] = "exclusive" => c = Excluder
      BY ExcluderIs
    <3>3. Excluder' \in Collectors /\ at'[Excluder'] = "exclusive"
      BY <3>1 DEF Excluder
    <3> QED
      BY <3>2, <3>3
  <2> QED
    BY <2>1, <2>2
<1> QED
  BY <1>1 DEF Lock!lockVars

Moves(p) == \A q \in Procs \ {p} : at'[q] = at[q] /\ task'[q] = task[q]

LEMMA OneMoves == TypeOK /\ [Next]_vars => UNCHANGED vars \/ \E p \in Procs : Moves(p)
<1> SUFFICES ASSUME TypeOK, Next
             PROVE  \E p \in Procs : Moves(p)
  OBVIOUS
<1> USE DEF Go, Return, fileVars, scanVars, Moves, TypeOK
<1>1. ASSUME NEW p \in Procs, GateSteps(p) \/ Raise(p) \/ Crash(p)
      PROVE  Moves(p)
  <2>1. CASE GateSteps(p)
    BY <2>1 DEF GateSteps, Open, Fstat, Unchanged, Changed, Size, Write, TakeGate, GiveUp
  <2> QED
    BY <1>1, <2>1 DEF Raise, Crash
<1>2. ASSUME NEW p \in Procs,
             \/ Scan(p) \/ Abort(p)
             \/ \E m \in Markers : ProbeUnlocked(p, m) \/ ProbeLocked(p, m) \/ Unlink(p, m)
      PROVE  Moves(p)
  BY <1>2 DEF Scan, Abort, ProbeUnlocked, ProbeLocked, Unlink
<1>3. ASSUME NEW u \in Users,
             \/ AcquireShared(u) \/ Close(u) \/ Mark(u) \/ Leave(u) \/ Unlock(u) \/ Remove(u)
             \/ \E m \in Markers : Create(u, m)
      PROVE  Moves(u)
  BY <1>3 DEF AcquireShared, Close, Begin, Mark, Leave, Unlock, Remove, Create
<1>4. ASSUME NEW c \in Collectors,
             TryAcquireExclusive(c) \/ AllProbed(c) \/ Exclusive(c) \/ CloseExclusive(c)
      PROVE  Moves(c)
  BY <1>4 DEF TryAcquireExclusive, Begin, AllProbed, Exclusive, CloseExclusive
<1> QED
  BY <1>1, <1>2, <1>3, <1>4 DEF Next, UserSteps, CollectorSteps, Procs

LEMMA MoveImplements ==
  ASSUME LeaseInv, LeaseInv', NEW p \in Procs, Moves(p)
  PROVE  [Lock!LockNext]_Lock!lockVars
<1> USE LeaseAssumption
<1>0. ExcluderTells /\ ExcluderTells'
  BY ExcluderIs, PTL
<1>1. \A c \in Collectors : at[c] = "exclusive" <=> Excluder = c
  BY <1>0 DEF ExcluderTells
<1>2. \A c \in Collectors : at'[c] = "exclusive" <=> Excluder' = c
  BY <1>0 DEF ExcluderTells
<1>3. Excluder \in Collectors \cup {None} /\ Excluder' \in Collectors \cup {None}
  BY <1>0 DEF ExcluderTells
<1>4. ExclusiveAlone /\ ExclusiveAlone'
  BY ExclusiveIsAlone, PTL
<1>5. \A u \in Users \ {p} : u \in Holders' <=> u \in Holders
  BY DEF Moves, Holders, Procs
<1>6. \A c \in Collectors \ {p} : at'[c] = at[c]
  BY DEF Moves, Procs
<1>7. Holders \subseteq Users /\ Holders' \subseteq Users
  BY DEF Holders
<1>8. CASE p \in Users
  <2>1. \A c \in Collectors : at'[c] = at[c]
    BY <1>6, <1>8
  <2>2. Excluder' = Excluder
    BY <1>1, <1>2, <1>3, <2>1
  <2>3. CASE p \in Holders <=> p \in Holders'
    BY <1>5, <1>7, <2>1, <2>3, SameLeases
  <2>4. CASE p \notin Holders /\ p \in Holders'
    <3>1. Excluder = None
      BY <1>2, <1>3, <1>4, <2>2, <2>4 DEF ExclusiveAlone
    <3>2. Lock!Share(p)
      BY <1>5, <1>7, <2>2, <2>4, <3>1 DEF Lock!Share
    <3> QED
      BY <1>8, <3>2 DEF Lock!LockNext
  <2>5. CASE p \in Holders /\ p \notin Holders'
    <3>1. Lock!Unshare(p)
      BY <1>5, <1>7, <2>2, <2>5 DEF Lock!Unshare
    <3> QED
      BY <1>8, <3>1 DEF Lock!LockNext
  <2> QED
    BY <2>3, <2>4, <2>5
<1>9. CASE p \in Collectors
  <2>1. Holders' = Holders
    BY <1>5, <1>7, <1>9
  <2>2. CASE at[p] = "exclusive" <=> at'[p] = "exclusive"
    BY <1>6, <2>1, <2>2, SameLeases
  <2>3. CASE at[p] # "exclusive" /\ at'[p] = "exclusive"
    <3>1. Holders = {} /\ Excluder' = p
      BY <1>2, <1>4, <1>9, <2>1, <2>3 DEF ExclusiveAlone
    <3>2. Excluder = None
      BY <1>1, <1>2, <1>3, <1>6, <2>3, <3>1
    <3>3. Lock!Exclude(p)
      BY <2>1, <3>1, <3>2 DEF Lock!Exclude
    <3> QED
      BY <1>9, <3>3 DEF Lock!LockNext
  <2>4. CASE at[p] = "exclusive" /\ at'[p] # "exclusive"
    <3>1. Excluder = p
      BY <1>1, <1>9, <2>4
    <3>2. Excluder' = None
      BY <1>1, <1>2, <1>3, <1>6, <2>4, <3>1
    <3>3. Lock!Unexclude(p)
      BY <2>1, <3>1, <3>2 DEF Lock!Unexclude
    <3> QED
      BY <1>9, <3>3 DEF Lock!LockNext
  <2> QED
    BY <2>2, <2>3, <2>4
<1> QED
  BY <1>8, <1>9 DEF Procs

\* The files, markers and locks of cache_lease.py implement a lock that any
\* number of users share and a collector has alone (ImplementsProjectLock).
THEOREM LeaseImplementsLock == Spec => ImplementsProjectLock
<1>1. Init => Lock!LockInit
  BY LeaseAssumption DEF Init, Lock!LockInit, Holders, Excluder, Opening, Procs
<1>2. LeaseInv /\ LeaseInv' /\ [Next]_vars => [Lock!LockNext]_Lock!lockVars
  <2> SUFFICES ASSUME LeaseInv, LeaseInv', [Next]_vars
               PROVE  [Lock!LockNext]_Lock!lockVars
    OBVIOUS
  <2>1. CASE UNCHANGED vars
    BY <2>1 DEF vars, Lock!lockVars, Holders, Excluder
  <2>2. ASSUME NEW p \in Procs, Moves(p)
        PROVE  [Lock!LockNext]_Lock!lockVars
    BY <2>2, MoveImplements
  <2> QED
    BY <2>1, <2>2, OneMoves DEF LeaseInv
<1>3. Spec => []LeaseInv
  BY LeaseInvariant
<1> QED
  BY <1>1, <1>2, <1>3, PTL DEF Spec, ImplementsProjectLock, Lock!LockSpec
=============================================================================
