----------------------------- MODULE CacheLease -----------------------------
(***************************************************************************)
(* The leases of one project's index cache (cache_lease.py), between       *)
(* processes that share nothing but a directory.  A user registers under a *)
(* short gate: it reaps the markers of dead users, creates a marker of its *)
(* own and locks it.  A collector keeps the gate, and goes on only if      *)
(* every marker is unlocked.  Locks are released by the system when a      *)
(* process dies; files stay.                                               *)
(*                                                                         *)
(* The gate is a file too, created by whoever comes first.  It is opened,  *)
(* and checked to be the file that is listed, before it is locked.         *)
(***************************************************************************)
EXTENDS Naturals, FiniteSets

CONSTANTS Users,       \* threads that call acquire_shared
          Collectors,  \* threads that call try_acquire_exclusive
          Markers,     \* names of holder files
          None

Procs == Users \cup Collectors

ASSUME LeaseAssumption ==
  /\ Users \cap Collectors = {}
  /\ None \notin Procs \cup Markers

VARIABLES
  stamp,     \* the gate file: 0 absent, 1 empty, from 2 on the time of its last write
  gate,      \* the process that has the gate locked
  file,      \* the marker files that exist
  locked,    \* the process that has a marker locked
  at,        \* where a process is
  task,      \* what it wants the gate for
  seen,      \* the gate's identity at its last fstat
  mine,      \* the marker it created
  left,      \* markers it has listed and not yet tried
  stale      \* markers it found unlocked and has not yet removed

fileVars == <<file, locked>>
scanVars == <<mine, left, stale>>
vars == <<stamp, gate, file, locked, at, task, seen, mine, left, stale>>

Opening == {"open", "fstat", "lstat", "size", "write", "lock"}
Gated == {"fstat2", "lstat2", "scan", "probe", "unlink", "mark", "leave", "remove", "exclusive"}
Places == {"idle", "holding", "unlock", "unsafe"} \cup Opening \cup Gated

Init ==
  /\ stamp = 0
  /\ gate = None
  /\ file = {}
  /\ locked = [m \in Markers |-> None]
  /\ at = [p \in Procs |-> "idle"]
  /\ task = [p \in Procs |-> "none"]
  /\ seen = [p \in Procs |-> 0]
  /\ mine = [p \in Procs |-> None]
  /\ left = [p \in Procs |-> {}]
  /\ stale = [p \in Procs |-> {}]

Go(p, place) == at' = [at EXCEPT ![p] = place]

\* A call ends and keeps nothing.
Return(p, place) ==
  /\ Go(p, place)
  /\ task' = [task EXCEPT ![p] = "none"]
  /\ mine' = [mine EXCEPT ![p] = None]
  /\ left' = [left EXCEPT ![p] = {}]
  /\ stale' = [stale EXCEPT ![p] = {}]
  /\ UNCHANGED seen

FreeGate(p) == gate' = IF gate = p THEN None ELSE gate

-----------------------------------------------------------------------------
(* The calls.                                                              *)

Begin(p, t) ==
  /\ Go(p, "open")
  /\ task' = [task EXCEPT ![p] = t]
  /\ UNCHANGED <<stamp, gate, fileVars, seen, scanVars>>

AcquireShared(u) == at[u] = "idle" /\ Begin(u, "share")
Close(u) == at[u] = "holding" /\ Begin(u, "close")
TryAcquireExclusive(c) == at[c] = "idle" /\ Begin(c, "exclude")

-----------------------------------------------------------------------------
(* _open_lock_file on the gate, _acquire and the check after it.           *)

Open(p) ==
  /\ at[p] = "open"
  /\ stamp' = IF stamp = 0 THEN 1 ELSE stamp
  /\ Go(p, "fstat")
  /\ UNCHANGED <<gate, fileVars, task, seen, scanVars>>

Fstat(p, from, to) ==
  /\ at[p] = from
  /\ seen' = [seen EXCEPT ![p] = stamp]
  /\ Go(p, to)
  /\ UNCHANGED <<stamp, gate, fileVars, task, scanVars>>

\* The file listed is the file opened.
Unchanged(p, from, to) ==
  /\ at[p] = from
  /\ stamp = seen[p]
  /\ Go(p, to)
  /\ UNCHANGED <<stamp, gate, fileVars, task, seen, scanVars>>

\* It is not: LeaseUnsafeError, which close() alone swallows.
Changed(p) ==
  /\ at[p] \in {"lstat", "lstat2"}
  /\ stamp # seen[p]
  /\ FreeGate(p)
  /\ IF task[p] = "close"
       THEN Go(p, "unlock") /\ UNCHANGED <<task, seen, scanVars>>
       ELSE Return(p, "unsafe")
  /\ UNCHANGED <<stamp, fileVars>>

Size(p) ==
  /\ at[p] = "size"
  /\ Go(p, IF stamp = 1 THEN "write" ELSE "lock")
  /\ UNCHANGED <<stamp, gate, fileVars, task, seen, scanVars>>

\* The first write changes the size, a later one the time unless the clock has
\* not moved.
Write(p) ==
  /\ at[p] = "write"
  /\ stamp' \in IF stamp = 1 THEN {2} ELSE {stamp, stamp + 1}
  /\ Go(p, "lock")
  /\ UNCHANGED <<gate, fileVars, task, seen, scanVars>>

TakeGate(p) ==
  /\ at[p] = "lock"
  /\ gate = None
  /\ gate' = p
  /\ Go(p, "fstat2")
  /\ UNCHANGED <<stamp, fileVars, task, seen, scanVars>>

\* The timeout has passed; it is zero for a collector.  close() goes on without.
GiveUp(p) ==
  /\ at[p] = "lock"
  /\ gate # None
  /\ IF task[p] = "close"
       THEN Go(p, "unlock") /\ UNCHANGED <<task, seen, scanVars>>
       ELSE Return(p, "idle")
  /\ UNCHANGED <<stamp, gate, fileVars>>

GateSteps(p) ==
  \/ Open(p)
  \/ Fstat(p, "fstat", "lstat")
  \/ Unchanged(p, "lstat", "size")
  \/ Changed(p)
  \/ Size(p)
  \/ Write(p)
  \/ TakeGate(p)
  \/ GiveUp(p)
  \/ Fstat(p, "fstat2", "lstat2")
  \/ Unchanged(p, "lstat2", IF task[p] = "close" THEN "unlock" ELSE "scan")

-----------------------------------------------------------------------------
(* Under the gate.                                                         *)

\* _project_entries.
Scan(p) ==
  /\ at[p] = "scan"
  /\ left' = [left EXCEPT ![p] = file]
  /\ Go(p, "probe")
  /\ UNCHANGED <<stamp, gate, fileVars, task, seen, mine, stale>>

\* Mutant: a marker is taken for stale without trying its lock.
ProbeNothing(p, m) ==
  /\ at[p] = "probe"
  /\ m \in left[p]
  /\ left' = [left EXCEPT ![p] = @ \ {m}]
  /\ stale' = [stale EXCEPT ![p] = @ \cup {m}]
  /\ Go(p, IF task[p] = "share" THEN "unlink" ELSE "probe")
  /\ UNCHANGED <<stamp, gate, fileVars, task, seen, mine>>

\* _unlocked_holder_identity has an answer.  A user removes the marker before it
\* tries the next; a collector tries them all first.
ProbeUnlocked(p, m) ==
  /\ at[p] = "probe"
  /\ m \in left[p]
  /\ locked[m] = None
  /\ left' = [left EXCEPT ![p] = @ \ {m}]
  /\ stale' = [stale EXCEPT ![p] = @ \cup {m}]
  /\ Go(p, IF task[p] = "share" THEN "unlink" ELSE "probe")
  /\ UNCHANGED <<stamp, gate, fileVars, task, seen, mine>>

\* It has none: the holder lives.
ProbeLocked(p, m) ==
  /\ at[p] = "probe"
  /\ m \in left[p]
  /\ locked[m] # None
  /\ IF task[p] = "share"
       THEN /\ left' = [left EXCEPT ![p] = @ \ {m}]
            /\ UNCHANGED <<at, task, seen, mine, stale, gate>>
       ELSE /\ Return(p, "idle")
            /\ FreeGate(p)
  /\ UNCHANGED <<stamp, fileVars>>

\* _unlink_verified.
Unlink(p, m) ==
  /\ at[p] = "unlink"
  /\ m \in stale[p]
  /\ file' = file \ {m}
  /\ stale' = [stale EXCEPT ![p] = @ \ {m}]
  /\ Go(p, IF task[p] = "share" THEN "probe" ELSE "unlink")
  /\ UNCHANGED <<stamp, gate, locked, task, seen, mine, left>>

\* A name with a fresh nonce, created with O_EXCL.
Fresh(m) == m \notin file /\ \A p \in Procs : mine[p] # m /\ m \notin left[p] \cup stale[p]

Create(u, m) ==
  /\ at[u] = "probe"
  /\ left[u] = {}
  /\ Fresh(m)
  /\ file' = file \cup {m}
  /\ mine' = [mine EXCEPT ![u] = m]
  /\ Go(u, "mark")
  /\ UNCHANGED <<stamp, gate, locked, task, seen, left, stale>>

Mark(u) ==
  /\ at[u] = "mark"
  /\ locked' = [locked EXCEPT ![mine[u]] = u]
  /\ Go(u, "leave")
  /\ UNCHANGED <<stamp, gate, file, task, seen, scanVars>>

\* acquire_shared returns the lease.
Leave(u) ==
  /\ at[u] = "leave"
  /\ FreeGate(u)
  /\ Go(u, "holding")
  /\ task' = [task EXCEPT ![u] = "none"]
  /\ UNCHANGED <<stamp, fileVars, seen, scanVars>>

\* A file operation under the gate fails: what was created is removed again,
\* unless that fails as well.
Abort(p) ==
  /\ at[p] \in {"scan", "probe", "unlink", "mark", "leave"}
  /\ locked' = [m \in Markers |-> IF m = mine[p] THEN None ELSE locked[m]]
  /\ file' \in {file, file \ {mine[p]}}
  /\ FreeGate(p)
  /\ Return(p, "idle")
  /\ UNCHANGED stamp

UserSteps(u) ==
  \/ Scan(u)
  \/ \E m \in Markers : ProbeUnlocked(u, m) \/ ProbeLocked(u, m) \/ Unlink(u, m) \/ Create(u, m)
  \/ Mark(u)
  \/ Leave(u)
  \/ Abort(u)

\* Every marker has been tried, and then removed.
AllProbed(c) ==
  /\ at[c] = "probe"
  /\ left[c] = {}
  /\ Go(c, "unlink")
  /\ UNCHANGED <<stamp, gate, fileVars, task, seen, scanVars>>

\* Mutant: the gate is released on return, as acquire_shared does.
ExclusiveUngated(c) ==
  /\ at[c] = "unlink"
  /\ stale[c] = {}
  /\ FreeGate(c)
  /\ Go(c, "exclusive")
  /\ UNCHANGED <<stamp, fileVars, task, seen, scanVars>>

Exclusive(c) ==
  /\ at[c] = "unlink"
  /\ stale[c] = {}
  /\ Go(c, "exclusive")
  /\ UNCHANGED <<stamp, gate, fileVars, task, seen, scanVars>>

CloseExclusive(c) ==
  /\ at[c] = "exclusive"
  /\ FreeGate(c)
  /\ Return(c, "idle")
  /\ UNCHANGED <<stamp, fileVars>>

CollectorSteps(c) ==
  \/ Scan(c)
  \/ \E m \in Markers : ProbeUnlocked(c, m) \/ ProbeLocked(c, m) \/ Unlink(c, m)
  \/ AllProbed(c)
  \/ Exclusive(c)
  \/ CloseExclusive(c)
  \/ Abort(c)

-----------------------------------------------------------------------------
(* The rest of close, and death.                                           *)

\* The lease is given up first; without the gate its marker stays.
Unlock(u) ==
  /\ at[u] = "unlock"
  /\ locked' = [locked EXCEPT ![mine[u]] = None]
  /\ IF gate = u
       THEN Go(u, "remove") /\ UNCHANGED <<task, seen, scanVars>>
       ELSE Return(u, "idle")
  /\ UNCHANGED <<stamp, gate, file>>

\* A failure to remove the marker is ignored.
Remove(u) ==
  /\ at[u] = "remove"
  /\ file' \in {file, file \ {mine[u]}}
  /\ FreeGate(u)
  /\ Return(u, "idle")
  /\ UNCHANGED <<stamp, locked>>

\* The caller of acquire_shared or try_acquire_exclusive sees LeaseUnsafeError.
Raise(p) ==
  /\ at[p] = "unsafe"
  /\ Go(p, "idle")
  /\ UNCHANGED <<stamp, gate, fileVars, task, seen, scanVars>>

\* The process dies; its thread's place is taken by a new one.
Crash(p) ==
  /\ at[p] # "idle"
  /\ locked' = [m \in Markers |-> IF locked[m] = p THEN None ELSE locked[m]]
  /\ FreeGate(p)
  /\ Return(p, "idle")
  /\ UNCHANGED <<stamp, file>>

Next ==
  \/ \E u \in Users : AcquireShared(u) \/ Close(u) \/ UserSteps(u) \/ Unlock(u) \/ Remove(u)
  \/ \E c \in Collectors : TryAcquireExclusive(c) \/ CollectorSteps(c)
  \/ \E p \in Procs : GateSteps(p) \/ Raise(p) \/ Crash(p)

Spec == Init /\ [][Next]_vars

-----------------------------------------------------------------------------
(* Properties.                                                             *)

TypeOK ==
  /\ stamp \in Nat
  /\ gate \in Procs \cup {None}
  /\ file \subseteq Markers
  /\ locked \in [Markers -> Procs \cup {None}]
  /\ at \in [Procs -> Places]
  /\ task \in [Procs -> {"none", "share", "close", "exclude"}]
  /\ seen \in [Procs -> Nat]
  /\ mine \in [Procs -> Markers \cup {None}]
  /\ left \in [Procs -> SUBSET Markers]
  /\ stale \in [Procs -> SUBSET Markers]

\* A lease is held from the lock of its marker until that lock is released.
Holders ==
  {u \in Users : \/ at[u] \in {"leave", "holding", "unlock"}
                 \/ task[u] = "close" /\ at[u] \in Opening \cup {"fstat2", "lstat2"}}
Excluder == IF \E c \in Collectors : at[c] = "exclusive"
              THEN CHOOSE c \in Collectors : at[c] = "exclusive"
              ELSE None

\* The marker of a lease that is in use exists and is locked by its user: no
\* other user and no collector has reaped it, however registrations, closes
\* without the gate, failures and deaths interleave (_reap_unlocked_holders).
HolderProtected ==
  \A u \in Holders : mine[u] \in file /\ locked[mine[u]] = u

\* While a collector deletes, no lease is in use, and the directory has no
\* marker left (try_acquire_exclusive: "only when every holder is provably
\* inactive").
ExclusiveAlone ==
  \A c \in Collectors : at[c] = "exclusive" => Holders = {} /\ file = {}

\* The leases are a lock that users share and a collector has alone.
Lock == INSTANCE ProjectLock WITH holders <- Holders, exclusive <- Excluder
ImplementsProjectLock == Lock!LockSpec
=============================================================================
