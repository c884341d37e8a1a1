---------------------------- MODULE ProjectLock ----------------------------
(***************************************************************************)
(* What the leases of one project's cache promise (cache_lease.py): any    *)
(* number of users at a time, or one collector and no user.  No file, no   *)
(* lock and no failure appears here; CacheLease implements it and          *)
(* CacheCollection builds on it.                                           *)
(***************************************************************************)
EXTENDS FiniteSets

CONSTANTS Users,       \* threads that open a project's cache
          Collectors,  \* threads that collect it
          None

VARIABLES holders,   \* the users that have a shared lease
          exclusive  \* the collector that has the exclusive lease

lockVars == <<holders, exclusive>>

LockInit == holders = {} /\ exclusive = None

Share(u) ==
  /\ exclusive = None
  /\ u \notin holders
  /\ holders' = holders \cup {u}
  /\ UNCHANGED exclusive

\* A lease ends when it is closed and when its process dies.
Unshare(u) ==
  /\ u \in holders
  /\ holders' = holders \ {u}
  /\ UNCHANGED exclusive

Exclude(c) ==
  /\ exclusive = None
  /\ holders = {}
  /\ exclusive' = c
  /\ UNCHANGED holders

Unexclude(c) ==
  /\ exclusive = c
  /\ exclusive' = None
  /\ UNCHANGED holders

LockNext ==
  \/ \E u \in Users : Share(u) \/ Unshare(u)
  \/ \E c \in Collectors : Exclude(c) \/ Unexclude(c)

LockSpec == LockInit /\ [][LockNext]_lockVars
=============================================================================
