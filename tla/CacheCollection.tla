--------------------------- MODULE CacheCollection ---------------------------
(***************************************************************************)
(* cache_gc.py: what prune and forget_project delete of the caches of all  *)
(* projects, while the projects are used, touched and collected by several *)
(* processes that may stop at any step.                                    *)
(*                                                                         *)
(* A file is the time of its last write, which stands for its identity and *)
(* its age; every write takes a time of its own.  A project's lease is the *)
(* lock of ProjectLock, which CacheLease implements.  What the unsafe      *)
(* paths, links and foreign files of a cache directory lead to is one      *)
(* outcome: an issue on the record of the project.                         *)
(***************************************************************************)
EXTENDS Naturals, FiniteSets

CONSTANTS Projects, Users, None,
          MissingGrace, IdleGrace,  \* age at which an unused cache may go
          TouchInterval,            \* a touch within it is not written
          MaxFiles, TargetFiles,    \* the quota: all files have one size
          MaxClock                  \* bound of the checks

\* "wal" stands for everything that lies beside the database and goes first: the
\* log, its index and the symbol snapshots.
Kinds == {"db", "wal", "access"}

\* deletion_rank
Rank == [k \in Kinds |-> CASE k = "db" -> 2 [] k = "access" -> 1 [] OTHER -> 0]

ASSUME CollectionAssumption ==
  /\ MissingGrace \in Nat /\ IdleGrace \in Nat /\ TouchInterval \in Nat
  /\ MaxFiles \in Nat /\ TargetFiles \in 0..MaxFiles
  /\ None \notin Projects

VARIABLES
  clock,
  files,     \* of each project and kind: time of the last write, 0 when absent
  holders,   \* of each project: the users with a shared lease
  exclusive, \* the projects with an exclusive lease
  due,       \* of each project: the users with a snapshot of it still to write
  orphaned,  \* history: the projects a snapshot was written of with no database
  touches,   \* _TOUCH_TIMES of the daemon: last time written, 0 for none
  gc         \* the collector

userVars == <<holders, due, orphaned>>
vars == <<clock, files, userVars, exclusive, touches, gc>>

Absent == [k \in Kinds |-> 0]
Idle == [at |-> "idle", pass |-> "none", records |-> [p \in Projects |-> None],
         exclude |-> {}, attempted |-> {}, projected |-> 0, now |-> 0,
         project |-> None, dry |-> FALSE]

Init ==
  /\ clock = 1
  /\ files = [p \in Projects |-> Absent]
  /\ holders = [p \in Projects |-> {}] /\ due = [p \in Projects |-> {}] /\ orphaned = {}
  /\ exclusive = {}
  /\ touches = [p \in Projects |-> 0]
  /\ gc = Idle

Present(f) == {k \in Kinds : f[k] # 0}
Exists(p) == files[p]["db"] # 0

-----------------------------------------------------------------------------
(* Users.                                                                  *)

Tick == clock < MaxClock /\ clock' = clock + 1
Write(p, k) == Tick /\ files' = [files EXCEPT ![p][k] = clock']

\* A store is opened, which makes its database.
Open(u, p) ==
  /\ p \notin exclusive /\ u \notin holders[p]
  /\ holders' = [holders EXCEPT ![p] = @ \cup {u}]
  /\ IF Exists(p) THEN UNCHANGED <<clock, files>> ELSE Write(p, "db")
  /\ orphaned' = orphaned \ {p}
  /\ UNCHANGED <<due, exclusive, touches, gc>>

Store(u, p, k) ==
  /\ u \in holders[p] /\ k # "access"
  /\ Write(p, k)
  /\ UNCHANGED <<userVars, exclusive, touches, gc>>

\* The store is closed, maybe with a snapshot to write: the map's at once, that of the
\* symbols a second later.
Close(u, p) ==
  /\ u \in holders[p]
  /\ holders' = [holders EXCEPT ![p] = @ \ {u}]
  /\ \E owes \in {{}, {u}} : due' = [due EXCEPT ![p] = @ \cup owes]
  /\ UNCHANGED <<clock, files, orphaned, exclusive, touches, gc>>

\* write_symbol_snapshot, write_map_snapshot: under a lease of their own, with no look
\* at the database, which may have been collected in between.  (One that cannot be
\* written stays due for ever.)
WriteSnapshot(u, p) ==
  /\ u \in due[p] /\ p \notin exclusive
  /\ due' = [due EXCEPT ![p] = @ \ {u}]
  /\ Write(p, "wal")
  /\ orphaned' = IF Exists(p) THEN orphaned ELSE orphaned \cup {p}
  /\ UNCHANGED <<holders, exclusive, touches, gc>>

\* touch_project, which holds a shared lease from its first look to the write.
\* A write that fails takes its time back.
Touch(p) ==
  /\ p \notin exclusive /\ Exists(p)
  /\ touches[p] = 0 \/ clock - touches[p] >= TouchInterval
  /\ Write(p, "access")
  /\ touches' = [touches EXCEPT ![p] = clock]
  /\ UNCHANGED <<userVars, exclusive, gc>>

Wait == Tick /\ UNCHANGED <<files, userVars, exclusive, touches, gc>>

-----------------------------------------------------------------------------
(* The collector.                                                          *)

\* prune, for the daemon with the projects it has served, or forget_project.
Start(pass, exclude, p, dry) ==
  /\ gc.at = "idle"
  /\ gc' = [Idle EXCEPT !.at = "scanning", !.pass = pass, !.exclude = exclude,
                        !.project = p, !.dry = dry]
  /\ UNCHANGED <<clock, files, userVars, exclusive, touches>>

LastAccess(f) ==
  IF f["access"] # 0 THEN f["access"] ELSE f["db"]

\* _inventory_records reads the groups one after the other.
Scan(p, missing, issues) ==
  /\ gc.at = "scanning" /\ p \notin gc.attempted
  /\ gc' = [gc EXCEPT
       !.attempted = @ \cup {p},
       !.records[p] = IF ~Exists(p) THEN None
                      ELSE [files |-> files[p], last |-> LastAccess(files[p]),
                            missing |-> missing, issues |-> issues],
       !.projected = @ + IF Exists(p) THEN Cardinality(Present(files[p])) ELSE 0]
  /\ UNCHANGED <<clock, files, userVars, exclusive, touches>>

Recorded == {p \in Projects : gc.records[p] # None}

\* What is read is not looked at again; groups with issues are left alone.
Plan ==
  /\ gc.at = "scanning" /\ gc.attempted = Projects
  /\ gc' = [gc EXCEPT !.at = "passing", !.now = clock,
              !.attempted = {p \in Recorded : gc.pass # "forget" /\ gc.records[p].issues}]
  /\ UNCHANGED <<clock, files, userVars, exclusive, touches>>

\* Mutant: the age of a group does not matter.
AgelessCandidates ==
  {p \in Recorded \ (gc.exclude \cup gc.attempted) :
     CASE gc.pass = "missing" -> gc.records[p].missing
       [] gc.pass = "idle" -> ~gc.records[p].missing
       [] gc.pass = "quota" -> TRUE
       [] gc.pass = "forget" -> p = gc.project
       [] OTHER -> FALSE}

Candidates ==
  {p \in Recorded \ (gc.exclude \cup gc.attempted) :
     LET r == gc.records[p] IN
     CASE gc.pass = "missing" -> r.missing /\ r.last + MissingGrace <= gc.now
       [] gc.pass = "idle" -> ~r.missing /\ r.last + IdleGrace <= gc.now
       [] gc.pass = "quota" -> gc.projected > TargetFiles
       [] gc.pass = "forget" -> p = gc.project
       [] OTHER -> FALSE}

NextCandidate == {p \in Candidates :
                    \A q \in Candidates : gc.records[p].last <= gc.records[q].last}

\* Mutant: the exclusive lease is not asked for.
TakeWithoutLease(p) ==
  /\ gc.at = "passing" /\ p \in NextCandidate
  /\ gc' = [gc EXCEPT !.attempted = @ \cup {p}, !.at = "checking", !.project = p]
  /\ exclusive' = exclusive \cup {p}
  /\ UNCHANGED <<clock, files, userVars, touches>>

\* apply: try_acquire_exclusive, or the project is skipped.
Take(p) ==
  /\ gc.at = "passing" /\ p \in NextCandidate
  /\ IF holders[p] = {} /\ p \notin exclusive
       THEN /\ gc' = [gc EXCEPT !.attempted = @ \cup {p}, !.at = "checking", !.project = p]
            /\ exclusive' = exclusive \cup {p}
       ELSE /\ gc' = [gc EXCEPT !.attempted = @ \cup {p}]
            /\ UNCHANGED exclusive
  /\ UNCHANGED <<clock, files, userVars, touches>>

Record == gc.records[gc.project]

\* Mutant: the group is deleted as it is now.
CheckNothing ==
  /\ gc.at = "checking"
  /\ gc' = [gc EXCEPT !.at = "deleting"]
  /\ UNCHANGED <<clock, files, userVars, exclusive, touches>>

\* _freshness_errors: the group has the names and the identities of the record.
Check ==
  /\ gc.at = "checking"
  /\ gc' = [gc EXCEPT
       !.at = IF files[gc.project] = Record.files /\ ~gc.dry THEN "deleting" ELSE "ending",
       !.projected = IF files[gc.project] = Record.files /\ gc.dry
                       THEN @ - Cardinality(Present(Record.files)) ELSE @]
  /\ UNCHANGED <<clock, files, userVars, exclusive, touches>>

\* Mutant: in the order of the names.
UnlinkAnyFirst(k) ==
  /\ gc.at = "deleting" /\ k \in Present(files[gc.project])
  /\ files' = [files EXCEPT ![gc.project][k] = 0]
  /\ gc' = [gc EXCEPT !.projected = @ - 1]
  /\ UNCHANGED <<clock, userVars, exclusive, touches>>

\* One file, each looked at again before it goes.
Unlink(k) ==
  /\ gc.at = "deleting"
  /\ LET left == Present(files[gc.project]) IN
       /\ k \in left /\ \A m \in left : Rank[k] <= Rank[m]
       /\ files[gc.project][k] = Record.files[k]
  /\ files' = [files EXCEPT ![gc.project][k] = 0]
  /\ gc' = [gc EXCEPT !.projected = @ - 1]
  /\ UNCHANGED <<clock, userVars, exclusive, touches>>

\* All are gone, or a file cannot be deleted.
Stop ==
  /\ gc.at = "deleting"
  /\ gc' = [gc EXCEPT !.at = "ending"]
  /\ UNCHANGED <<clock, files, userVars, exclusive, touches>>

Release ==
  /\ gc.at = "ending"
  /\ exclusive' = exclusive \ {gc.project}
  /\ gc' = [gc EXCEPT !.at = "passing", !.project = IF gc.pass = "forget" THEN @ ELSE None]
  /\ UNCHANGED <<clock, files, userVars, touches>>

NextPass ==
  /\ gc.at = "passing" /\ Candidates = {}
  /\ gc' = CASE gc.pass = "missing" -> [gc EXCEPT !.pass = "idle", !.now = clock]
             [] gc.pass = "idle" /\ gc.projected > MaxFiles -> [gc EXCEPT !.pass = "quota"]
             [] OTHER -> Idle
  /\ UNCHANGED <<clock, files, userVars, exclusive, touches>>

\* The collector's process ends: its lease is free.
Crash ==
  /\ gc.at # "idle"
  /\ exclusive' = exclusive \ {gc.project}
  /\ gc' = Idle
  /\ UNCHANGED <<clock, files, userVars, touches>>

\* The daemon is started again: it has served nothing yet.
Restart ==
  /\ \E p \in Projects : touches[p] # 0
  /\ touches' = [p \in Projects |-> 0]
  /\ UNCHANGED <<clock, files, userVars, exclusive, gc>>

Served == {p \in Projects : touches[p] # 0}

Next ==
  \/ \E u \in Users, p \in Projects : Open(u, p)
  \/ \E u \in Users, p \in Projects, k \in Kinds : Store(u, p, k)
  \/ \E u \in Users, p \in Projects : Close(u, p) \/ WriteSnapshot(u, p)
  \/ \E p \in Projects : Touch(p)
  \/ Wait
  \/ \E e \in {{}, Served}, dry \in BOOLEAN : Start("missing", e, None, dry)
  \/ \E p \in Projects : Start("forget", {}, p, FALSE)
  \/ \E p \in Projects, missing, issues \in BOOLEAN : Scan(p, missing, issues)
  \/ Plan
  \/ \E p \in Projects : Take(p)
  \/ Check
  \/ \E k \in Kinds : Unlink(k)
  \/ Stop
  \/ Release
  \/ NextPass
  \/ Crash
  \/ Restart

Spec == Init /\ [][Next]_vars

-----------------------------------------------------------------------------
(* Properties.                                                             *)

Deletes(p, k) == files[p][k] # 0 /\ files'[p][k] = 0

\* No file goes while anybody has the project open ("Active holders fail closed
\* without deletion", forget_project).
InUseKept == [][\A p \in Projects, k \in Kinds : Deletes(p, k) => holders[p] = {}]_vars

\* What goes is what was judged: a file written after the inventory stays, and
\* so does every other file of its group.
JudgedAsFound ==
  [][\A p \in Projects, k \in Kinds :
       Deletes(p, k) => \A m \in Present(files[p]) : files[p][m] = gc.records[p].files[m]]_vars

\* Wherever a deletion stops, what remains still has its database, by which the
\* next collection finds it.  (Known gap: a snapshot that was due when its project was
\* collected is written with no database beside it.)
LeftoversFound ==
  \A p \in Projects : Present(files[p]) # {} => Exists(p) \/ p \in orphaned

\* A cache the daemon has touched within the grace goes only for the quota or on
\* request, although inventory, judgement and deletion are steps apart; unless an
\* interrupted deletion has taken its marker and left its database.  Under the
\* quota no group goes while a less recently used one is untried.
RightfulDeletion ==
  [][\A p \in Projects, k \in Kinds :
       Deletes(p, k) =>
         /\ touches[p] # 0 /\ gc.records[p].files["access"] # 0 =>
              /\ gc.pass = "missing" => touches[p] + MissingGrace <= clock
              /\ gc.pass = "idle" => touches[p] + IdleGrace <= clock
         /\ gc.pass = "quota" =>
              \A q \in Recorded \ (gc.exclude \cup gc.attempted) :
                gc.records[p].last <= gc.records[q].last]_vars
=============================================================================
