---------------------------- MODULE WatchRecovery ----------------------------
(***************************************************************************)
(* The watch manager of one project (WatchManager of watcher.py): the watch *)
(* is attached by the first request, the index is brought up to date once   *)
(* for all the requests that need it, and an idle project is let go.        *)
(*                                                                         *)
(* The files are one version number that every edit raises.  An edit seen   *)
(* by a live watch waits in it (dirty); what the watch does with it is      *)
(* ProjectWatch.  Full reindexing is one job of the project's lane, shared  *)
(* by the threads that ask for it while it runs.  Indexing may return       *)
(* without some of its files: those are missed.                             *)
(***************************************************************************)
EXTENDS Naturals, FiniteSets

CONSTANTS Threads,      \* that call the manager
          MaxVersion,   \* bound: the edits
          NoLeader,
          FollowerCap   \* _recovery_follower_capacity

ASSUME WatchAssumption == NoLeader \notin Threads

VARIABLES
  disk, index, indexed,  \* version of the files; "none", "part", "whole"; its version
  watch,                 \* the registered watch: "off", "clean", "dirty"
  mine,                  \* of each thread: the watch it has started and not registered
  state,                 \* _recovery_states
  attempt,               \* the leader of the attempt that others may follow
  at,                    \* where each thread is
  job,                   \* who waits for the running full reindex, what it has read, and watched
  missed,                \* history: what the index may lack, no watch will ever tell
  evictor,               \* evict_idle: "out"; "found" an idle project; the watch it took
  stopped

projectVars == <<disk, index, indexed>>
stateVars == <<state, attempt>>
evictVars == <<missed, evictor>>
watchVars == <<projectVars, watch, mine, stateVars, at, job, evictVars, stopped>>

NoJob == [for |-> {}, seen |-> 0, watched |-> FALSE]

WatchInit ==
  /\ disk = 1 /\ index \in {"none", "whole"} /\ indexed = (IF index = "none" THEN 0 ELSE 1)
  /\ watch = "off" /\ mine = [t \in Threads |-> "off"]
  /\ state = "unseen" /\ attempt = NoLeader
  /\ at = [t \in Threads |-> "out"]
  /\ job = NoJob /\ missed = FALSE /\ evictor = "out" /\ stopped = FALSE

Goes(t, from, to) == at[t] = from /\ at' = [at EXCEPT ![t] = to]
Followers == {t \in Threads : at[t] = "follow"}

-----------------------------------------------------------------------------
(* The files and the watch.                                                *)

Seen(w) == IF w = "off" THEN "off" ELSE "dirty"

Edit ==
  /\ disk < MaxVersion
  /\ disk' = disk + 1
  /\ watch' = Seen(watch) /\ mine' = [t \in Threads |-> Seen(mine[t])]
  /\ evictor' = IF evictor = "clean" THEN "dirty" ELSE evictor
  /\ UNCHANGED <<index, indexed, stateVars, at, job, missed, stopped>>

\* index_paths on the edited files.  It creates the index where there is none, and
\* then holds those files alone; a file it cannot read, parse or store is left out,
\* and the batch is done all the same.
IndexPaths ==
  /\ job = NoJob
  /\ index' = IF index = "none" THEN "part" ELSE index
  /\ indexed' = disk /\ missed' \in {missed, TRUE}
  /\ UNCHANGED <<disk, mine, stateVars, at, job, stopped>>

Flush == watch = "dirty" /\ watch' = "clean" /\ IndexPaths /\ UNCHANGED evictor

\* A watch that eviction has taken and not yet stopped is at work like any other.
FlushEvicted == evictor = "dirty" /\ evictor' = "clean" /\ IndexPaths /\ UNCHANGED watch

-----------------------------------------------------------------------------
(* ensure_watch.                                                           *)

\* A registered watch is touched, and nothing more; ensure_ready goes on to "look",
\* /reindex to "job".
EnsureWatch(t, next) ==
  /\ Goes(t, "ask", IF watch = "off" THEN "attach" ELSE next)
  /\ UNCHANGED <<projectVars, watch, mine, stateVars, job, evictVars, stopped>>

Start(t) ==
  /\ Goes(t, "attach", "register")
  /\ mine' = [mine EXCEPT ![t] = "clean"]
  /\ UNCHANGED <<projectVars, watch, stateVars, job, evictVars, stopped>>

\* No watchdog, no directory, or the observer cannot start: served unwatched.
StartFails(t, next) ==
  /\ Goes(t, "attach", next)
  /\ missed' = (missed \/ watch = "off")
  /\ job' = IF watch = "off" THEN [job EXCEPT !.watched = FALSE] ELSE job
  /\ UNCHANGED <<projectVars, watch, mine, stateVars, evictor, stopped>>

\* The first one to register keeps its watch; another's is stopped with what it holds.
Register(t, next) ==
  /\ Goes(t, "register", next)
  /\ watch' = IF watch = "off" /\ ~stopped THEN mine[t] ELSE watch
  /\ mine' = [mine EXCEPT ![t] = "off"]
  /\ UNCHANGED <<projectVars, stateVars, job, evictVars, stopped>>

-----------------------------------------------------------------------------
(* ensure_ready.                                                           *)

\* The event of the attempt is set: its followers go on, to an answer or to its error.
Release(t, to, outcome) ==
  at' = [x \in Threads |-> IF x = t THEN to ELSE IF x \in Followers THEN outcome ELSE at[x]]

\* mark_ready, also called after /reindex, takes the attempt from its leader.
MarkReady(t) == state' = "ready" /\ attempt' = NoLeader /\ Release(t, "told", "told")

NotIndexed(t) ==
  /\ at[t] = "look" /\ index = "none"
  /\ MarkReady(t)
  /\ UNCHANGED <<projectVars, watch, mine, job, evictVars, stopped>>

AlreadyReady(t) ==
  /\ Goes(t, "look", "told") /\ index # "none" /\ state = "ready"
  /\ UNCHANGED <<projectVars, watch, mine, stateVars, job, evictVars, stopped>>

Lead(t) ==
  /\ Goes(t, "look", "lead") /\ index # "none" /\ state = "unseen"
  /\ state' = "recovering" /\ attempt' = t
  /\ UNCHANGED <<projectVars, watch, mine, job, evictVars, stopped>>

\* One more follower, or HeavyWorkQueueFull.
Follow(t) ==
  /\ index # "none" /\ state = "recovering"
  /\ Goes(t, "look", IF Cardinality(Followers) < FollowerCap THEN "follow" ELSE "failed")
  /\ UNCHANGED <<projectVars, watch, mine, stateVars, job, evictVars, stopped>>

FollowerExpires(t) ==
  /\ Goes(t, "follow", "failed")
  /\ UNCHANGED <<projectVars, watch, mine, stateVars, job, evictVars, stopped>>

\* recover, and the handler of /reindex: the lane runs the job, or it is running.
RunJob(t) ==
  /\ at[t] \in {"lead", "job"} /\ at' = [at EXCEPT ![t] = IF @ = "lead" THEN "led" ELSE "run"]
  /\ job' = IF job = NoJob THEN [for |-> {t}, seen |-> disk, watched |-> watch # "off"] ELSE [job EXCEPT !.for = @ \cup {t}]
  /\ UNCHANGED <<projectVars, watch, mine, stateVars, evictVars, stopped>>

\* Refused by the lane.
JobRefused(t) ==
  /\ at[t] \in {"lead", "job"} /\ at' = [at EXCEPT ![t] = IF @ = "lead" THEN "unled" ELSE "failed"]
  /\ UNCHANGED <<projectVars, watch, mine, stateVars, job, evictVars, stopped>>

AfterJob(ok) ==
  at' = [t \in Threads |-> IF t \notin job.for THEN at[t]
                           ELSE IF at[t] = "led" THEN (IF ok THEN "settle" ELSE "unled")
                           ELSE IF ok THEN "mark" ELSE "failed"]

\* index_project has returned, with all the files or without those that failed singly;
\* or has raised.
JobEnds ==
  /\ job # NoJob /\ job' = NoJob
  /\ \/ AfterJob(TRUE) /\ index' = "whole"
        /\ indexed' = (IF indexed > job.seen THEN indexed ELSE job.seen)
        /\ missed' \in {missed /\ ~job.watched, TRUE}
     \/ AfterJob(FALSE) /\ UNCHANGED <<index, indexed, missed>>
  /\ UNCHANGED <<disk, watch, mine, stateVars, evictor, stopped>>

\* The leader settles its attempt, unless mark_ready or stop_all has taken it away.
Settle(t) ==
  /\ at[t] = "settle"
  /\ IF attempt = t THEN MarkReady(t)
                    ELSE at' = [at EXCEPT ![t] = "told"] /\ UNCHANGED stateVars
  /\ UNCHANGED <<projectVars, watch, mine, job, evictVars, stopped>>

\* Mutant: a recovery that failed wakes nobody.
SettleSilently(t) ==
  /\ Goes(t, "unled", "failed")
  /\ IF attempt = t THEN state' = "unseen" /\ attempt' = NoLeader ELSE UNCHANGED stateVars
  /\ UNCHANGED <<projectVars, watch, mine, job, evictVars, stopped>>

SettleFailed(t) ==
  /\ at[t] = "unled"
  /\ IF attempt = t
       THEN state' = "unseen" /\ attempt' = NoLeader /\ Release(t, "failed", "failed")
       ELSE at' = [at EXCEPT ![t] = "failed"] /\ UNCHANGED stateVars
  /\ UNCHANGED <<projectVars, watch, mine, job, evictVars, stopped>>

\* The handler of /reindex tells the manager.
Mark(t) ==
  /\ at[t] = "mark"
  /\ IF stopped THEN at' = [at EXCEPT ![t] = "told"] /\ UNCHANGED stateVars ELSE MarkReady(t)
  /\ UNCHANGED <<projectVars, watch, mine, job, evictVars, stopped>>

-----------------------------------------------------------------------------
(* evict_idle, has_pending_work, stop_all.                                 *)

\* evict_idle holds the manager's lock from its look at the project until it has
\* taken it.
Unlocked == evictor # "found"

\* The project has been idle for the time to live (at any time, as far as the model
\* goes), nothing is running and its watch has nothing waiting.
EvictFinds ==
  /\ evictor = "out" /\ evictor' = "found"
  /\ ~stopped /\ (watch # "off" \/ state # "unseen")
  /\ state # "recovering" /\ watch # "dirty"
  /\ UNCHANGED <<projectVars, watch, mine, stateVars, at, job, missed, stopped>>

\* Where a thread has asked for the watch and relies on it to the end of a reindex.
\* With a time to live shorter than that it is left without.
Busied == {"look", "lead", "led", "settle", "unled", "job", "run", "mark"}

TakeWatch ==
  /\ evictor = "found" /\ evictor' = (IF watch = "off" THEN "out" ELSE watch)
  /\ watch' = "off"
  /\ missed' = (missed \/ \E t \in Threads : at[t] \in Busied)
  /\ job' = [job EXCEPT !.watched = FALSE]
  /\ UNCHANGED <<projectVars, mine, at, stopped>>

\* Mutant: the watch goes, what is known of the index stays.
EvictWatchOnly == TakeWatch /\ UNCHANGED stateVars

EvictTakes == TakeWatch /\ state' = "unseen" /\ attempt' = NoLeader

\* The watch is stopped, with what it has been told since.
EvictStops ==
  /\ evictor \in {"clean", "dirty"} /\ evictor' = "out"
  /\ UNCHANGED <<projectVars, watch, mine, stateVars, at, job, missed, stopped>>

Evict == EvictTakes \/ EvictStops

HasPendingWork == state = "recovering" \/ watch = "dirty"

\* It stops the watches that are registered.
StopAll ==
  /\ Unlocked
  /\ watch' = "off" /\ state' = "unseen" /\ attempt' = NoLeader /\ stopped' = TRUE
  /\ Release(NoLeader, "out", "failed")
  /\ UNCHANGED <<projectVars, mine, job, evictVars>>

EnsureReady(t) ==
  \/ /\ Unlocked
     /\ \/ EnsureWatch(t, "look") \/ Register(t, "look")
        \/ NotIndexed(t) \/ AlreadyReady(t) \/ Lead(t) \/ Follow(t)
        \/ FollowerExpires(t) \/ Settle(t) \/ SettleFailed(t)
  \/ Start(t) \/ StartFails(t, "look") \/ RunJob(t) \/ JobRefused(t)

Reindex(t) ==
  \/ Unlocked /\ (EnsureWatch(t, "job") \/ Register(t, "job") \/ Mark(t))
  \/ Start(t) \/ StartFails(t, "job") \/ RunJob(t) \/ JobRefused(t)
=============================================================================
