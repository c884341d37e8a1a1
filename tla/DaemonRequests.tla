--------------------------- MODULE DaemonRequests ---------------------------
(***************************************************************************)
(* One daemon, from its first request to the release of its lock (daemon.py): *)
(* handlers admitted by slots, the timer that ends an idle daemon            *)
(* (_IdleShutdownController), the recovery that an interactive request        *)
(* leaves in the background, and the order in which serve drains.  The watch  *)
(* manager is WatchRecovery; other heavy work is ShardedWork.                 *)
(*                                                                         *)
(* Time is the ticks since the last activity, up to the idle timeout.      *)
(***************************************************************************)
EXTENDS WatchRecovery, Integers

CONSTANTS Requests,   \* each sent once
          Asks,       \* of each request: the kinds it may be of
          bg,         \* the recovery thread of the project
          Slots,      \* CODESEXTANT_MAX_HANDLER_THREADS
          Timeout     \* CODESEXTANT_IDLE_TIMEOUT_SEC, in ticks

ASSUME DaemonAssumption == Threads = Requests \cup {bg} /\ bg \notin Requests
                           /\ Slots \in Nat \ {0} /\ Timeout \in Nat \ {0}

VARIABLES
  conn, kind, said,  \* of each request: its connection, what it asks, what an
                     \* interactive one is told of the index
  slots, active,     \* free handler slots; _active_requests
  idle, timer,       \* ticks since the last activity; ticks until the timer (Off: none)
  firing,            \* callbacks that have begun: "current" or of an old generation
  closed,            \* "no", or why: "idle", "asked"
  stage,             \* of serve
  writers, pruned    \* snapshot writers; has the cache been pruned

idleVars == <<idle, timer, firing, closed>>
serverVars == <<conn, kind, said, slots, active, stage, writers, pruned>>
vars == <<watchVars, serverVars, idleVars>>

Off == -1

Init ==
  /\ WatchInit
  /\ conn = [r \in Requests |-> "new"] /\ kind = [r \in Requests |-> "none"]
  /\ said = [r \in Requests |-> "nothing"]
  /\ slots = Slots /\ active = 0
  /\ idle = 0 /\ timer = Timeout /\ firing = {} /\ closed = "no"
  /\ stage = "serving" /\ writers = 0 /\ pruned = FALSE

-----------------------------------------------------------------------------
(* _IdleShutdownController.  (The caller says what becomes of active, closed.) *)

\* A timer that has begun cannot be cancelled: its generation is old.
Cancelled == IF "current" \in firing THEN {"stale"} ELSE firing
Cancel == timer' = Off /\ firing' = Cancelled
Arm(since) == IF closed # "no" THEN Cancel
                               ELSE timer' = Timeout - since /\ firing' = Cancelled

Touch ==
  IF closed # "no" \/ stage \notin {"serving", "handlers"}
    THEN UNCHANGED idleVars
    ELSE /\ idle' = 0 /\ UNCHANGED closed
         /\ IF active = 0 THEN Arm(0) ELSE UNCHANGED <<timer, firing>>

Tick ==
  /\ stage = "serving" /\ (idle < Timeout \/ timer > 0)
  /\ idle' = IF idle < Timeout THEN idle + 1 ELSE idle
  /\ timer' = IF timer > 0 THEN timer - 1 ELSE timer
  /\ UNCHANGED <<watchVars, serverVars, firing, closed>>

Fire ==
  /\ timer = 0
  /\ timer' = Off /\ firing' = firing \cup {"current"}
  /\ UNCHANGED <<watchVars, serverVars, idle, closed>>

\* _background_busy.
Busy == HasPendingWork \/ at[bg] # "out" \/ job # NoJob

\* Mutant: the generation is not compared.
OnTimeoutAnyGeneration(g) ==
  /\ g \in firing
  /\ IF closed # "no"
       THEN firing' = firing \ {g} /\ UNCHANGED <<idle, timer, closed>>
     ELSE IF active > 0 \/ Busy
       THEN idle' = 0 /\ timer' = Timeout /\ firing' = firing \ {g} /\ UNCHANGED closed
       ELSE closed' = "idle" /\ firing' = firing \ {g} /\ UNCHANGED <<idle, timer>>
  /\ UNCHANGED <<watchVars, serverVars>>

\* Mutant: a busy daemon is not looked at again.
OnTimeoutOnce(g) ==
  /\ g \in firing /\ firing' = firing \ {g}
  /\ closed' = IF closed # "no" \/ g = "stale" \/ active > 0 \/ Busy THEN closed ELSE "idle"
  /\ UNCHANGED <<watchVars, serverVars, idle, timer>>

OnTimeout(g) ==
  /\ g \in firing /\ firing' = firing \ {g}
  /\ closed # "no" \/ g = "stale" \/ active > 0 \/ Unlocked
  /\ IF closed # "no" \/ g = "stale" THEN UNCHANGED <<idle, timer, closed>>
     ELSE IF active > 0 \/ Busy THEN idle' = 0 /\ timer' = Timeout /\ UNCHANGED closed
     ELSE closed' = "idle" /\ UNCHANGED <<idle, timer>>
  /\ UNCHANGED <<watchVars, serverVars>>

-----------------------------------------------------------------------------
(* process_request, the handler, process_request_thread.                   *)

Accept(r, k) ==
  /\ stage = "serving" /\ conn[r] = "new" /\ slots > 0 /\ closed = "no" /\ k \in Asks[r]
  /\ conn' = [conn EXCEPT ![r] = "open"] /\ kind' = [kind EXCEPT ![r] = k]
  /\ slots' = slots - 1 /\ active' = active + 1
  /\ Cancel
  /\ UNCHANGED <<watchVars, said, stage, writers, pruned, idle, closed>>

\* 503: no slot, or a daemon on its way out, whose slot is given back.
Reject(r) ==
  /\ stage = "serving" /\ conn[r] = "new" /\ (slots = 0 \/ closed # "no")
  /\ conn' = [conn EXCEPT ![r] = "done"]
  /\ UNCHANGED <<watchVars, kind, said, slots, active, stage, writers, pruned, idleVars>>

\* _dispatch: the request is activity, unless it asks for /health or is refused before;
\* /status goes straight to its answer.
First == [query |-> "ask", reindex |-> "ask", interactive |-> "schedule",
          status |-> "told", health |-> "told"]
Dispatch(r) ==
  /\ conn[r] = "open" /\ Goes(r, "out", First[kind[r]])
  /\ IF kind[r] = "health" THEN UNCHANGED idleVars ELSE Touch
  /\ UNCHANGED <<projectVars, watch, mine, stateVars, job, evictVars, stopped, serverVars>>

\* _schedule_project_recovery: at most one thread for the project.
Schedule(r) ==
  /\ at[r] = "schedule" /\ Unlocked
  /\ at' = [at EXCEPT ![r] = "told",
                      ![bg] = IF state # "ready" /\ @ = "out" THEN "ask" ELSE @]
  /\ said' = [said EXCEPT ![r] = IF state = "ready" /\ job = NoJob THEN "ready" ELSE "stale"]
  /\ UNCHANGED <<projectVars, watch, mine, stateVars, job, evictVars, stopped>>
  /\ UNCHANGED <<conn, kind, slots, active, stage, writers, pruned, idleVars>>

\* The answer.  A handler may index a small project that has no index at all
\* (_ensure_indexed) and leave a thread that writes a snapshot.
Answer(r) ==
  /\ Goes(r, "told", "answered")
  /\ \/ UNCHANGED <<index, indexed, missed>>
     \/ /\ index = "none" /\ kind[r] = "interactive"
        /\ index' = "whole" /\ indexed' = disk /\ missed' \in {missed, TRUE}
  /\ writers' \in {writers} \cup (IF kind[r] = "interactive" THEN {1} ELSE {})
  /\ UNCHANGED <<disk, watch, mine, stateVars, job, evictor, stopped>>
  /\ UNCHANGED <<conn, kind, said, slots, active, stage, pruned, idleVars>>

EndRequest(r) ==
  /\ conn[r] = "open" /\ at[r] \in {"answered", "failed"} /\ at' = [at EXCEPT ![r] = "out"]
  /\ conn' = [conn EXCEPT ![r] = "ending"] /\ active' = active - 1
  /\ kind' = [kind EXCEPT ![r] = "none"] /\ said' = [said EXCEPT ![r] = "nothing"]
  /\ IF active = 1 THEN Arm(idle) ELSE UNCHANGED <<timer, firing>>
  /\ UNCHANGED <<projectVars, watch, mine, stateVars, job, evictVars, stopped>>
  /\ UNCHANGED <<slots, stage, writers, pruned, idle, closed>>

FreeSlot(r) ==
  /\ conn[r] = "ending"
  /\ conn' = [conn EXCEPT ![r] = "done"] /\ slots' = slots + 1
  /\ UNCHANGED <<watchVars, kind, said, active, stage, writers, pruned, idleVars>>

RecoveryEnds ==
  /\ at[bg] \in {"told", "failed"} /\ at' = [at EXCEPT ![bg] = "out"]
  /\ UNCHANGED <<projectVars, watch, mine, stateVars, job, evictVars, stopped, serverVars, idleVars>>

\* What the manager does for a thread; a new watch and a recovery are activity.
Manage(t) ==
  /\ \/ t = bg /\ EnsureReady(t)
     \/ t # bg /\ kind[t] = "query" /\ EnsureReady(t)
     \/ t # bg /\ kind[t] = "reindex" /\ Reindex(t)
  /\ IF watch' # watch \/ (state' = "ready" /\ at[t] = "settle") THEN Touch ELSE UNCHANGED idleVars
  /\ UNCHANGED serverVars

\* Of a registered watch it is activity, unless eviction is about to take it.
WatchEvent ==
  /\ stage # "gone" /\ (Edit \/ Flush)
  /\ IF watch = "off" \/ ~Unlocked THEN UNCHANGED idleVars ELSE Touch
  /\ UNCHANGED serverVars

\* Eviction is a thread of its own that serve does not wait for.
Evicting == (EvictFinds \/ Evict \/ FlushEvicted) /\ UNCHANGED <<serverVars, idleVars>>
Background == stage # "gone" /\ JobEnds /\ UNCHANGED <<serverVars, idleVars>>

-----------------------------------------------------------------------------
(* The end of serve.                                                       *)

\* initiate_shutdown, or an interrupt.
Shutdown ==
  /\ stage = "serving" /\ closed = "no"
  /\ closed' = "asked" /\ Cancel
  /\ UNCHANGED <<watchVars, serverVars, idle>>

Enter(from, to) == stage = from /\ stage' = to
Drained(from, to) ==
  /\ Enter(from, to)
  /\ UNCHANGED <<watchVars, conn, kind, said, slots, active, writers, pruned, idleVars>>

LoopEnds == closed # "no" /\ Drained("serving", "handlers")
JoinHandlers ==
  (\A r \in Requests : conn[r] \in {"new", "done"}) /\ Drained("handlers", "recoveries")

\* Mutant: recoveries are left to themselves.
JoinNothing == Drained("recoveries", "watches")

JoinRecoveries == at[bg] = "out" /\ Drained("recoveries", "watches")

StopWatches ==
  /\ Enter("watches", "writers") /\ StopAll
  /\ UNCHANGED <<conn, kind, said, slots, active, writers, pruned, idleVars>>

\* The writers have half a minute; the cache is pruned only after the last of them.
Leave ==
  /\ Enter("writers", "gone") /\ pruned' = (writers = 0)
  /\ UNCHANGED <<watchVars, conn, kind, said, slots, active, writers, idleVars>>

WriterEnds ==
  /\ writers > 0 /\ writers' = writers - 1
  /\ UNCHANGED <<watchVars, conn, kind, said, slots, active, stage, pruned, idleVars>>

-----------------------------------------------------------------------------

Handle(r) == \/ Dispatch(r) \/ Schedule(r) \/ Answer(r) \/ EndRequest(r) \/ FreeSlot(r)
Drain == LoopEnds \/ JoinHandlers \/ JoinRecoveries \/ StopWatches \/ Leave
OnTimeouts == \E g \in {"current", "stale"} : OnTimeout(g)

Next ==
  \/ \E r \in Requests, k \in DOMAIN First : Accept(r, k)
  \/ \E r \in Requests : Reject(r) \/ Handle(r)
  \/ \E t \in Threads : Manage(t)
  \/ RecoveryEnds \/ WatchEvent \/ Background \/ Evicting \/ Tick \/ Fire \/ OnTimeouts
  \/ Shutdown \/ Drain \/ WriterEnds

\* Threads run, timers fire, jobs end, and what has been saved is indexed; nobody
\* need send a request, save a file or stop the daemon.
Fairness ==
  /\ \A r \in Requests : WF_vars(Handle(r))
  /\ \A t \in Threads : WF_vars(Manage(t))
  /\ WF_vars(RecoveryEnds)
  /\ WF_vars(Background) /\ WF_vars(Evict /\ UNCHANGED <<serverVars, idleVars>>)
  /\ WF_vars(WatchEvent /\ Flush)
  /\ WF_vars(Tick) /\ WF_vars(Fire) /\ WF_vars(OnTimeouts) /\ WF_vars(Drain)

Spec == Init /\ [][Next]_vars /\ Fairness

-----------------------------------------------------------------------------
(* Properties.                                                             *)

Pending == watch = "dirty" \/ stopped

\* A project that is called ready has every saved edit in its index or in the watch
\* that will index it, whatever eviction takes away and when.  (Known gaps, which last
\* until a watched reindex without errors: what is saved while a watch could not be
\* attached, or was evicted under the request that had asked for it; a file that
\* indexing has left out, which nobody tries again while the project is ready.)
ReadyIsCurrent ==
  state = "ready" /\ index = "whole" /\ ~missed => indexed = disk \/ Pending

\* Whoever waits for a recovery is released: as long as there is a follower, the
\* attempt is current and its leader at work, however an attempt ends (the leader's
\* success or failure, an explicit reindex that overtakes it, eviction, the end).
FollowersReleased ==
  Followers # {} => attempt # NoLeader /\ at[attempt] \in {"lead", "led", "settle", "unled"}

\* The idle timer ends only a daemon that is not answering, not recovering, has
\* nothing to index, and has been so for the whole timeout, whatever was touched
\* while the timer fired.
IdleLongEnough ==
  [][closed' = "idle" /\ closed = "no" =>
       idle = Timeout /\ (\A r \in Requests : conn[r] # "open") /\ ~Busy]_vars

\* The lock is released, and the cache pruned, when nothing of the daemon can write
\* any more: no handler, no recovery, no registered watch, no snapshot under the
\* pruning.  (Known gap: a watch that eviction has taken, see LockOutlivesWrites.)
DrainInOrder ==
  stage \in {"writers", "gone"} =>
    /\ \A r \in Requests : conn[r] \in {"new", "done"}
    /\ at[bg] = "out" /\ watch = "off" /\ job = NoJob
    /\ pruned => writers = 0

\* A daemon nobody needs any more ends, whatever was running when its timer fired.
DaemonStops == <>(stage = "gone")

\* What watcher.py says of a flush that has begun: the daemon keeps its lock until it
\* has left, lest a replacement overlap the old writer.
LockOutlivesWrites == [][stage = "gone" => UNCHANGED projectVars]_vars

\* What engine.py says of the first interactive call: the daemon has scheduled an
\* index in the background, so that there is one when the recovery has succeeded.
FirstCallIndexes == at[bg] = "told" => index = "whole"
=============================================================================
