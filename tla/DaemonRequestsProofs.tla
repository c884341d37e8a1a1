------------------------ MODULE DaemonRequestsProofs ------------------------
(***************************************************************************)
(* Safety of one daemon for any number of requests, of edits, of slots and *)
(* of followers, and any idle timeout: recoveries, the idle timer and the  *)
(* order in which serve drains.                                            *)
(***************************************************************************)
EXTENDS DaemonRequests, FiniteSetTheorems, TLAPS

-----------------------------------------------------------------------------
(* The inductive invariant of the watch manager.                           *)

Plain == {"out", "ask", "attach", "register", "schedule", "follow", "told", "failed",
          "answered"}
Leading == {"lead", "led", "settle", "unled"}
AtPlaces == Plain \cup Busied

Jobs == [for : SUBSET Threads, seen : Nat, watched : BOOLEAN]
Watches == {"off", "clean", "dirty"}

WatchTypeOK ==
  /\ disk \in Nat /\ index \in {"none", "part", "whole"} /\ indexed \in Nat
  /\ watch \in Watches /\ mine \in [Threads -> Watches]
  /\ state \in {"unseen", "recovering", "ready"} /\ attempt \in Threads \cup {NoLeader}
  /\ at \in [Threads -> AtPlaces]
  /\ job \in Jobs /\ missed \in BOOLEAN /\ stopped \in BOOLEAN
  /\ evictor \in {"out", "found", "clean", "dirty"}

\* A reindex runs for somebody, and whoever waits for one is at its call.
JobServed ==
  /\ job # NoJob => job.for # {}
  /\ \A t \in job.for : at[t] \in {"led", "run"}

\* There is an attempt while the project is recovering, and then its leader works; a
\* project that eviction has found is not recovering.
Led ==
  /\ state = "recovering" <=> attempt # NoLeader
  /\ attempt # NoLeader => at[attempt] \in Leading
  /\ \A t \in Threads : at[t] = "follow" => state = "recovering"
  /\ evictor = "found" => state # "recovering"

\* Where there is no watch, nothing relies on one.
Attached ==
  /\ \A t \in Threads : at[t] = "register" => mine[t] # "off"
  /\ ~stopped /\ watch = "off" =>
       /\ job # NoJob => ~job.watched
       /\ state = "ready" => missed
       /\ \A t \in Threads : at[t] \in Busied => missed

Accounted == indexed = disk \/ watch = "dirty" \/ stopped

\* A reindex that has read the files before an edit leaves the edit to the watch; so
\* does whoever is about to call the project ready.
Current ==
  /\ indexed <= disk /\ job.seen <= disk
  /\ job # NoJob => Accounted \/ job.seen = disk \/ (missed /\ ~job.watched)
  /\ state = "ready" /\ index = "whole" => Accounted \/ missed
  /\ \A t \in Threads : at[t] \in {"settle", "mark"} => Accounted \/ missed

WatchInv == WatchTypeOK /\ JobServed /\ Led /\ Attached /\ Current

LEMMA WatchInitInv == WatchInit => WatchInv
<1> SUFFICES ASSUME WatchInit
             PROVE  WatchInv
  OBVIOUS
<1>1. WatchTypeOK
  BY DEF WatchInit, WatchTypeOK, NoJob, Jobs, Watches, AtPlaces, Plain
<1>2. JobServed /\ Led /\ Attached /\ Current
  BY DEF WatchInit, NoJob, JobServed, Led, Attached, Current, Busied, Leading, Accounted
<1> QED
  BY <1>1, <1>2 DEF WatchInv

-----------------------------------------------------------------------------
(* The threads of the manager.                                             *)

\* Threads that neither lead nor run a reindex move on without asking the manager
\* for anything.
LEMMA PlainMoves ==
  ASSUME WatchInv, at' \in [Threads -> AtPlaces],
         \A t \in Threads : at'[t] # at[t] =>
           /\ at[t] \notin Leading \cup {"run"}
           /\ at'[t] \in Plain \ {"follow", "register"},
         UNCHANGED <<projectVars, watch, mine, stateVars, job, evictVars, stopped>>
  PROVE  WatchInv'
<1> USE DEF WatchInv, projectVars, stateVars, evictVars
<1>1. WatchTypeOK'
  BY DEF WatchTypeOK
<1>2. JobServed'
  BY DEF JobServed, NoJob, WatchTypeOK, Jobs, Leading
<1>3. Led'
  BY DEF Led, WatchTypeOK, Plain, Leading
<1>4. Attached'
  BY DEF Attached, NoJob, Plain, Busied
<1>5. Current'
  BY DEF Current, Accounted, NoJob, Plain
<1> QED
  BY <1>1, <1>2, <1>3, <1>4, <1>5

\* A thread moves on by itself.
LEMMA GoesPlainly ==
  ASSUME WatchInv, NEW t \in Threads, NEW from \in AtPlaces \ (Leading \cup {"run"}),
         NEW to \in Plain \ {"follow", "register"}, Goes(t, from, to),
         UNCHANGED <<projectVars, watch, mine, stateVars, job, evictVars, stopped>>
  PROVE  WatchInv'
<1>1. at' \in [Threads -> AtPlaces]
  BY DEF Goes, WatchInv, WatchTypeOK, AtPlaces
<1>2. \A x \in Threads : at'[x] # at[x] => x = t /\ at[x] = from /\ at'[x] = to
  BY DEF Goes, WatchInv, WatchTypeOK
<1> QED
  BY <1>1, <1>2, PlainMoves

LEMMA EnsureWatchInv ==
  ASSUME WatchInv, NEW t \in Threads, NEW next \in {"look", "job"}, EnsureWatch(t, next)
  PROVE  WatchInv'
<1> USE DEF EnsureWatch
<1>1. CASE watch = "off"
  BY <1>1, GoesPlainly DEF AtPlaces, Plain, Leading
<1>2. CASE watch # "off"
  <2> USE <1>2 DEF WatchInv, Goes, projectVars, stateVars, evictVars
  <2>1. WatchTypeOK'
    BY DEF WatchTypeOK, AtPlaces, Busied
  <2>2. JobServed'
    BY DEF JobServed, NoJob, WatchTypeOK, Jobs
  <2>3. Led'
    BY DEF Led, WatchTypeOK, Leading
  <2>4. Attached'
    BY DEF Attached
  <2>5. Current'
    BY DEF Current, Accounted, NoJob, WatchTypeOK
  <2> QED
    BY <2>1, <2>2, <2>3, <2>4, <2>5
<1> QED
  BY <1>1, <1>2

LEMMA StartInv ==
  ASSUME WatchInv, NEW t \in Threads, Start(t)
  PROVE  WatchInv'
<1> USE DEF WatchInv, Start, Goes, projectVars, stateVars, evictVars
<1>1. WatchTypeOK'
  BY DEF WatchTypeOK, AtPlaces, Plain, Watches
<1>2. JobServed'
  BY DEF JobServed, NoJob, WatchTypeOK, Jobs
<1>3. Led'
  BY DEF Led, WatchTypeOK, Leading
<1>4. Attached'
  BY DEF Attached, NoJob, WatchTypeOK, Busied
<1>5. Current'
  BY DEF Current, Accounted, NoJob, WatchTypeOK
<1> QED
  BY <1>1, <1>2, <1>3, <1>4, <1>5

LEMMA SameJob ==
  ASSUME NEW j \in Jobs, NEW k \in Jobs,
         j.for = k.for, j.seen = k.seen, j.watched = k.watched
  PROVE  j = k
<1>1. /\ j = [for |-> j.for, seen |-> j.seen, watched |-> j.watched]
      /\ k = [for |-> k.for, seen |-> k.seen, watched |-> k.watched]
  BY DEF Jobs
<1> QED
  BY <1>1

LEMMA StartFailsInv ==
  ASSUME WatchInv, NEW t \in Threads, NEW next \in {"look", "job"}, StartFails(t, next)
  PROVE  WatchInv'
<1> USE DEF WatchInv, StartFails, Goes, projectVars, stateVars, evictVars
<1>1. /\ job' \in Jobs /\ job'.for = job.for /\ job'.seen = job.seen
      /\ job' = NoJob <=> job = NoJob
      /\ watch = "off" => ~job'.watched
      /\ ~job.watched => ~job'.watched
  <2>1. CASE watch # "off"
    BY <2>1 DEF WatchTypeOK
  <2>2. CASE job = NoJob /\ watch = "off"
    <3>1. NoJob \in Jobs /\ NoJob.watched = FALSE
      BY DEF NoJob, Jobs
    <3>2. /\ job' \in Jobs /\ job'.for = job.for /\ job'.seen = job.seen
          /\ job'.watched = FALSE
      BY <2>2 DEF WatchTypeOK, Jobs
    <3>3. job' = NoJob
      BY <2>2, <3>1, <3>2, SameJob
    <3> QED
      BY <2>2, <3>1, <3>2, <3>3
  <2>3. CASE job # NoJob /\ watch = "off"
    <3>1. job' = [job EXCEPT !.watched = FALSE]
      BY <2>3
    <3>2. job' \in Jobs /\ job'.for = job.for /\ job'.seen = job.seen /\ ~job'.watched
      BY <3>1 DEF WatchTypeOK, Jobs
    <3>3. NoJob.for = {}
      BY DEF NoJob
    <3> QED
      BY <2>3, <3>2, <3>3 DEF JobServed
  <2> QED
    BY <2>1, <2>2, <2>3
<1>2. WatchTypeOK'
  BY <1>1 DEF WatchTypeOK, AtPlaces, Busied
<1>3. JobServed'
  BY <1>1 DEF JobServed, WatchTypeOK, Jobs
<1>4. Led'
  BY DEF Led, WatchTypeOK, Leading
<1>5. missed \/ watch = "off" => missed'
  OBVIOUS
<1>6. Attached'
  BY <1>1, <1>5 DEF Attached
<1>7. Current'
  BY <1>1, <1>5 DEF Current, Accounted, WatchTypeOK
<1> QED
  BY <1>2, <1>3, <1>4, <1>6, <1>7

LEMMA RegisterInv ==
  ASSUME WatchInv, NEW t \in Threads, NEW next \in {"look", "job"}, Register(t, next)
  PROVE  WatchInv'
<1> USE DEF WatchInv, Register, Goes, projectVars, stateVars, evictVars
<1>1. WatchTypeOK'
  BY DEF WatchTypeOK, AtPlaces, Busied, Watches
<1>2. JobServed'
  BY DEF JobServed, NoJob, WatchTypeOK, Jobs
<1>3. Led'
  BY DEF Led, WatchTypeOK, Leading
<1>4. Attached'
  BY DEF Attached, NoJob, WatchTypeOK
<1>5. Current'
  BY DEF Current, Accounted, NoJob, WatchTypeOK
<1> QED
  BY <1>1, <1>2, <1>3, <1>4, <1>5

\* What the event of an attempt does to the threads.
LEMMA ReleaseMoves ==
  ASSUME WatchTypeOK, NEW t, NEW to \in {"told", "failed", "out"},
         NEW outcome \in {"told", "failed"}, Release(t, to, outcome)
  PROVE  /\ at' \in [Threads -> AtPlaces]
         /\ \A x \in Threads : at'[x] # "follow" \/ x = t
         /\ \A x \in Threads : at'[x] \in {at[x], to, outcome}
         /\ \A x \in Threads : x # t /\ at[x] # "follow" => at'[x] = at[x]
         /\ t \in Threads => at'[t] = to
BY DEF WatchTypeOK, Release, Followers, AtPlaces, Plain

LEMMA MarkReadyInv ==
  ASSUME WatchInv, NEW t \in Threads, at[t] \in {"look", "settle", "mark"}, MarkReady(t),
         index # "whole" \/ Accounted \/ missed,
         UNCHANGED <<projectVars, watch, mine, job, evictVars, stopped>>
  PROVE  WatchInv'
<1> USE DEF WatchInv, MarkReady, projectVars, stateVars, evictVars
<1>1. /\ at' \in [Threads -> AtPlaces] /\ at'[t] = "told"
      /\ \A x \in Threads : at'[x] # "follow" /\ at'[x] \in {at[x], "told"}
      /\ \A x \in Threads : x # t /\ at[x] # "follow" => at'[x] = at[x]
  BY ReleaseMoves
<1>2. WatchTypeOK'
  BY <1>1 DEF WatchTypeOK
<1>3. JobServed'
  BY <1>1 DEF JobServed, NoJob, WatchTypeOK, Jobs
<1>4. Led'
  BY <1>1 DEF Led
<1>5. Attached'
  BY <1>1 DEF Attached, NoJob, Busied
<1>6. Current'
  BY <1>1 DEF Current, Accounted, NoJob
<1> QED
  BY <1>2, <1>3, <1>4, <1>5, <1>6

LEMMA LookInv ==
  ASSUME WatchInv, NEW t \in Threads,
         NotIndexed(t) \/ AlreadyReady(t) \/ FollowerExpires(t)
  PROVE  WatchInv'
<1>1. CASE NotIndexed(t)
  BY <1>1, MarkReadyInv DEF NotIndexed
<1>2. CASE AlreadyReady(t) \/ FollowerExpires(t)
  BY <1>2, GoesPlainly DEF AlreadyReady, FollowerExpires, AtPlaces, Busied, Plain, Leading
<1> QED
  BY <1>1, <1>2

LEMMA LeadInv ==
  ASSUME WatchInv, NEW t \in Threads, Lead(t), Unlocked
  PROVE  WatchInv'
<1> USE WatchAssumption DEF WatchInv, Lead, Unlocked, Goes, projectVars, stateVars, evictVars
<1>1. WatchTypeOK'
  BY DEF WatchTypeOK, AtPlaces, Busied
<1>2. JobServed'
  BY DEF JobServed, NoJob, WatchTypeOK, Jobs
<1>3. Led'
  BY DEF Led, WatchTypeOK, Leading
<1>4. Attached'
  BY DEF Attached, NoJob, WatchTypeOK, Busied
<1>5. Current'
  BY DEF Current, Accounted, NoJob, WatchTypeOK
<1> QED
  BY <1>1, <1>2, <1>3, <1>4, <1>5

LEMMA FollowInv ==
  ASSUME WatchInv, NEW t \in Threads, Follow(t)
  PROVE  WatchInv'
<1>1. CASE Goes(t, "look", "failed")
  BY <1>1, GoesPlainly DEF Follow, AtPlaces, Busied, Plain, Leading
<1>2. CASE Goes(t, "look", "follow")
  <2> USE <1>2 DEF WatchInv, Follow, Goes, projectVars, stateVars, evictVars
  <2>1. WatchTypeOK'
    BY DEF WatchTypeOK, AtPlaces, Plain
  <2>2. JobServed'
    BY DEF JobServed, NoJob, WatchTypeOK, Jobs
  <2>3. Led'
    BY DEF Led, WatchTypeOK, Leading
  <2>4. Attached'
    BY DEF Attached, NoJob, WatchTypeOK, Busied
  <2>5. Current'
    BY DEF Current, Accounted, NoJob, WatchTypeOK
  <2> QED
    BY <2>1, <2>2, <2>3, <2>4, <2>5
<1> QED
  BY <1>1, <1>2 DEF Follow

LEMMA RunJobInv ==
  ASSUME WatchInv, NEW t \in Threads, RunJob(t)
  PROVE  WatchInv'
<1> USE DEF WatchInv, RunJob, projectVars, stateVars, evictVars
<1>1. /\ job' \in Jobs /\ t \in job'.for /\ job'.for \subseteq job.for \cup {t}
      /\ job = NoJob => job'.seen = disk /\ (job'.watched => watch # "off")
      /\ job # NoJob => job'.seen = job.seen /\ job'.watched = job.watched
  <2>1. CASE job = NoJob
    BY <2>1 DEF WatchTypeOK, Jobs
  <2>2. CASE job # NoJob
    BY <2>2 DEF WatchTypeOK, Jobs
  <2> QED
    BY <2>1, <2>2
<1>2. /\ at' \in [Threads -> AtPlaces]
      /\ (at[t] = "lead" /\ at'[t] = "led") \/ (at[t] = "job" /\ at'[t] = "run")
      /\ \A x \in Threads : x # t => at'[x] = at[x]
  <2>1. at' = [at EXCEPT ![t] = IF at[t] = "lead" THEN "led" ELSE "run"]
    BY DEF WatchTypeOK
  <2>2. CASE at[t] = "lead"
    BY <2>1, <2>2 DEF WatchTypeOK, AtPlaces, Busied
  <2>3. CASE at[t] = "job"
    BY <2>1, <2>3 DEF WatchTypeOK, AtPlaces, Busied
  <2> QED
    BY <2>2, <2>3
<1>3. WatchTypeOK'
  BY <1>1, <1>2 DEF WatchTypeOK
<1>4. JobServed'
  BY <1>1, <1>2 DEF JobServed, WatchTypeOK, Jobs, NoJob
<1>5. Led'
  BY <1>2 DEF Led, WatchTypeOK, Leading
<1>6. Attached'
  BY <1>1, <1>2 DEF Attached, Busied
<1>7. Current'
  BY <1>1, <1>2 DEF Current, Accounted, WatchTypeOK
<1> QED
  BY <1>3, <1>4, <1>5, <1>6, <1>7

LEMMA JobRefusedInv ==
  ASSUME WatchInv, NEW t \in Threads, JobRefused(t)
  PROVE  WatchInv'
<1> USE DEF WatchInv, JobRefused, projectVars, stateVars, evictVars
<1>1. /\ at' \in [Threads -> AtPlaces]
      /\ (at[t] = "lead" /\ at'[t] = "unled") \/ (at[t] = "job" /\ at'[t] = "failed")
      /\ \A x \in Threads : x # t => at'[x] = at[x]
  <2>1. at' = [at EXCEPT ![t] = IF at[t] = "lead" THEN "unled" ELSE "failed"]
    BY DEF WatchTypeOK
  <2>2. CASE at[t] = "lead"
    BY <2>1, <2>2 DEF WatchTypeOK, AtPlaces, Busied
  <2>3. CASE at[t] = "job"
    BY <2>1, <2>3 DEF WatchTypeOK, AtPlaces, Plain
  <2> QED
    BY <2>2, <2>3
<1>2. WatchTypeOK'
  BY <1>1 DEF WatchTypeOK
<1>3. JobServed'
  BY <1>1 DEF JobServed, NoJob, WatchTypeOK, Jobs
<1>4. Led'
  BY <1>1 DEF Led, WatchTypeOK, Leading
<1>5. Attached'
  BY <1>1 DEF Attached, NoJob, Busied
<1>6. Current'
  BY <1>1 DEF Current, Accounted, NoJob
<1> QED
  BY <1>2, <1>3, <1>4, <1>5, <1>6

\* An attempt is settled by its leader, or was taken from it.
LEMMA SettleInv ==
  ASSUME WatchInv, NEW t \in Threads, Settle(t)
  PROVE  WatchInv'
<1>1. CASE attempt = t
  BY <1>1, MarkReadyInv DEF Settle, WatchInv, Current
<1>2. CASE attempt # t
  <2> USE <1>2 DEF WatchInv, Settle, projectVars, stateVars, evictVars
  <2>1. /\ at' \in [Threads -> AtPlaces] /\ at[t] = "settle" /\ at'[t] = "told"
        /\ \A x \in Threads : x # t => at'[x] = at[x]
    BY DEF WatchTypeOK, AtPlaces, Plain
  <2>2. WatchTypeOK'
    BY <2>1 DEF WatchTypeOK
  <2>3. JobServed'
    BY <2>1 DEF JobServed, NoJob, WatchTypeOK, Jobs
  <2>4. Led'
    BY <2>1 DEF Led, WatchTypeOK, Leading
  <2>5. Attached'
    BY <2>1 DEF Attached, NoJob, Busied
  <2>6. Current'
    BY <2>1 DEF Current, Accounted, NoJob
  <2> QED
    BY <2>2, <2>3, <2>4, <2>5, <2>6
<1> QED
  BY <1>1, <1>2

LEMMA SettleFailedInv ==
  ASSUME WatchInv, NEW t \in Threads, SettleFailed(t)
  PROVE  WatchInv'
<1> USE DEF WatchInv, SettleFailed, projectVars, stateVars, evictVars
<1>1. /\ at' \in [Threads -> AtPlaces] /\ at[t] = "unled" /\ at'[t] = "failed"
      /\ \A x \in Threads : at'[x] \in {at[x], "failed"}
      /\ \A x \in Threads : x # t /\ at[x] # "follow" => at'[x] = at[x]
      /\ attempt = t => \A x \in Threads : at'[x] # "follow"
  <2>1. CASE attempt = t
    BY <2>1, ReleaseMoves
  <2>2. CASE attempt # t
    BY <2>2 DEF WatchTypeOK, AtPlaces, Plain
  <2> QED
    BY <2>1, <2>2
<1>2. WatchTypeOK'
  BY <1>1 DEF WatchTypeOK
<1>3. JobServed'
  BY <1>1 DEF JobServed, NoJob, WatchTypeOK, Jobs
<1>4. Led'
  BY <1>1 DEF Led, WatchTypeOK, Leading
<1>5. Attached'
  BY <1>1 DEF Attached, NoJob, Busied
<1>6. Current'
  BY <1>1 DEF Current, Accounted, NoJob
<1> QED
  BY <1>2, <1>3, <1>4, <1>5, <1>6

LEMMA MarkInv ==
  ASSUME WatchInv, NEW t \in Threads, Mark(t)
  PROVE  WatchInv'
<1>1. CASE stopped
  <2>1. Goes(t, "mark", "told")
    BY <1>1 DEF Mark, Goes
  <2> QED
    BY <1>1, <2>1, GoesPlainly DEF Mark, AtPlaces, Busied, Plain, Leading
<1>2. CASE ~stopped
  BY <1>2, MarkReadyInv DEF Mark, WatchInv, Current
<1> QED
  BY <1>1, <1>2

\* What a thread of the manager does keeps the invariant.
LEMMA ThreadInv ==
  ASSUME WatchInv, NEW t \in Threads, EnsureReady(t) \/ Reindex(t)
  PROVE  WatchInv'
BY EnsureWatchInv, StartInv, StartFailsInv, RegisterInv, LookInv, LeadInv, FollowInv,
   RunJobInv, JobRefusedInv, SettleInv, SettleFailedInv, MarkInv DEF EnsureReady, Reindex

-----------------------------------------------------------------------------
(* The files, the reindex, eviction and the end.                           *)

LEMMA EditInv ==
  ASSUME WatchInv, Edit
  PROVE  WatchInv'
<1> USE DEF WatchInv, Edit, projectVars, stateVars, evictVars
<1>1. /\ disk' \in Nat /\ disk' = disk + 1 /\ watch' \in Watches
      /\ watch' = "off" <=> watch = "off"
      /\ watch # "off" => watch' = "dirty"
      /\ mine' \in [Threads -> Watches]
      /\ \A t \in Threads : mine'[t] = "off" <=> mine[t] = "off"
  BY DEF WatchTypeOK, Seen, Watches
<1>2. WatchTypeOK'
  BY <1>1 DEF WatchTypeOK
<1>3. JobServed' /\ Led'
  BY DEF JobServed, Led, NoJob
<1>4. Attached'
  BY <1>1 DEF Attached, NoJob
<1>5. Current'
  <2>1. CASE watch # "off" \/ stopped
    BY <1>1, <2>1 DEF Current, Accounted, NoJob, WatchTypeOK, Jobs
  <2>2. CASE watch = "off" /\ ~stopped
    <3>1. job # NoJob => missed /\ ~job.watched
      BY <2>2 DEF JobServed, Attached, WatchTypeOK, Jobs, Busied
    <3>2. state = "ready" => missed
      BY <2>2 DEF Attached
    <3>3. \A t \in Threads : at[t] \in {"settle", "mark"} => missed
      BY <2>2 DEF Attached, Busied
    <3> QED
      BY <1>1, <3>1, <3>2, <3>3 DEF Current, NoJob, WatchTypeOK, Jobs
  <2> QED
    BY <2>1, <2>2
<1> QED
  BY <1>2, <1>3, <1>4, <1>5

\* A flush, of the registered watch or of the one eviction has taken, indexes what
\* its watch has been told.
LEMMA FlushInv ==
  ASSUME WatchInv, Flush \/ FlushEvicted
  PROVE  WatchInv'
<1> USE DEF WatchInv, Flush, FlushEvicted, IndexPaths, projectVars, stateVars, evictVars
<1>1. WatchTypeOK'
  BY DEF WatchTypeOK, Watches
<1>2. JobServed' /\ Led'
  BY DEF JobServed, Led, NoJob
<1>3. missed => missed'
  BY DEF WatchTypeOK
<1>4. watch' = "off" <=> watch = "off"
  OBVIOUS
<1>5. Attached'
  BY <1>3, <1>4 DEF Attached
<1>6. Current'
  <2>1. job = NoJob /\ job' = NoJob /\ Accounted' /\ indexed' = disk' /\ disk' = disk
    BY DEF Accounted
  <2>2. disk' <= disk'
    BY <2>1 DEF WatchTypeOK
  <2> QED
    BY <2>1, <2>2 DEF Current
<1> QED
  BY <1>1, <1>2, <1>5, <1>6

LEMMA JobEndsInv ==
  ASSUME WatchInv, JobEnds
  PROVE  WatchInv'
<1> USE DEF WatchInv, JobEnds, projectVars, stateVars, evictVars
<1>1. /\ at' \in [Threads -> AtPlaces]
      /\ \A t \in Threads : t \notin job.for => at'[t] = at[t]
      /\ \A t \in job.for : /\ at[t] = "led" => at'[t] \in {"settle", "unled"}
                            /\ at[t] # "led" => at'[t] \in {"mark", "failed"}
      /\ \A t \in Threads : at'[t] \in Busied => at[t] \in Busied
      /\ \A t \in Threads : at'[t] = "follow" => at[t] = "follow"
      /\ \A t \in Threads : at'[t] = "register" => at[t] = "register"
  <2>1. \A ok \in BOOLEAN : AfterJob(ok) =>
          /\ at' \in [Threads -> AtPlaces]
          /\ \A t \in Threads : t \notin job.for => at'[t] = at[t]
          /\ \A t \in job.for : /\ at[t] = "led" => at'[t] \in {"settle", "unled"}
                                /\ at[t] # "led" => at'[t] \in {"mark", "failed"}
    BY DEF AfterJob, WatchTypeOK, Jobs, AtPlaces, Plain, Busied
  <2>2. /\ at' \in [Threads -> AtPlaces]
        /\ \A t \in Threads : t \notin job.for => at'[t] = at[t]
        /\ \A t \in job.for : /\ at[t] = "led" => at'[t] \in {"settle", "unled"}
                              /\ at[t] # "led" => at'[t] \in {"mark", "failed"}
    BY <2>1
  <2>3. ASSUME NEW t \in Threads
        PROVE  /\ at'[t] \in Busied => at[t] \in Busied
               /\ at'[t] = "follow" => at[t] = "follow"
               /\ at'[t] = "register" => at[t] = "register"
    BY <2>2 DEF JobServed, Busied
  <2> QED
    BY <2>2, <2>3
<1>2. job' = NoJob /\ NoJob.for = {} /\ NoJob.seen = 0 /\ NoJob \in Jobs
  BY DEF NoJob, Jobs
<1>3. JobServed'
  BY <1>2 DEF JobServed
<1>4. Led'
  <2>1. attempt # NoLeader => at'[attempt] \in Leading
    BY <1>1 DEF Led, JobServed, WatchTypeOK, Leading
  <2> QED
    BY <1>1, <2>1 DEF Led
<1>5. CASE AfterJob(FALSE) /\ UNCHANGED <<index, indexed, missed>>
  <2>1. WatchTypeOK'
    BY <1>1, <1>2, <1>5 DEF WatchTypeOK
  <2>2. Attached'
    BY <1>1, <1>2, <1>5 DEF Attached
  <2>3. \A t \in Threads : at'[t] \in {"settle", "mark"} => at[t] = at'[t]
    BY <1>5 DEF AfterJob, JobServed
  <2>4. Current'
    BY <1>2, <1>5, <2>3 DEF Current, Accounted, WatchTypeOK
  <2> QED
    BY <1>3, <1>4, <2>1, <2>2, <2>4
<1>6. CASE AfterJob(TRUE) /\ index' = "whole"
           /\ indexed' = (IF indexed > job.seen THEN indexed ELSE job.seen)
           /\ missed' \in {missed /\ ~job.watched, TRUE}
  <2>1. /\ indexed' \in Nat /\ indexed' <= disk /\ indexed' >= indexed
        /\ indexed' >= job.seen /\ disk \in Nat
    BY <1>6 DEF Current, WatchTypeOK, Jobs
  <2>2. WatchTypeOK'
    BY <1>1, <1>2, <1>6, <2>1 DEF WatchTypeOK
  <2>3. Accounted' \/ missed'
    <3>1. CASE missed' = TRUE
      BY <3>1
    <3>2. CASE missed' = (missed /\ ~job.watched)
      BY <1>6, <2>1, <3>2 DEF Current, Accounted, WatchTypeOK, Jobs
    <3> QED
      BY <1>6, <3>1, <3>2
  <2>4. Attached'
    <3>1. ~stopped /\ watch = "off" => ~job.watched
      BY DEF Attached
    <3> QED
      BY <1>1, <1>2, <1>6, <3>1 DEF Attached
  <2>5. Current'
    BY <1>2, <2>1, <2>3 DEF Current
  <2> QED
    BY <1>3, <1>4, <2>2, <2>4, <2>5
<1> QED
  BY <1>5, <1>6

\* Eviction looks at the project and stops the watch it has taken.
LEMMA EvictorInv ==
  ASSUME WatchInv, EvictFinds \/ EvictStops
  PROVE  WatchInv'
<1> USE DEF WatchInv, EvictFinds, EvictStops, projectVars, stateVars, evictVars
<1>1. WatchTypeOK'
  BY DEF WatchTypeOK
<1>2. JobServed' /\ Led' /\ Attached'
  BY DEF JobServed, Led, Attached, NoJob
<1>3. Current'
  BY DEF Current, Accounted, NoJob
<1> QED
  BY <1>1, <1>2, <1>3

\* It takes the watch and what is known of the index together; a request that relied
\* on the watch is left without.
LEMMA EvictTakesInv ==
  ASSUME WatchInv, EvictTakes
  PROVE  WatchInv'
<1> USE WatchAssumption DEF WatchInv, EvictTakes, TakeWatch, projectVars, stateVars, evictVars
<1>1. /\ job' \in Jobs /\ job'.for = job.for /\ job'.seen = job.seen /\ ~job'.watched
      /\ job' = NoJob <=> job = NoJob
  <2>1. /\ job' \in Jobs /\ job'.for = job.for /\ job'.seen = job.seen
        /\ job'.watched = FALSE
    BY DEF WatchTypeOK, Jobs
  <2>2. NoJob \in Jobs /\ NoJob.for = {} /\ NoJob.watched = FALSE
    BY DEF NoJob, Jobs
  <2>3. job = NoJob => job' = NoJob
    BY <2>1, <2>2, SameJob
  <2> QED
    BY <2>1, <2>2, <2>3 DEF JobServed
<1>2. WatchTypeOK'
  BY <1>1 DEF WatchTypeOK, Watches
<1>3. JobServed'
  BY <1>1 DEF JobServed
<1>4. Led'
  BY DEF Led
<1>5. \A t \in Threads : at'[t] \in Busied => missed'
  OBVIOUS
<1>6. Attached'
  BY <1>1, <1>5 DEF Attached
<1>7. job' # NoJob => missed'
  <2>1. ASSUME job' # NoJob
        PROVE  missed'
    <3>1. job # NoJob
      BY <1>1, <2>1
    <3>2. PICK t \in job.for : TRUE
      BY <3>1 DEF JobServed
    <3>3. t \in Threads /\ at[t] \in {"led", "run"}
      BY DEF JobServed, WatchTypeOK, Jobs
    <3> QED
      BY <3>3 DEF Busied
  <2> QED
    BY <2>1
<1>8. Current'
  BY <1>1, <1>5, <1>7 DEF Current, Busied
<1> QED
  BY <1>2, <1>3, <1>4, <1>6, <1>8

LEMMA StopAllInv ==
  ASSUME WatchInv, StopAll
  PROVE  WatchInv'
<1> USE WatchAssumption DEF WatchInv, StopAll, projectVars, stateVars, evictVars
<1>1. /\ at' \in [Threads -> AtPlaces]
      /\ \A x \in Threads : at'[x] # "follow" /\ at'[x] \in {at[x], "out", "failed"}
      /\ \A x \in Threads : at[x] # "follow" => at'[x] = at[x]
  BY ReleaseMoves
<1>2. WatchTypeOK'
  BY <1>1 DEF WatchTypeOK, Watches
<1>3. JobServed'
  BY <1>1 DEF JobServed, NoJob, WatchTypeOK, Jobs
<1>4. Led'
  BY <1>1 DEF Led
<1>5. Attached' /\ Current'
  BY <1>1 DEF Attached, Current, Accounted, NoJob
<1> QED
  BY <1>2, <1>3, <1>4, <1>5

-----------------------------------------------------------------------------
(* The inductive invariant of the daemon.                                  *)

Stages == {"serving", "handlers", "recoveries", "watches", "writers", "gone"}

ServerTypeOK ==
  /\ conn \in [Requests -> {"new", "open", "ending", "done"}]
  /\ kind \in [Requests -> DOMAIN First \cup {"none"}]
  /\ active \in Nat /\ writers \in Nat /\ pruned \in BOOLEAN
  /\ idle \in 0..Timeout /\ timer \in Int /\ firing \subseteq {"current", "stale"}
  /\ closed \in {"no", "idle", "asked"} /\ stage \in Stages

Answering == {r \in Requests : conn[r] = "open"}

\* The count of the active requests is theirs, and only they have a thread.
Counted ==
  /\ IsFiniteSet(Answering) /\ active = Cardinality(Answering)
  /\ \A r \in Requests : /\ conn[r] # "open" => at[r] = "out"
                         /\ conn[r] = "open" => kind[r] # "none"

\* What serve has joined is over.
Joined ==
  /\ stage \in {"recoveries", "watches", "writers", "gone"} =>
       \A r \in Requests : conn[r] \in {"new", "done"}
  /\ stage \in {"watches", "writers", "gone"} => at[bg] = "out"
  /\ stage \in {"writers", "gone"} => watch = "off"
  /\ pruned => stage = "gone" /\ writers = 0

\* The timer of a daemon that is open runs from its last activity; while a request
\* is active there is none, nor a callback that would count.
Timed ==
  closed = "no" =>
    /\ stage = "serving"
    /\ active > 0 => timer = Off /\ "current" \notin firing
    /\ timer # Off => timer = Timeout - idle
    /\ "current" \in firing => idle = Timeout /\ timer = Off

ServerInv == ServerTypeOK /\ Counted /\ Joined /\ Timed
Inv == WatchInv /\ ServerInv

LEMMA InitInv == Init => Inv
<1> SUFFICES ASSUME Init
             PROVE  Inv
  OBVIOUS
<1> USE DaemonAssumption DEF Init
<1>1. ServerTypeOK
  <2>1. conn \in [Requests -> {"new", "open", "ending", "done"}]
        /\ kind \in [Requests -> DOMAIN First \cup {"none"}]
    OBVIOUS
  <2>2. idle \in 0..Timeout /\ timer \in Int
    OBVIOUS
  <2> QED
    BY <2>1, <2>2 DEF ServerTypeOK, Stages
<1>2. Counted
  <2>1. Answering = {}
    BY DEF Answering
  <2> QED
    BY <2>1, FS_EmptySet DEF Counted, WatchInit
<1>3. Joined /\ Timed
  BY DEF Joined, Timed, Off
<1> QED
  BY <1>1, <1>2, <1>3, WatchInitInv DEF Inv, ServerInv

-----------------------------------------------------------------------------
(* Its parts.                                                              *)

LEMMA AllOut ==
  ASSUME Inv, stage \in {"watches", "writers", "gone"}, NEW t \in Threads
  PROVE  at[t] = "out"
BY DaemonAssumption DEF Inv, ServerInv, Joined, Counted

\* A step of the manager is of a thread that is there, and starts none.
LEMMA ThreadActs ==
  ASSUME WatchInv, NEW t \in Threads, EnsureReady(t) \/ Reindex(t)
  PROVE  at[t] # "out" /\ \A x \in Threads : at[x] = "out" => at'[x] = "out"
<1> USE DEF WatchInv
<1>1. ASSUME NEW to \in {"told", "failed"}, Release(t, to, to), at[t] # "out"
      PROVE  \A x \in Threads : at[x] = "out" => at'[x] = "out"
  BY <1>1 DEF Release, Followers
<1>2. ASSUME NEW next \in {"look", "job"}, EnsureWatch(t, next) \/ StartFails(t, next)
                                           \/ Register(t, next)
      PROVE  at[t] # "out" /\ \A x \in Threads : at[x] = "out" => at'[x] = "out"
  BY <1>2 DEF EnsureWatch, StartFails, Register, Goes, WatchTypeOK
<1>3. CASE Start(t) \/ AlreadyReady(t) \/ Lead(t) \/ Follow(t) \/ FollowerExpires(t)
  BY <1>3 DEF Start, AlreadyReady, Lead, Follow, FollowerExpires, Goes, WatchTypeOK
<1>4. CASE RunJob(t) \/ JobRefused(t)
  BY <1>4 DEF RunJob, JobRefused, WatchTypeOK
<1>5. CASE NotIndexed(t)
  BY <1>1, <1>5 DEF NotIndexed, MarkReady
<1>6. CASE Settle(t)
  BY <1>1, <1>6 DEF Settle, MarkReady, WatchTypeOK
<1>7. CASE SettleFailed(t)
  BY <1>1, <1>7 DEF SettleFailed, WatchTypeOK
<1>8. CASE Mark(t)
  BY <1>1, <1>8 DEF Mark, MarkReady, WatchTypeOK
<1> QED
  BY <1>2, <1>3, <1>4, <1>5, <1>6, <1>7, <1>8 DEF EnsureReady, Reindex

LEMMA JobEndsActs ==
  ASSUME WatchInv, JobEnds
  PROVE  \A x \in Threads : at[x] = "out" => at'[x] = "out"
<1>1. PICK ok \in BOOLEAN : AfterJob(ok)
  BY DEF JobEnds
<1>2. \A x \in job.for : at[x] # "out"
  BY DEF WatchInv, JobServed
<1> QED
  BY <1>1, <1>2 DEF AfterJob

LEMMA TouchTimed ==
  ASSUME ServerTypeOK, Timed, Touch, UNCHANGED <<active, stage>>
  PROVE  /\ Timed' /\ closed' = closed
         /\ idle' \in 0..Timeout /\ timer' \in Int /\ firing' \subseteq {"current", "stale"}
<1> USE DaemonAssumption DEF ServerTypeOK, Timed
<1>1. CASE UNCHANGED idleVars
  BY <1>1 DEF idleVars
<1>2. CASE closed = "no" /\ idle' = 0 /\ UNCHANGED closed /\ active = 0 /\ Arm(0)
  <2>1. timer' = Timeout - 0 /\ firing' = Cancelled
    BY <1>2 DEF Arm
  <2>2. firing' \subseteq {"current", "stale"} /\ "current" \notin firing'
    BY <2>1 DEF Cancelled
  <2> QED
    BY <1>2, <2>1, <2>2
<1>3. CASE idle' = 0 /\ UNCHANGED <<closed, timer, firing>> /\ active # 0
  BY <1>3 DEF Off
<1> QED
  BY <1>1, <1>2, <1>3 DEF Touch

\* Steps that leave the server and its requests where they are.
LEMMA ServerStill ==
  ASSUME Inv, UNCHANGED serverVars, Touch \/ UNCHANGED idleVars,
         \A x \in Threads : at[x] = "out" => at'[x] = "out",
         stage \in {"writers", "gone"} => watch' = "off"
  PROVE  ServerInv'
<1> USE DEF Inv, ServerInv, serverVars, idleVars
<1>1. /\ Timed' /\ closed' = closed
      /\ idle' \in 0..Timeout /\ timer' \in Int /\ firing' \subseteq {"current", "stale"}
  BY TouchTimed DEF Timed, ServerTypeOK
<1>2. ServerTypeOK'
  BY <1>1 DEF ServerTypeOK
<1>3. Counted'
  BY DaemonAssumption DEF Counted, Answering
<1>4. Joined'
  BY DaemonAssumption DEF Joined
<1> QED
  BY <1>1, <1>2, <1>3, <1>4

LEMMA WatchStill ==
  ASSUME WatchInv, UNCHANGED watchVars
  PROVE  WatchInv'
BY DEF WatchInv, watchVars, projectVars, stateVars, evictVars, WatchTypeOK, JobServed, Led, Attached,
       Current, Accounted

-----------------------------------------------------------------------------
(* The manager at work in the daemon.                                      *)

LEMMA ManageInv ==
  ASSUME Inv, NEW t \in Threads, Manage(t)
  PROVE  Inv'
<1>1. EnsureReady(t) \/ Reindex(t)
  BY DEF Manage
<1>2. at[t] # "out" /\ \A x \in Threads : at[x] = "out" => at'[x] = "out"
  BY <1>1, ThreadActs DEF Inv
<1>3. stage \notin {"writers", "gone"}
  BY <1>2, AllOut
<1>4. ServerInv'
  BY <1>2, <1>3, ServerStill DEF Manage
<1> QED
  BY <1>1, <1>4, ThreadInv DEF Inv

LEMMA WatchEventInv ==
  ASSUME Inv, WatchEvent
  PROVE  Inv'
<1>1. UNCHANGED at /\ (watch = "off" => watch' = "off")
  BY DEF WatchEvent, Edit, Flush, IndexPaths, Seen
<1>2. ServerInv'
  BY <1>1, ServerStill DEF WatchEvent, Inv, ServerInv, Joined
<1> QED
  BY <1>2, EditInv, FlushInv DEF Inv, WatchEvent

LEMMA EvictingInv ==
  ASSUME Inv, Evicting
  PROVE  Inv'
<1>1. UNCHANGED at /\ (watch = "off" => watch' = "off")
  BY DEF Evicting, EvictFinds, Evict, EvictTakes, TakeWatch, EvictStops, FlushEvicted, IndexPaths
<1>2. ServerInv'
  BY <1>1, ServerStill DEF Evicting, Inv, ServerInv, Joined
<1> QED
  BY <1>2, FlushInv, EvictorInv, EvictTakesInv DEF Inv, Evicting, Evict

LEMMA BackgroundInv ==
  ASSUME Inv, Background
  PROVE  Inv'
<1>1. \A x \in Threads : at[x] = "out" => at'[x] = "out"
  BY JobEndsActs DEF Background, Inv
<1>2. watch = "off" => watch' = "off"
  BY DEF Background, JobEnds
<1>3. ServerInv'
  BY <1>1, <1>2, ServerStill DEF Background, Inv, ServerInv, Joined
<1> QED
  BY <1>3, JobEndsInv DEF Inv, Background

-----------------------------------------------------------------------------
(* The timer and the end of serve.                                         *)

LEMMA TimerInv ==
  ASSUME Inv, Tick \/ Fire \/ (\E g \in {"current", "stale"} : OnTimeout(g)) \/ Shutdown
  PROVE  Inv'
<1> USE DaemonAssumption DEF Inv, ServerInv
<1>1. UNCHANGED <<watchVars, serverVars>>
  BY DEF Tick, Fire, OnTimeout, Shutdown
<1>2. UNCHANGED <<at, watch, conn, kind, active, stage, writers, pruned>>
  BY <1>1 DEF watchVars, serverVars
<1>3. ServerTypeOK' /\ Timed'
  <2>1. CASE Tick
    BY <1>2, <2>1 DEF Tick, ServerTypeOK, Timed, Off
  <2>2. CASE Fire
    BY <1>2, <2>2 DEF Fire, ServerTypeOK, Timed, Off
  <2>3. ASSUME NEW g \in {"current", "stale"}, OnTimeout(g)
        PROVE  ServerTypeOK' /\ Timed'
    BY <1>2, <2>3 DEF OnTimeout, ServerTypeOK, Timed, Off
  <2>4. CASE Shutdown
    BY <1>2, <2>4 DEF Shutdown, Cancel, Cancelled, ServerTypeOK, Timed, Off
  <2> QED
    BY <2>1, <2>2, <2>3, <2>4
<1>4. Counted' /\ Joined'
  BY <1>2 DEF Counted, Answering, Joined
<1> QED
  BY <1>1, <1>3, <1>4, WatchStill

LEMMA DrainInv ==
  ASSUME Inv, Drain
  PROVE  Inv'
<1> USE DEF Inv, ServerInv
<1>1. CASE LoopEnds \/ JoinHandlers \/ JoinRecoveries
  <2> USE <1>1 DEF LoopEnds, JoinHandlers, JoinRecoveries, Drained, Enter
  <2>1. ServerTypeOK' /\ Timed'
    BY DEF ServerTypeOK, Stages, Timed, idleVars
  <2>2. Counted'
    BY DEF Counted, Answering, watchVars, projectVars, stateVars, evictVars
  <2>3. Joined'
    BY DEF Joined, watchVars, projectVars, stateVars, evictVars
  <2> QED
    BY <2>1, <2>2, <2>3, WatchStill
<1>2. CASE StopWatches
  <2> USE <1>2 DEF StopWatches, Enter
  <2>1. \A x \in Threads : at'[x] = "out"
    BY AllOut DEF StopAll, Release, Followers
  <2>2. ServerTypeOK' /\ Timed'
    BY DEF ServerTypeOK, Stages, Timed, idleVars
  <2>3. Counted'
    BY <2>1, DaemonAssumption DEF Counted, Answering
  <2>4. Joined'
    BY <2>1, DaemonAssumption DEF Joined, StopAll
  <2> QED
    BY <2>2, <2>3, <2>4, StopAllInv
<1>3. CASE Leave
  <2> USE <1>3 DEF Leave, Enter
  <2>1. ServerTypeOK' /\ Timed'
    BY DEF ServerTypeOK, Stages, Timed, idleVars
  <2>2. Counted'
    BY DEF Counted, Answering, watchVars, projectVars, stateVars, evictVars
  <2>3. Joined'
    BY DEF Joined, watchVars, projectVars, stateVars, evictVars
  <2> QED
    BY <2>1, <2>2, <2>3, WatchStill
<1> QED
  BY <1>1, <1>2, <1>3 DEF Drain

LEMMA WriterEndsInv ==
  ASSUME Inv, WriterEnds
  PROVE  Inv'
<1> USE DEF Inv, ServerInv, WriterEnds
<1>1. ServerTypeOK' /\ Timed'
  BY DEF ServerTypeOK, Timed, idleVars
<1>2. Counted'
  BY DEF Counted, Answering, watchVars, projectVars, stateVars, evictVars
<1>3. Joined'
  BY DEF Joined, watchVars, projectVars, stateVars, evictVars, ServerTypeOK
<1> QED
  BY <1>1, <1>2, <1>3, WatchStill

-----------------------------------------------------------------------------
(* The requests.                                                           *)

LEMMA AcceptInv ==
  ASSUME Inv, NEW r \in Requests, NEW k \in DOMAIN First, Accept(r, k)
  PROVE  Inv'
<1> USE DEF Inv, ServerInv, Accept
<1>1. Answering' = Answering \cup {r} /\ r \notin Answering
  BY DEF Answering, ServerTypeOK
<1>2. ServerTypeOK'
  BY DEF ServerTypeOK, Cancel, Cancelled, Off
<1>3. Counted'
  <2>1. IsFiniteSet(Answering') /\ Cardinality(Answering') = active + 1
    BY <1>1, FS_AddElement DEF Counted
  <2>2. \A x \in Requests : /\ conn'[x] # "open" => at'[x] = "out"
                            /\ conn'[x] = "open" => kind'[x] # "none"
    <3>1. k # "none"
      BY DEF First
    <3> QED
      BY <3>1 DEF Counted, ServerTypeOK, watchVars
  <2> QED
    BY <2>1, <2>2 DEF Counted
<1>4. Joined'
  BY DEF Joined
<1>5. Timed'
  BY DEF Timed, Cancel, Cancelled, Off, ServerTypeOK
<1> QED
  BY <1>2, <1>3, <1>4, <1>5, WatchStill

\* A connection that is not answering ends.
LEMMA ConnectionInv ==
  ASSUME Inv, NEW r \in Requests, Reject(r) \/ FreeSlot(r)
  PROVE  Inv'
<1> USE DEF Inv, ServerInv, Reject, FreeSlot
<1>1. /\ conn' = [conn EXCEPT ![r] = "done"] /\ conn[r] \in {"new", "ending"}
      /\ UNCHANGED <<watchVars, kind, active, stage, writers, pruned, idleVars>>
  OBVIOUS
<1>2. Answering' = Answering
  BY <1>1 DEF Answering, ServerTypeOK
<1>3. ServerTypeOK' /\ Timed'
  BY <1>1 DEF ServerTypeOK, Timed, idleVars
<1>4. Counted'
  BY <1>1, <1>2 DEF Counted, ServerTypeOK, watchVars
<1>5. Joined'
  BY <1>1 DEF Joined, ServerTypeOK, watchVars
<1> QED
  BY <1>1, <1>3, <1>4, <1>5, WatchStill

LEMMA DispatchInv ==
  ASSUME Inv, NEW r \in Requests, Dispatch(r)
  PROVE  Inv'
<1> USE DaemonAssumption DEF Inv, Dispatch
<1>1. First[kind[r]] \in {"ask", "schedule", "told"}
  BY DEF First, ServerInv, ServerTypeOK, Counted
<1>2. WatchInv'
  BY <1>1, GoesPlainly DEF AtPlaces, Plain, Busied, Leading
<1>3. UNCHANGED <<watch, conn, kind, active, stage, writers, pruned>>
  BY DEF serverVars
<1>4. \A x \in Threads : x # r => at'[x] = at[x]
  BY DEF Goes, WatchInv, WatchTypeOK
<1>5. conn[r] = "open" /\ stage \in {"serving", "handlers"}
  BY DEF ServerInv, Joined, ServerTypeOK, Stages
<1>6. /\ Timed' /\ closed' = closed
      /\ idle' \in 0..Timeout /\ timer' \in Int /\ firing' \subseteq {"current", "stale"}
  BY <1>3, TouchTimed DEF ServerInv, Timed, ServerTypeOK, idleVars
<1>7. ServerTypeOK'
  BY <1>3, <1>6 DEF ServerInv, ServerTypeOK
<1>8. Counted'
  BY <1>3, <1>4, <1>5 DEF ServerInv, Counted, Answering
<1>9. Joined'
  BY <1>3, <1>5 DEF ServerInv, Joined
<1> QED
  BY <1>2, <1>6, <1>7, <1>8, <1>9 DEF ServerInv

LEMMA ScheduleInv ==
  ASSUME Inv, NEW r \in Requests, Schedule(r)
  PROVE  Inv'
<1> USE DaemonAssumption DEF Inv, Schedule
<1>1. /\ at[r] = "schedule" /\ at'[r] = "told" /\ at'[bg] \in {at[bg], "ask"}
      /\ at'[bg] # at[bg] => at[bg] = "out"
      /\ \A x \in Threads : x # r /\ x # bg => at'[x] = at[x]
      /\ at' \in [Threads -> AtPlaces]
  BY DEF WatchInv, WatchTypeOK, AtPlaces, Plain
<1>2. WatchInv'
  <2>1. \A t \in Threads : at'[t] # at[t] =>
          /\ at[t] \notin Leading \cup {"run"}
          /\ at'[t] \in Plain \ {"follow", "register"}
    BY <1>1 DEF Leading, Plain
  <2> QED
    BY <1>1, <2>1, PlainMoves
<1>3. conn[r] = "open" /\ stage \in {"serving", "handlers"}
  BY <1>1 DEF ServerInv, Joined, Counted, ServerTypeOK, Stages
<1>4. ServerTypeOK' /\ Timed'
  BY DEF ServerInv, ServerTypeOK, Timed, idleVars
<1>5. Counted'
  BY <1>1, <1>3 DEF ServerInv, Counted, Answering
<1>6. Joined'
  BY <1>3 DEF ServerInv, Joined
<1> QED
  BY <1>2, <1>4, <1>5, <1>6 DEF ServerInv

\* A small project that has no index is indexed by the answer, as its files are.
LEMMA AnswerInv ==
  ASSUME Inv, NEW r \in Requests, Answer(r)
  PROVE  Inv'
<1> USE DaemonAssumption DEF Inv, Answer
<1>1. /\ at[r] = "told" /\ at' = [at EXCEPT ![r] = "answered"]
      /\ at' \in [Threads -> AtPlaces] /\ at'[r] = "answered"
      /\ \A x \in Threads : x # r => at'[x] = at[x]
  BY DEF Goes, WatchInv, WatchTypeOK, AtPlaces, Plain
<1>2. WatchInv'
  <2> USE DEF WatchInv, projectVars, stateVars, evictVars
  <2>1. WatchTypeOK'
    BY <1>1 DEF WatchTypeOK
  <2>2. JobServed'
    BY <1>1 DEF JobServed, NoJob, WatchTypeOK, Jobs
  <2>3. Led'
    BY <1>1 DEF Led, WatchTypeOK, Leading
  <2>4. (missed => missed') /\ UNCHANGED <<disk, watch, state, mine, job, stopped>>
    <3>1. UNCHANGED <<disk, watch, state, mine, job, stopped>>
      OBVIOUS
    <3>2. missed' = missed \/ missed' = TRUE
      OBVIOUS
    <3> QED
      BY <3>1, <3>2
  <2>5. \A t \in Threads : at'[t] \in Busied \cup {"register"} => at'[t] = at[t]
    BY <1>1 DEF Busied
  <2>6. Attached'
    BY <2>4, <2>5 DEF Attached
  <2>7. Current'
    <3>1. CASE UNCHANGED <<index, indexed, missed>>
      BY <1>1, <3>1 DEF Current, Accounted
    <3>2. CASE indexed' = disk
      <4>1. Accounted' /\ indexed' <= disk' /\ job'.seen <= disk'
        BY <2>4, <3>2 DEF Accounted, Current, WatchTypeOK
      <4> QED
        BY <4>1 DEF Current
    <3> QED
      BY <3>1, <3>2
  <2> QED
    BY <2>1, <2>2, <2>3, <2>6, <2>7
<1>3. conn[r] = "open" /\ stage \in {"serving", "handlers"}
  BY <1>1 DEF ServerInv, Joined, Counted, ServerTypeOK, Stages
<1>4. ServerTypeOK' /\ Timed'
  BY DEF ServerInv, ServerTypeOK, Timed, idleVars
<1>5. Counted'
  BY <1>1, <1>3 DEF ServerInv, Counted, Answering
<1>6. Joined'
  BY <1>3 DEF ServerInv, Joined
<1> QED
  BY <1>2, <1>4, <1>5, <1>6 DEF ServerInv

\* The last request to end arms the timer for what is left of the timeout.
LEMMA EndRequestInv ==
  ASSUME Inv, NEW r \in Requests, EndRequest(r)
  PROVE  Inv'
<1> USE DaemonAssumption DEF Inv, EndRequest
<1>1. /\ at[r] \in {"answered", "failed"} /\ at' = [at EXCEPT ![r] = "out"]
      /\ at' \in [Threads -> AtPlaces] /\ at'[r] = "out"
      /\ \A x \in Threads : x # r => at'[x] = at[x]
  BY DEF WatchInv, WatchTypeOK, AtPlaces, Plain
<1>2. WatchInv'
  <2>1. \A t \in Threads : at'[t] # at[t] =>
          /\ at[t] \notin Leading \cup {"run"}
          /\ at'[t] \in Plain \ {"follow", "register"}
    BY <1>1 DEF Leading, Plain
  <2> QED
    BY <1>1, <2>1, PlainMoves
<1>3. conn[r] = "open" /\ stage \in {"serving", "handlers"}
  BY DEF ServerInv, Joined, ServerTypeOK, Stages
<1>4. /\ Answering' = Answering \ {r} /\ r \in Answering
      /\ IsFiniteSet(Answering') /\ active' = Cardinality(Answering')
      /\ active >= 1 /\ active' \in Nat
  <2>1. Answering' = Answering \ {r} /\ r \in Answering
    BY <1>3 DEF Answering, ServerInv, ServerTypeOK
  <2>2. IsFiniteSet(Answering') /\ Cardinality(Answering') = active - 1
    BY <2>1, FS_RemoveElement DEF ServerInv, Counted
  <2>3. Cardinality(Answering') \in Nat
    BY <2>2, FS_CardinalityType
  <2> QED
    BY <2>1, <2>2, <2>3 DEF ServerInv, ServerTypeOK
<1>5. ServerTypeOK' /\ Timed'
  <2>1. /\ conn' \in [Requests -> {"new", "open", "ending", "done"}]
        /\ kind' \in [Requests -> DOMAIN First \cup {"none"}]
    BY DEF ServerInv, ServerTypeOK
  <2>2. timer' \in Int /\ firing' \subseteq {"current", "stale"}
    <3>1. timer' \in {timer, -1, Timeout - idle} /\ firing' \in {firing, Cancelled}
      BY DEF Arm, Cancel, Off
    <3>2. -1 \in Int /\ Timeout - idle \in Int /\ Cancelled \subseteq {"current", "stale"}
      BY DEF Cancelled, ServerInv, ServerTypeOK
    <3> QED
      BY <3>1, <3>2 DEF ServerInv, ServerTypeOK
  <2>3. ServerTypeOK'
    BY <1>4, <2>1, <2>2 DEF ServerInv, ServerTypeOK
  <2>4. CASE closed = "no" /\ active = 1
    <3>1. timer' = Timeout - idle /\ firing' = Cancelled
      BY <2>4 DEF Arm
    <3>2. "current" \notin firing'
      BY <3>1 DEF Cancelled
    <3> QED
      BY <2>3, <2>4, <3>1, <3>2 DEF ServerInv, ServerTypeOK, Timed
  <2>5. CASE closed = "no" /\ active # 1
    <3>1. active > 0 /\ UNCHANGED <<timer, firing, idle, closed, stage>>
      BY <1>4, <2>5 DEF ServerInv, ServerTypeOK
    <3> QED
      BY <2>3, <2>5, <3>1 DEF ServerInv, Timed, Off
  <2> QED
    BY <2>3, <2>4, <2>5 DEF Timed
<1>6. Counted'
  BY <1>1, <1>4 DEF ServerInv, Counted, ServerTypeOK
<1>7. Joined'
  BY <1>3 DEF ServerInv, Joined
<1> QED
  BY <1>2, <1>5, <1>6, <1>7 DEF ServerInv

LEMMA RecoveryEndsInv ==
  ASSUME Inv, RecoveryEnds
  PROVE  Inv'
<1> USE DaemonAssumption DEF Inv, RecoveryEnds
<1>1. /\ at[bg] \in {"told", "failed"} /\ at'[bg] = "out"
      /\ at' \in [Threads -> AtPlaces]
      /\ \A x \in Threads : x # bg => at'[x] = at[x]
  BY DEF WatchInv, WatchTypeOK, AtPlaces, Plain
<1>2. WatchInv'
  <2>1. \A t \in Threads : at'[t] # at[t] =>
          /\ at[t] \notin Leading \cup {"run"}
          /\ at'[t] \in Plain \ {"follow", "register"}
    BY <1>1 DEF Leading, Plain
  <2> QED
    BY <1>1, <2>1, PlainMoves
<1>3. ServerInv'
  <2>1. \A x \in Threads : at[x] = "out" => at'[x] = "out"
    BY <1>1
  <2>2. stage \in {"writers", "gone"} => watch' = "off"
    BY DEF ServerInv, Joined
  <2> QED
    BY <2>1, <2>2, ServerStill
<1> QED
  BY <1>2, <1>3

-----------------------------------------------------------------------------
(* Any step, and what follows.                                             *)

LEMMA StepInv == Inv /\ [Next]_vars => Inv'
<1> SUFFICES ASSUME Inv, [Next]_vars
             PROVE  Inv'
  OBVIOUS
<1>1. ASSUME NEW r \in Requests, NEW k \in DOMAIN First, Accept(r, k)
      PROVE  Inv'
  BY <1>1, AcceptInv
<1>2. ASSUME NEW r \in Requests, Reject(r) \/ Handle(r)
      PROVE  Inv'
  BY <1>2, ConnectionInv, DispatchInv, ScheduleInv, AnswerInv, EndRequestInv DEF Handle
<1>3. ASSUME NEW t \in Threads, Manage(t)
      PROVE  Inv'
  BY <1>3, ManageInv
<1>4. CASE RecoveryEnds \/ WatchEvent \/ Evicting \/ Background
  BY <1>4, RecoveryEndsInv, WatchEventInv, EvictingInv, BackgroundInv
<1>5. CASE Tick \/ Fire \/ OnTimeouts \/ Shutdown
  BY <1>5, TimerInv DEF OnTimeouts
<1>6. CASE Drain \/ WriterEnds
  BY <1>6, DrainInv, WriterEndsInv
<1>7. CASE UNCHANGED vars
  <2>1. UNCHANGED <<watchVars, serverVars, idleVars>>
    BY <1>7 DEF vars
  <2>2. ServerInv'
    BY <2>1, ServerStill DEF watchVars, Inv, ServerInv, Joined
  <2> QED
    BY <2>1, <2>2, WatchStill DEF Inv
<1> QED
  BY <1>1, <1>2, <1>3, <1>4, <1>5, <1>6, <1>7 DEF Next

\* The inductive invariant holds in every behaviour of the daemon.
THEOREM DaemonInvariant == Spec => []Inv
<1>1. Init => Inv
  BY InitInv
<1>2. Inv /\ [Next]_vars => Inv'
  BY StepInv
<1> QED
  BY <1>1, <1>2, PTL DEF Spec

\* Whatever is edited, recovered, reindexed, overtaken and evicted: a project the
\* manager calls ready has its saved edits in the index or in its watch.
THEOREM ReadyProjectsAreCurrent == Spec => []ReadyIsCurrent
<1>1. Inv => ReadyIsCurrent
  BY DEF Inv, WatchInv, Current, Accounted, ReadyIsCurrent, Pending
<1> QED
  BY <1>1, DaemonInvariant, PTL

\* Nobody follows an attempt that has no leader at work.
THEOREM FollowersAreReleased == Spec => []FollowersReleased
<1>1. Inv => FollowersReleased
  BY DEF Inv, WatchInv, Led, Leading, FollowersReleased, Followers
<1> QED
  BY <1>1, DaemonInvariant, PTL

\* Once the watches are stopped nothing of the daemon can write, and the cache is
\* pruned under no snapshot writer.
THEOREM ServeDrainsInOrder == Spec => []DrainInOrder
<1>1. Inv => DrainInOrder
  <2> SUFFICES ASSUME Inv, stage \in {"writers", "gone"}
               PROVE  /\ \A r \in Requests : conn[r] \in {"new", "done"}
                      /\ at[bg] = "out" /\ watch = "off" /\ job = NoJob
                      /\ pruned => writers = 0
    BY DEF DrainInOrder
  <2>1. \A t \in Threads : at[t] = "out"
    BY AllOut
  <2>2. job = NoJob
    BY <2>1 DEF Inv, WatchInv, JobServed, WatchTypeOK, Jobs
  <2> QED
    BY <2>2 DEF Inv, ServerInv, Joined
<1> QED
  BY <1>1, DaemonInvariant, PTL

\* The idle timer ends no daemon before its timeout, while it answers, or while it
\* has something to index.
THEOREM IdleDaemonsEnd == Spec => IdleLongEnough
<1>1. ASSUME Inv, [Next]_vars, closed' = "idle", closed = "no"
      PROVE  idle = Timeout /\ (\A r \in Requests : conn[r] # "open") /\ ~Busy
  <2> USE <1>1 DEF Inv, ServerInv
  <2>1. ~Touch
    BY DEF Touch, idleVars, Arm
  <2>2. PICK g \in {"current", "stale"} : OnTimeout(g)
    BY <2>1 DEF Next, vars, Accept, Reject, Handle, Dispatch, Schedule, Answer, EndRequest,
                FreeSlot, Manage, RecoveryEnds, WatchEvent, Evicting, Background, Tick, Fire,
                OnTimeouts, Shutdown, Drain, LoopEnds, JoinHandlers, JoinRecoveries, Drained,
                StopWatches, Leave, WriterEnds, idleVars
  <2>3. "current" \in firing /\ ~(active > 0) /\ ~Busy
    BY <2>2 DEF OnTimeout
  <2>4. Answering = {}
    BY <2>3, FS_EmptySet DEF Counted, ServerTypeOK
  <2> QED
    BY <2>3, <2>4 DEF Timed, Answering
<1>2. Inv /\ [Next]_vars =>
        [closed' = "idle" /\ closed = "no" =>
           idle = Timeout /\ (\A r \in Requests : conn[r] # "open") /\ ~Busy]_vars
  BY <1>1
<1> QED
  BY <1>2, DaemonInvariant, PTL DEF Spec, IdleLongEnough
=============================================================================
