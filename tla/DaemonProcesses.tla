--------------------------- MODULE DaemonProcesses ---------------------------
(***************************************************************************)
(* The processes around one port (serve, ensure_running, stop_running and  *)
(* _instance_lock_held of daemon.py, client.py, supervisor.py).  A daemon  *)
(* owns the instance lock from before it listens until it has drained.     *)
(* Clients find out whether one is there, start one, stop it, and send it  *)
(* queries.  Locks are the operating system's: a process that dies leaves  *)
(* none, but leaves the draining marker.                                   *)
(*                                                                         *)
(* Every daemon and client is of one version and one home directory: the   *)
(* authentication and upgrade answers are left out.  Waits end at any time.*)
(***************************************************************************)
EXTENDS Naturals, FiniteSets

CONSTANTS Daemons,  \* the processes that are spawned one after the other
          Clients,
          None

ASSUME ProcessAssumption == None \notin Daemons \cup Clients /\ Daemons \cap Clients = {}

VARIABLES
  daemon,    \* where each daemon is
  jobs,      \* of each daemon: the clients whose query it is running
  instance,  \* who holds the lifetime lock
  probe,     \* who holds the lock that guards looks at it
  startup,   \* who holds the startup lock
  marker,    \* the draining marker
  client     \* what each client is doing

vars == <<daemon, jobs, instance, probe, startup, marker, client>>

\* What a client is about: a query (sent = the daemon it went to), ensure alone,
\* stop, or recycle, the supervisor's stop and ensure.
Calm == [at |-> "idle", task |-> "none", asked |-> None, timed |-> FALSE,
         tries |-> 0, result |-> "none"]

Init ==
  /\ daemon = [d \in Daemons |-> "none"]
  /\ jobs = [d \in Daemons |-> {}]
  /\ instance = None /\ probe = None /\ startup = None
  /\ marker = FALSE
  /\ client = [c \in Clients |-> Calm]

Is(d, place) == daemon[d] = place
Set(d, place) == daemon' = [daemon EXCEPT ![d] = place]
Listening == {d \in Daemons : daemon[d] \in {"serving", "closing"}}

-----------------------------------------------------------------------------
(* serve.                                                                  *)

Guard(d) ==
  /\ Is(d, "spawned") /\ probe = None
  /\ probe' = d /\ Set(d, "guarding")
  /\ UNCHANGED <<jobs, instance, startup, marker, client>>

\* ownership-unknown: the guard stayed busy.
GuardBusy(d) ==
  /\ Is(d, "spawned") /\ probe # None
  /\ Set(d, "gone")
  /\ UNCHANGED <<jobs, instance, probe, startup, marker, client>>

\* The lifetime lock, or already-running; the guard is given back.
Own(d) ==
  /\ Is(d, "guarding")
  /\ IF instance = None THEN instance' = d /\ Set(d, "owning")
                        ELSE Set(d, "gone") /\ UNCHANGED instance
  /\ probe' = IF probe = d THEN None ELSE probe
  /\ UNCHANGED <<jobs, startup, marker, client>>

\* A marker found here is of a daemon that has died.
Listen(d) ==
  /\ Is(d, "owning")
  /\ marker' = FALSE /\ Set(d, "serving")
  /\ UNCHANGED <<jobs, instance, probe, startup, client>>

\* The port is taken by a stranger: serve raises, the lock is released.
BindFails(d) ==
  /\ Is(d, "owning")
  /\ marker' = FALSE /\ instance' = None /\ Set(d, "gone")
  /\ UNCHANGED <<jobs, probe, startup, client>>

\* initiate_shutdown or the idle timer: the loop ends, the socket is still open.
Shutdown(d) ==
  /\ Is(d, "serving") /\ Set(d, "closing")
  /\ UNCHANGED <<jobs, instance, probe, startup, marker, client>>

Close(d) ==
  /\ Is(d, "closing")
  /\ marker' = TRUE /\ Set(d, "draining")
  /\ UNCHANGED <<jobs, instance, probe, startup, client>>

\* Mutant: the lock goes with the listener.
DrainUnlocked(d) ==
  /\ Is(d, "draining")
  /\ instance' = IF instance = d THEN None ELSE instance
  /\ IF jobs[d] = {} THEN Set(d, "pruning") ELSE UNCHANGED daemon
  /\ UNCHANGED <<jobs, probe, startup, marker, client>>

\* Handlers, recoveries, watches and snapshot writers have ended; the caches are
\* pruned; the marker goes, and then the lock.
Drain(d) ==
  /\ Is(d, "draining") /\ jobs[d] = {}
  /\ Set(d, "pruning")
  /\ UNCHANGED <<jobs, instance, probe, startup, marker, client>>

Unmark(d) ==
  /\ Is(d, "pruning")
  /\ marker' = FALSE /\ Set(d, "leaving")
  /\ UNCHANGED <<jobs, instance, probe, startup, client>>

Release(d) ==
  /\ Is(d, "leaving")
  /\ instance' = IF instance = d THEN None ELSE instance
  /\ Set(d, "gone")
  /\ UNCHANGED <<jobs, probe, startup, marker, client>>

\* The query of c has run; the answer reaches it if it still waits.
FinishJob(d, c) ==
  /\ c \in jobs[d]
  /\ jobs' = [jobs EXCEPT ![d] = @ \ {c}]
  /\ client' = IF client[c].at = "wait" /\ client[c].asked = d
                  THEN [client EXCEPT ![c] = Calm] ELSE client
  /\ UNCHANGED <<daemon, instance, probe, startup, marker>>

Crash(d) ==
  /\ daemon[d] \notin {"none", "gone"}
  /\ Set(d, "gone")
  /\ jobs' = [jobs EXCEPT ![d] = {}]
  /\ instance' = IF instance = d THEN None ELSE instance
  /\ probe' = IF probe = d THEN None ELSE probe
  /\ UNCHANGED <<startup, marker, client>>

-----------------------------------------------------------------------------
(* What a client looks at.                                                 *)

At(c, place) == client[c].at = place
Go(c, place) == client' = [client EXCEPT ![c].at = place]
Move(c, place, result) ==
  client' = [client EXCEPT ![c].at = place, ![c].result = result]

\* http_ping, with its place after a miss.  A daemon that is busy may miss it.
AfterMiss == [first |-> "own1", second |-> "own2", third |-> "own3", fourth |-> "own4",
              still |-> "first", ready |-> "ready", stop |-> "listening", confirm |-> "port"]

Ping(c) ==
  /\ client[c].at \in DOMAIN AfterMiss
  /\ \/ \E d \in Daemons :
          /\ Is(d, "serving")
          /\ CASE At(c, "stop") ->
                    client' = [client EXCEPT ![c].at = "request", ![c].asked = d]
               [] At(c, "confirm") -> UNCHANGED client
               [] At(c, "ready") -> Move(c, "return", "spawned")
               [] OTHER -> Move(c, "return", "already-running")
     \/ Go(c, AfterMiss[client[c].at])
  /\ UNCHANGED <<daemon, jobs, instance, probe, startup, marker>>

\* _instance_lock_held takes the guard, tries the lock and puts both back.
AfterFree == [own1 |-> "lock", own2 |-> "listen", own3 |-> "conflict",
              own4 |-> "conflict", owner |-> "stopped"]

\* Mutant: looks are not guarded.
LookUnguarded(c) ==
  /\ client[c].at \in DOMAIN AfterFree
  /\ Move(c, "look", client[c].at)
  /\ UNCHANGED <<daemon, jobs, instance, probe, startup, marker>>

LookGuard(c) ==
  /\ client[c].at \in DOMAIN AfterFree /\ probe = None
  /\ probe' = c
  /\ Move(c, "look", client[c].at)
  /\ UNCHANGED <<daemon, jobs, instance, startup, marker>>

LookUnknown(c) ==
  /\ client[c].at \in DOMAIN AfterFree /\ probe # None
  /\ Move(c, IF At(c, "owner") THEN "confirm" ELSE "return", "ownership-unknown")
  /\ UNCHANGED <<daemon, jobs, instance, probe, startup, marker>>

Look(c) ==
  /\ At(c, "look")
  /\ IF instance = None
       THEN instance' = c /\ Go(c, "unlook") /\ UNCHANGED probe
       ELSE /\ Move(c, IF client[c].result = "owner" THEN "confirm" ELSE "return",
                    IF marker THEN "daemon-draining" ELSE "owner-alive-unverified")
            /\ probe' = IF probe = c THEN None ELSE probe
            /\ UNCHANGED instance
  /\ UNCHANGED <<daemon, jobs, startup, marker>>

Unlook(c) ==
  /\ At(c, "unlook")
  /\ instance' = None /\ probe' = IF probe = c THEN None ELSE probe
  /\ Move(c, AfterFree[client[c].result], "none")
  /\ UNCHANGED <<daemon, jobs, startup, marker>>

-----------------------------------------------------------------------------
(* ensure_running.                                                         *)

Lock(c) ==
  /\ At(c, "lock") /\ startup = None
  /\ startup' = c /\ Go(c, "second")
  /\ UNCHANGED <<daemon, jobs, instance, probe, marker>>

LockTimeout(c) ==
  /\ At(c, "lock") /\ startup # None /\ Go(c, "fourth")
  /\ UNCHANGED <<daemon, jobs, instance, probe, startup, marker>>

\* A listener that has not answered gets one slow look.
CheckPort(c) ==
  /\ At(c, "listen")
  /\ Go(c, IF Listening = {} THEN "spawn" ELSE "third")
  /\ UNCHANGED <<daemon, jobs, instance, probe, startup, marker>>

Spawn(c) ==
  /\ At(c, "spawn")
  /\ \E d \in Daemons : Is(d, "none") /\ Set(d, "spawned")
  /\ Go(c, "ready")
  /\ UNCHANGED <<jobs, instance, probe, startup, marker>>

\* spawn-timeout, port-conflict, startup-lock-timeout.
Fail(c) ==
  /\ client[c].at \in {"ready", "conflict"}
  /\ Move(c, "return", "failed")
  /\ UNCHANGED <<daemon, jobs, instance, probe, startup, marker>>

\* Mutant: a daemon that was there all the time gets the query again.
ReturnResends(c) ==
  /\ At(c, "return")
  /\ startup' = IF startup = c THEN None ELSE startup
  /\ LET w == client[c]
         again == w.task = "query" /\ w.tries = 1 /\ w.result \in {"spawned", "already-running"}
     IN  client' = [client EXCEPT ![c] = IF again THEN [w EXCEPT !.at = "send", !.timed = FALSE]
                                                  ELSE Calm]
  /\ UNCHANGED <<daemon, jobs, instance, probe, marker>>

\* The startup lock is released with the answer.  A query is sent once more if the
\* answer is a daemon, unless it had timed out and the daemon had been there all the
\* time (_open_json); the supervisor ends.
Return(c) ==
  /\ At(c, "return")
  /\ startup' = IF startup = c THEN None ELSE startup
  /\ LET w == client[c]
         again == /\ w.task = "query" /\ w.tries = 1
                  /\ \/ w.result = "spawned"
                     \/ w.result = "already-running" /\ ~w.timed
     IN  client' = [client EXCEPT ![c] = IF again THEN [w EXCEPT !.at = "send", !.timed = FALSE]
                                                  ELSE Calm]
  /\ UNCHANGED <<daemon, jobs, instance, probe, marker>>

-----------------------------------------------------------------------------
(* Queries.                                                                *)

\* (Bound: a client's next query comes after its last one has left the daemons.)
Begin(c, task, at) ==
  /\ At(c, "idle")
  /\ task = "query" => \A d \in Daemons : c \notin jobs[d]
  /\ client' = [client EXCEPT ![c] = [Calm EXCEPT !.task = task, !.at = at]]
  /\ UNCHANGED <<daemon, jobs, instance, probe, startup, marker>>

\* Somebody listens: a handler takes the query, or it waits for a loop that has ended.
Send(c) ==
  /\ At(c, "send")
  /\ \E d \in Listening :
       /\ client' = [client EXCEPT ![c].at = "wait", ![c].asked = d, ![c].tries = @ + 1]
       /\ jobs' = IF Is(d, "serving") THEN [jobs EXCEPT ![d] = @ \cup {c}] ELSE jobs
  /\ UNCHANGED <<daemon, instance, probe, startup, marker>>

\* The connection is refused, or broken by a daemon that closed before a handler
\* took it or that died.  The first failure is healed, the second is an error.
Broken(c) ==
  /\ \/ At(c, "send") /\ Listening = {}
     \/ At(c, "wait") /\ client[c].asked \notin Listening /\ c \notin jobs[client[c].asked]
  /\ LET attempt == client[c].tries + (IF At(c, "send") THEN 1 ELSE 0)
     IN  client' = [client EXCEPT ![c] = IF attempt = 2 THEN Calm
                                         ELSE [@ EXCEPT !.at = "first", !.tries = 1]]
  /\ UNCHANGED <<daemon, jobs, instance, probe, startup, marker>>

\* The query has timed out: a daemon that still answers is left alone ("still").
TimeOut(c) ==
  /\ At(c, "wait")
  /\ client' = [client EXCEPT ![c] = IF client[c].tries = 2 THEN Calm
                                     ELSE [@ EXCEPT !.at = "still", !.timed = TRUE]]
  /\ UNCHANGED <<daemon, jobs, instance, probe, startup, marker>>

-----------------------------------------------------------------------------
(* stop_running.                                                           *)

\* Nobody answered: an unverified listener, or nothing to stop.
NothingToStop(c) ==
  /\ At(c, "listening")
  /\ Move(c, IF client[c].task = "recycle" THEN "first" ELSE "told",
          IF Listening = {} THEN "not-running" ELSE "unverified-listener")
  /\ UNCHANGED <<daemon, jobs, instance, probe, startup, marker>>

\* POST /_shutdown, answered before the daemon shuts down.
Request(c) ==
  /\ At(c, "request")
  /\ IF Is(client[c].asked, "serving")
       THEN Set(client[c].asked, "closing") /\ Go(c, "confirm")
       ELSE /\ Move(c, "told", "failed")
            /\ UNCHANGED daemon
  /\ UNCHANGED <<jobs, instance, probe, startup, marker>>

\* Mutant: a closed port is proof enough.
PortOnly(c) ==
  /\ At(c, "port")
  /\ Go(c, IF Listening = {} THEN "stopped" ELSE "confirm")
  /\ UNCHANGED <<daemon, jobs, instance, probe, startup, marker>>

Port(c) ==
  /\ At(c, "port")
  /\ Go(c, IF Listening = {} THEN "owner" ELSE "confirm")
  /\ UNCHANGED <<daemon, jobs, instance, probe, startup, marker>>

\* All three looks in one round found nothing, or the budget is spent: draining.
Told(c) ==
  /\ client[c].at \in {"stopped", "confirm"}
  /\ Move(c, IF client[c].task = "recycle" THEN "first" ELSE "told",
          IF At(c, "stopped") THEN "stopped" ELSE "draining")
  /\ UNCHANGED <<daemon, jobs, instance, probe, startup, marker>>

Leave(c) ==
  /\ At(c, "told")
  /\ client' = [client EXCEPT ![c] = Calm]
  /\ UNCHANGED <<daemon, jobs, instance, probe, startup, marker>>

-----------------------------------------------------------------------------

DaemonStep(d) ==
  \/ Guard(d) \/ GuardBusy(d) \/ Own(d) \/ Listen(d) \/ BindFails(d)
  \/ Shutdown(d) \/ Close(d) \/ Drain(d) \/ Unmark(d) \/ Release(d) \/ Crash(d)
  \/ \E c \in Clients : FinishJob(d, c)

ClientStep(c) ==
  \/ Begin(c, "ensure", "first") \/ Begin(c, "stop", "stop") \/ Begin(c, "recycle", "stop")
  \/ Begin(c, "query", "send")
  \/ Ping(c) \/ LookGuard(c) \/ LookUnknown(c) \/ Look(c) \/ Unlook(c)
  \/ Lock(c) \/ LockTimeout(c) \/ CheckPort(c) \/ Spawn(c) \/ Fail(c) \/ Return(c)
  \/ Send(c) \/ Broken(c) \/ TimeOut(c)
  \/ NothingToStop(c) \/ Request(c) \/ Port(c) \/ Told(c) \/ Leave(c)

Next ==
  \/ \E d \in Daemons : DaemonStep(d)
  \/ \E c \in Clients : ClientStep(c)

Spec == Init /\ [][Next]_vars

-----------------------------------------------------------------------------
(* Properties.                                                             *)

\* Whoever finds the lifetime lock taken has found a daemon: no look is mistaken
\* for an owner, neither by another look nor by a daemon that starts.
LookFindsDaemon ==
  (\E c \in Clients : At(c, "look")) \/ (\E d \in Daemons : Is(d, "guarding"))
    => instance \in Daemons \cup {None}

\* One daemon at a time works on the caches of this machine, from its first query
\* to the end of its pruning.
Working(d) == jobs[d] # {} \/ daemon[d] \in {"serving", "closing", "draining", "pruning"}
OneWorks == \A d, e \in Daemons : Working(d) /\ Working(e) => d = e

\* No query runs twice: a client that has given up on an answer sends its query
\* again only when the daemon that was to answer has ended.
NoDuplicateQuery ==
  \A c \in Clients :
    /\ Cardinality({d \in Daemons : c \in jobs[d]}) <= 1
    /\ At(c, "send") => \A d \in Daemons : c \notin jobs[d]

\* "stopped" is said when the process that was asked is gone, not when its port is.
StoppedMeansGone ==
  \A c \in Clients : At(c, "told") /\ client[c].result = "stopped"
    => ~Working(client[c].asked)
=============================================================================
