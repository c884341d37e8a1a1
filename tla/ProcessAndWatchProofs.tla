---------------------- MODULE ProcessAndWatchProofs ----------------------
(***************************************************************************)
(* Theorems about the processes of a project's daemon (DaemonProcesses),   *)
(* for any number of daemons and clients, and about the watcher inside it  *)
(* (ProjectWatch), for any number of timers, files, changes and failures.  *)
(***************************************************************************)
EXTENDS DaemonProcesses, ProjectWatch, Integers, SequenceTheorems, FiniteSetTheorems, TLAPS

Places == {"idle", "send", "wait", "still", "first", "own1", "lock", "second", "own2",
           "listen", "third", "own3", "fourth", "own4", "conflict", "spawn", "ready",
           "return", "stop", "listening", "request", "confirm", "port", "owner",
           "stopped", "told", "look", "unlook"}
Looks == {"own1", "own2", "own3", "own4", "owner"}
Results == Looks \cup {"none", "spawned", "already-running", "ownership-unknown",
                      "daemon-draining", "owner-alive-unverified", "failed",
                      "not-running", "unverified-listener", "stopped", "draining"}

ClientRecord == [at : Places, task : {"none", "query", "ensure", "stop", "recycle"},
                 asked : Daemons \cup {None}, timed : BOOLEAN, tries : Nat,
                 result : Results]

DaemonTypes ==
  /\ daemon \in [Daemons -> {"none", "spawned", "guarding", "owning", "serving", "closing",
                             "draining", "pruning", "leaving", "gone"}]
  /\ jobs \in [Daemons -> SUBSET Clients]

ClientTypes ==
  /\ client \in [Clients -> ClientRecord]
  /\ \A c \in Clients :
       client[c].at \in {"look", "unlook"} => client[c].result \in Looks

LEMMA Names ==
  /\ "idle" \in Places /\ "send" \in Places /\ "wait" \in Places
  /\ "still" \in Places /\ "first" \in Places /\ "own1" \in Places
  /\ "lock" \in Places /\ "second" \in Places /\ "own2" \in Places
  /\ "listen" \in Places /\ "third" \in Places /\ "own3" \in Places
  /\ "fourth" \in Places /\ "own4" \in Places /\ "conflict" \in Places
  /\ "spawn" \in Places /\ "ready" \in Places /\ "return" \in Places
  /\ "stop" \in Places /\ "listening" \in Places /\ "request" \in Places
  /\ "confirm" \in Places /\ "port" \in Places /\ "owner" \in Places
  /\ "stopped" \in Places /\ "told" \in Places /\ "look" \in Places
  /\ "unlook" \in Places
  /\ "none" \in Results /\ "spawned" \in Results /\ "already-running" \in Results
  /\ "ownership-unknown" \in Results /\ "daemon-draining" \in Results /\ "owner-alive-unverified" \in Results
  /\ "failed" \in Results /\ "not-running" \in Results /\ "unverified-listener" \in Results
  /\ "stopped" \in Results /\ "draining" \in Results
  /\ Looks \subseteq Places \cap Results
BY DEF Places, Results, Looks

LEMMA LooksAre == DOMAIN AfterFree = Looks
BY DEF AfterFree, Looks

LEMMA Missed ==
  \A p \in DOMAIN AfterMiss : AfterMiss[p] \in Places \ {"look", "unlook"}
BY DEF AfterMiss, Places

LEMMA Freed == \A p \in Looks : AfterFree[p] \in Places \ {"look", "unlook"}
BY DEF AfterFree, Places, Looks

USE DEF Is, Set, At, Listening

\* What the two ways to move a client on do, whatever the names are.
LEMMA Moved ==
  ASSUME ClientTypes, NEW c \in Clients, NEW p \in Places, NEW r \in Results,
         Move(c, p, r), p \in {"look", "unlook"} => r \in Looks
  PROVE  /\ ClientTypes'
         /\ client'[c].at = p /\ client'[c].result = r
         /\ client'[c].task = client[c].task /\ client'[c].asked = client[c].asked
         /\ client'[c].timed = client[c].timed /\ client'[c].tries = client[c].tries
         /\ \A e \in Clients \ {c} : client'[e] = client[e]
<1>1. client' \in [Clients -> ClientRecord]
  BY DEF ClientTypes, ClientRecord, Move
<1>2. client'[c].at = p /\ client'[c].result = r
  BY DEF ClientTypes, ClientRecord, Move
<1>3. /\ client'[c].task = client[c].task /\ client'[c].asked = client[c].asked
      /\ client'[c].timed = client[c].timed /\ client'[c].tries = client[c].tries
  BY DEF ClientTypes, ClientRecord, Move
<1>4. \A e \in Clients \ {c} : client'[e] = client[e]
  BY DEF ClientTypes, Move
<1>q. QED BY <1>1, <1>2, <1>3, <1>4 DEF ClientTypes

LEMMA Gone ==
  ASSUME ClientTypes, NEW c \in Clients, NEW p \in Places, Go(c, p),
         p \in {"look", "unlook"} => client[c].result \in Looks
  PROVE  /\ ClientTypes'
         /\ client'[c].at = p /\ client'[c].result = client[c].result
         /\ client'[c].task = client[c].task /\ client'[c].asked = client[c].asked
         /\ client'[c].timed = client[c].timed /\ client'[c].tries = client[c].tries
         /\ \A e \in Clients \ {c} : client'[e] = client[e]
<1>1. client' \in [Clients -> ClientRecord]
  BY DEF ClientTypes, ClientRecord, Go
<1>2. client'[c].at = p
  BY DEF ClientTypes, ClientRecord, Go
<1>3. /\ client'[c].task = client[c].task /\ client'[c].asked = client[c].asked
      /\ client'[c].timed = client[c].timed /\ client'[c].tries = client[c].tries
      /\ client'[c].result = client[c].result
  BY DEF ClientTypes, ClientRecord, Go
<1>4. \A e \in Clients \ {c} : client'[e] = client[e]
  BY DEF ClientTypes, Go
<1>q. QED BY <1>1, <1>2, <1>3, <1>4 DEF ClientTypes

LEMMA Replaced ==
  ASSUME ClientTypes, NEW c \in Clients, NEW r \in ClientRecord,
         client' = [client EXCEPT ![c] = r], r.at \notin {"look", "unlook"}
  PROVE  /\ ClientTypes' /\ client'[c] = r
         /\ \A e \in Clients \ {c} : client'[e] = client[e]
BY DEF ClientTypes

LEMMA CalmRecord == Calm \in ClientRecord /\ Calm.at = "idle"
BY Names DEF Calm, ClientRecord

LEMMA ClientStepTypes ==
  ASSUME ClientTypes, NEW c \in Clients, ClientStep(c)
  PROVE  ClientTypes' /\ \A e \in Clients \ {c} : client'[e] = client[e]
<1>b. ASSUME NEW task \in {"query", "ensure", "stop", "recycle"}, NEW at \in {"send", "first", "stop"},
             Begin(c, task, at)
      PROVE  ClientTypes' /\ \A e \in Clients \ {c} : client'[e] = client[e]
  <2>1. [Calm EXCEPT !.task = task, !.at = at] \in ClientRecord
    BY Names DEF Calm, ClientRecord
  <2>2. [Calm EXCEPT !.task = task, !.at = at].at = at
    BY DEF Calm
  <2>q. QED BY <1>b, <2>1, <2>2, Replaced DEF Begin
<1>1. CASE \/ Begin(c, "ensure", "first") \/ Begin(c, "stop", "stop")
           \/ Begin(c, "recycle", "stop") \/ Begin(c, "query", "send")
  BY <1>1, <1>b
<1>2. CASE Ping(c)
  <2>1. ASSUME NEW d \in Daemons, client' = [client EXCEPT ![c].at = "request", ![c].asked = d]
        PROVE  ClientTypes' /\ \A e \in Clients \ {c} : client'[e] = client[e]
    BY <2>1, Names DEF ClientTypes, ClientRecord
  <2>q. QED BY <1>2, <2>1, Names, Moved, Gone, Missed DEF Ping, ClientTypes
<1>3. CASE LookGuard(c) BY <1>3, Names, Moved, LooksAre DEF LookGuard
<1>4. CASE LookUnknown(c) BY <1>4, Names, Moved DEF LookUnknown
<1>5. CASE Look(c) BY <1>5, Names, Moved, Gone DEF Look, ClientTypes
<1>6. CASE Unlook(c) BY <1>6, Names, Moved, Freed DEF Unlook, ClientTypes
<1>7. CASE Lock(c) \/ LockTimeout(c) \/ CheckPort(c) \/ Spawn(c) \/ Port(c)
  BY <1>7, Names, Gone DEF Lock, LockTimeout, CheckPort, Spawn, Port
<1>8. CASE Fail(c) \/ NothingToStop(c) \/ Told(c) \/ Request(c)
  BY <1>8, Names, Moved, Gone DEF Fail, NothingToStop, Told, Request
<1>9. CASE Return(c)
  <2>1. [client[c] EXCEPT !.at = "send", !.timed = FALSE] \in ClientRecord
    BY Names DEF ClientTypes, ClientRecord
  <2>2. [client[c] EXCEPT !.at = "send", !.timed = FALSE].at = "send"
    BY DEF ClientTypes, ClientRecord
  <2>q. QED BY <1>9, <2>1, <2>2, CalmRecord, Replaced DEF Return
<1>10. CASE Send(c)
  <2>1. PICK d \in Daemons : client' = [client EXCEPT ![c].at = "wait", ![c].asked = d, ![c].tries = @ + 1]
    BY <1>10 DEF Send
  <2>q. QED BY <2>1, Names DEF ClientTypes, ClientRecord
<1>11. CASE Broken(c)
  <2>1. [client[c] EXCEPT !.at = "first", !.tries = 1] \in ClientRecord
    BY Names DEF ClientTypes, ClientRecord
  <2>2. [client[c] EXCEPT !.at = "first", !.tries = 1].at = "first"
    BY DEF ClientTypes, ClientRecord
  <2>q. QED BY <1>11, <2>1, <2>2, CalmRecord, Replaced DEF Broken
<1>12. CASE TimeOut(c)
  <2>1. [client[c] EXCEPT !.at = "still", !.timed = TRUE] \in ClientRecord
    BY Names DEF ClientTypes, ClientRecord
  <2>2. [client[c] EXCEPT !.at = "still", !.timed = TRUE].at = "still"
    BY DEF ClientTypes, ClientRecord
  <2>q. QED BY <1>12, <2>1, <2>2, CalmRecord, Replaced DEF TimeOut
<1>13. CASE Leave(c) BY <1>13, CalmRecord, Replaced DEF Leave
<1>q. QED BY <1>1, <1>2, <1>3, <1>4, <1>5, <1>6, <1>7, <1>8, <1>9, <1>10, <1>11, <1>12,
             <1>13 DEF ClientStep

LEMMA StepTypes ==
  ASSUME DaemonTypes, ClientTypes, [Next]_vars
  PROVE  DaemonTypes' /\ ClientTypes'
<1>1. ASSUME NEW c \in Clients, ClientStep(c) PROVE DaemonTypes'
  <2>1. CASE Spawn(c) \/ Request(c)
    BY <2>1 DEF DaemonTypes, Spawn, Request
  <2>2. CASE Send(c)
    BY <2>2 DEF DaemonTypes, Send
  <2>3. CASE UNCHANGED <<daemon, jobs>>
    BY <2>3 DEF DaemonTypes
  <2>q. QED BY <1>1, <2>1, <2>2, <2>3
    DEF ClientStep, Begin, Ping, LookGuard, LookUnknown, Look, Unlook, Lock, LockTimeout,
        CheckPort, Port, Fail, NothingToStop, Told, Return, Broken, TimeOut, Leave
<1>2. ASSUME NEW d \in Daemons, DaemonStep(d) PROVE DaemonTypes' /\ ClientTypes'
  <2>1. CASE \E c \in Clients : FinishJob(d, c)
    BY <2>1, CalmRecord, Replaced DEF FinishJob, DaemonTypes, ClientTypes
  <2>2. CASE Guard(d) \/ GuardBusy(d) \/ Listen(d) \/ BindFails(d)
    BY <2>2 DEF DaemonTypes, ClientTypes, Guard, GuardBusy, Listen, BindFails
  <2>3. CASE Own(d)
    BY <2>3 DEF DaemonTypes, ClientTypes, Own
  <2>4. CASE Shutdown(d) \/ Close(d) \/ Drain(d) \/ Unmark(d) \/ Release(d)
    BY <2>4 DEF DaemonTypes, ClientTypes, Shutdown, Close, Drain, Unmark, Release
  <2>5. CASE Crash(d)
    BY <2>5 DEF DaemonTypes, ClientTypes, Crash
  <2>q. QED BY <1>2, <2>1, <2>2, <2>3, <2>4, <2>5 DEF DaemonStep
<1>3. CASE UNCHANGED vars
  BY <1>3 DEF vars, DaemonTypes, ClientTypes
<1>q. QED BY <1>1, <1>2, <1>3, ClientStepTypes DEF Next

-----------------------------------------------------------------------------
(* The lifetime lock and the guard.                                        *)

Owns(d) == daemon[d] \in {"owning", "serving", "closing", "draining", "pruning", "leaving"}

\* Who has the guard and the lifetime lock follows from where everyone is, and a
\* query runs only in a daemon that has the lock.
LockInv ==
  /\ \A d \in Daemons : Is(d, "guarding") => probe = d
  /\ \A c \in Clients : client[c].at \in {"look", "unlook"} => probe = c
  /\ \A d \in Daemons : Owns(d) => instance = d
  /\ \A c \in Clients : At(c, "unlook") => instance = c
  /\ instance \in Clients => At(instance, "unlook")
  /\ instance \in Daemons \cup Clients \cup {None}
  /\ \A d \in Daemons : jobs[d] # {} => daemon[d] \in {"serving", "closing", "draining"}

\* A step of a client that neither looks nor stops looking.
LEMMA LockElsewhere ==
  ASSUME DaemonTypes, ClientTypes, LockInv, NEW c \in Clients,
         client[c].at \notin {"look", "unlook"}, client'[c].at \notin {"look", "unlook"},
         \A e \in Clients \ {c} : client'[e] = client[e],
         UNCHANGED <<probe, instance>>,
         \A d \in Daemons : /\ Owns(d)' <=> Owns(d)
                            /\ Is(d, "guarding")' <=> Is(d, "guarding"),
         \A d \in Daemons : jobs'[d] # {} => daemon'[d] \in {"serving", "closing", "draining"}
  PROVE  LockInv'
BY DEF LockInv

LEMMA ClientKeepsLock ==
  ASSUME DaemonTypes, ClientTypes, LockInv, NEW c \in Clients, ClientStep(c)
  PROVE  LockInv'
<1>0. \A e \in Clients \ {c} : client'[e] = client[e]
  BY ClientStepTypes
<1>1. CASE LookGuard(c)
  <2>1. client'[c].at = "look"
    BY <1>1, Names, LooksAre, Moved DEF LookGuard
  <2>2. client[c].at \notin {"look", "unlook"}
    BY <1>1, LooksAre DEF LookGuard, Looks
  <2>q. QED BY <1>0, <1>1, <2>1, <2>2, ProcessAssumption DEF LookGuard, LockInv, Owns
<1>2. CASE Look(c)
  <2>1. CASE instance = None
    <3>1. client'[c].at = "unlook"
      BY <1>2, <2>1, Names, Gone DEF Look, ClientTypes
    <3>q. QED BY <1>0, <1>2, <2>1, <3>1, ProcessAssumption DEF Look, LockInv, Owns
  <2>2. CASE instance # None
    <3>1. client'[c].at \in {"confirm", "return"}
      BY <1>2, <2>2, Names, Moved DEF Look
    <3>2. probe' = None /\ UNCHANGED <<daemon, jobs, instance>>
      BY <1>2, <2>2 DEF Look, LockInv
    <3>q. QED BY <1>0, <1>2, <2>2, <3>1, <3>2, ProcessAssumption DEF Look, LockInv, Owns
  <2>q. QED BY <2>1, <2>2
<1>3. CASE Unlook(c)
  <2>1. client'[c].at \notin {"look", "unlook"}
    BY <1>3, Names, Freed, Moved DEF Unlook, ClientTypes
  <2>2. probe' = None /\ instance' = None /\ instance = c /\ UNCHANGED <<daemon, jobs>>
    BY <1>3 DEF Unlook, LockInv
  <2>q. QED BY <1>0, <1>3, <2>1, <2>2, ProcessAssumption DEF LockInv, Owns
<1>4. CASE Spawn(c) \/ Request(c)
  <2>1. client[c].at \notin {"look", "unlook"} /\ client'[c].at \notin {"look", "unlook"}
    BY <1>4, Names, Gone, Moved DEF Spawn, Request
  <2>2. /\ UNCHANGED <<probe, instance, jobs>>
        /\ \A d \in Daemons : /\ Owns(d)' <=> Owns(d)
                              /\ Is(d, "guarding")' <=> Is(d, "guarding")
                              /\ daemon[d] \in {"serving", "closing", "draining"}
                                   => daemon'[d] \in {"serving", "closing", "draining"}
    BY <1>4 DEF Spawn, Request, DaemonTypes, Owns
  <2>q. QED BY <1>0, <2>1, <2>2, LockElsewhere DEF LockInv
<1>5. CASE Send(c)
  <2>1. PICK d \in Daemons :
          /\ daemon[d] \in {"serving", "closing"}
          /\ client' = [client EXCEPT ![c].at = "wait", ![c].asked = d, ![c].tries = @ + 1]
          /\ jobs' = IF Is(d, "serving") THEN [jobs EXCEPT ![d] = @ \cup {c}] ELSE jobs
    BY <1>5 DEF Send
  <2>2. client'[c].at = "wait" /\ client[c].at = "send"
    BY <1>5, <2>1 DEF Send, ClientTypes, ClientRecord
  <2>3. UNCHANGED <<daemon, probe, instance>>
    BY <1>5 DEF Send
  <2>4. \A e \in Daemons : jobs'[e] # {} => daemon'[e] \in {"serving", "closing", "draining"}
    <3>1. \A e \in Daemons : jobs'[e] # jobs[e] => e = d /\ Is(d, "serving")
      BY <2>1 DEF DaemonTypes
    <3>q. QED BY <2>3, <3>1 DEF LockInv
  <2>q. QED BY <1>0, <2>2, <2>3, <2>4, LockElsewhere DEF Owns
<1>6. CASE \/ Begin(c, "ensure", "first") \/ Begin(c, "stop", "stop")
           \/ Begin(c, "recycle", "stop") \/ Begin(c, "query", "send")
  <2>1. client[c].at \notin {"look", "unlook"} /\ client'[c].at \notin {"look", "unlook"}
    BY <1>6 DEF Begin, ClientTypes, ClientRecord, Calm
  <2>q. QED BY <1>0, <1>6, <2>1, LockElsewhere DEF Begin, Owns, LockInv
<1>7. CASE Ping(c)
  <2>1. client[c].at \notin {"look", "unlook"}
    BY <1>7 DEF Ping, AfterMiss
  <2>2. client'[c].at \notin {"look", "unlook"}
    <3>1. ASSUME NEW d \in Daemons, client' = [client EXCEPT ![c].at = "request", ![c].asked = d]
          PROVE  client'[c].at = "request"
      BY <3>1 DEF ClientTypes, ClientRecord
    <3>q. QED BY <1>7, <2>1, <3>1, Names, Moved, Gone, Missed DEF Ping
  <2>q. QED BY <1>0, <1>7, <2>1, <2>2, LockElsewhere DEF Ping, Owns, LockInv
<1>8. CASE LookUnknown(c)
  <2>1. client[c].at \notin {"look", "unlook"}
    BY <1>8, LooksAre DEF LookUnknown, Looks
  <2>2. client'[c].at \notin {"look", "unlook"}
    BY <1>8, Names, Moved DEF LookUnknown
  <2>q. QED BY <1>0, <1>8, <2>1, <2>2, LockElsewhere DEF LookUnknown, Owns, LockInv
<1>9. CASE Lock(c) \/ LockTimeout(c) \/ CheckPort(c) \/ Port(c) \/ Fail(c) \/ NothingToStop(c)
           \/ Told(c)
  <2>1. client[c].at \notin {"look", "unlook"} /\ client'[c].at \notin {"look", "unlook"}
    BY <1>9, Names, Moved, Gone
       DEF Lock, LockTimeout, CheckPort, Port, Fail, NothingToStop, Told
  <2>2. UNCHANGED <<daemon, jobs, probe, instance>>
    BY <1>9 DEF Lock, LockTimeout, CheckPort, Port, Fail, NothingToStop, Told
  <2>q. QED BY <1>0, <2>1, <2>2, LockElsewhere DEF Owns, LockInv
<1>10. CASE Return(c) \/ Broken(c) \/ TimeOut(c) \/ Leave(c)
  <2>1. client[c].at \notin {"look", "unlook"}
    BY <1>10 DEF Return, Broken, TimeOut, Leave
  <2>2. client'[c].at \notin {"look", "unlook"}
    <3>1. CASE Return(c)
      BY <3>1, CalmRecord DEF Return, ClientTypes, ClientRecord
    <3>2. CASE Broken(c)
      BY <3>2, CalmRecord DEF Broken, ClientTypes, ClientRecord
    <3>3. CASE TimeOut(c)
      BY <3>3, CalmRecord DEF TimeOut, ClientTypes, ClientRecord
    <3>4. CASE Leave(c)
      BY <3>4, CalmRecord DEF Leave, ClientTypes
    <3>q. QED BY <1>10, <3>1, <3>2, <3>3, <3>4
  <2>3. UNCHANGED <<daemon, jobs, probe, instance>>
    BY <1>10 DEF Return, Broken, TimeOut, Leave
  <2>q. QED BY <1>0, <2>1, <2>2, <2>3, LockElsewhere DEF Owns, LockInv
<1>q. QED BY <1>1, <1>2, <1>3, <1>4, <1>5, <1>6, <1>7, <1>8, <1>9, <1>10 DEF ClientStep

LEMMA DaemonKeepsLock ==
  ASSUME DaemonTypes, ClientTypes, LockInv, NEW d \in Daemons, DaemonStep(d)
  PROVE  LockInv'
<1>1. CASE Guard(d)
  BY <1>1, ProcessAssumption DEF Guard, LockInv, DaemonTypes, Owns
<1>2. CASE GuardBusy(d)
  BY <1>2 DEF GuardBusy, LockInv, DaemonTypes, Owns
<1>3. CASE Own(d)
  BY <1>3, ProcessAssumption DEF Own, LockInv, DaemonTypes, Owns
<1>4. CASE Listen(d)
  BY <1>4 DEF Listen, LockInv, DaemonTypes, Owns
<1>5. CASE BindFails(d)
  BY <1>5, ProcessAssumption DEF BindFails, LockInv, DaemonTypes, Owns
<1>6. CASE Shutdown(d) \/ Close(d)
  BY <1>6 DEF Shutdown, Close, LockInv, DaemonTypes, Owns
<1>7. CASE Drain(d) \/ Unmark(d)
  BY <1>7 DEF Drain, Unmark, LockInv, DaemonTypes, Owns
<1>8. CASE Release(d)
  BY <1>8, ProcessAssumption DEF Release, LockInv, DaemonTypes, Owns
<1>9. CASE Crash(d)
  BY <1>9, ProcessAssumption DEF Crash, LockInv, DaemonTypes, Owns
<1>10. CASE \E c \in Clients : FinishJob(d, c)
  <2>1. PICK c \in Clients : FinishJob(d, c)
    BY <1>10
  <2>2. /\ \A e \in Clients : client'[e].at = client[e].at \/ e = c
        /\ client[c].at \in {"look", "unlook"} <=> client'[c].at \in {"look", "unlook"}
        /\ At(c, "unlook") <=> At(c, "unlook")'
    BY <2>1, CalmRecord, Replaced DEF FinishJob, ClientTypes
  <2>3. /\ UNCHANGED <<daemon, probe, instance>>
        /\ \A e \in Daemons : jobs'[e] # {} => jobs[e] # {}
    BY <2>1 DEF FinishJob, DaemonTypes
  <2>q. QED BY <2>2, <2>3 DEF LockInv, Owns
<1>q. QED BY <1>1, <1>2, <1>3, <1>4, <1>5, <1>6, <1>7, <1>8, <1>9, <1>10 DEF DaemonStep

LEMMA TypesStart == Init => DaemonTypes /\ ClientTypes
BY CalmRecord DEF Init, DaemonTypes, ClientTypes

LEMMA LockStarts == Init => LockInv
BY ProcessAssumption, CalmRecord DEF Init, LockInv, Owns

LEMMA StepKeepsLock ==
  ASSUME DaemonTypes, ClientTypes, LockInv, [Next]_vars
  PROVE  LockInv'
<1>1. CASE UNCHANGED vars
  BY <1>1 DEF vars, LockInv, Owns
<1>q. QED BY <1>1, DaemonKeepsLock, ClientKeepsLock DEF Next

\* Whoever finds the lifetime lock taken has found a daemon, however many look.
THEOREM LooksCorrect == Spec => []LookFindsDaemon
<1>1. DaemonTypes /\ ClientTypes /\ LockInv => LookFindsDaemon
  BY ProcessAssumption DEF LookFindsDaemon, LockInv
<1>q. QED BY <1>1, TypesStart, LockStarts, StepTypes, StepKeepsLock, PTL DEF Spec

\* One daemon at a time works, however many are spawned, crash or are stopped.
THEOREM OneWorksCorrect == Spec => []OneWorks
<1>1. DaemonTypes /\ ClientTypes /\ LockInv => OneWorks
  BY DEF OneWorks, Working, LockInv, Owns
<1>q. QED BY <1>1, TypesStart, LockStarts, StepTypes, StepKeepsLock, PTL DEF Spec

-----------------------------------------------------------------------------
(* A stop.                                                                 *)

\* The client has asked a daemon to end and waits for that end, or has seen it.
Stopping(c) ==
  \/ client[c].at \in {"request", "confirm", "port", "owner"}
  \/ client[c].at = "look" /\ client[c].result = "owner"
SawEnd(c) ==
  \/ client[c].at = "stopped"
  \/ client[c].at = "unlook" /\ client[c].result = "owner"
  \/ client[c].at = "told" /\ client[c].result = "stopped"

\* Such a client has asked a daemon that had been listening and cannot come back,
\* and who has seen the end is right.
StopInv ==
  \A c \in Clients :
    /\ Stopping(c) \/ SawEnd(c) =>
         /\ client[c].asked \in Daemons
         /\ daemon[client[c].asked] \notin {"none", "spawned", "guarding", "owning"}
    /\ SawEnd(c) => daemon[client[c].asked] = "gone"

\* No step takes a daemon back to a place before it listened.
NoReturn ==
  \A d \in Daemons :
    /\ daemon[d] = "gone" => daemon'[d] = "gone"
    /\ daemon[d] \notin {"none", "spawned", "guarding", "owning"}
         => daemon'[d] \notin {"none", "spawned", "guarding", "owning"}

LEMMA StepsForward ==
  ASSUME DaemonTypes, ClientTypes, StopInv, [Next]_vars
  PROVE  NoReturn
<1>1. ASSUME NEW d \in Daemons, DaemonStep(d) PROVE NoReturn
  <2>1. CASE Crash(d)
    BY <2>1 DEF Crash, NoReturn, DaemonTypes
  <2>2. CASE Guard(d) \/ GuardBusy(d) \/ Own(d) \/ Listen(d) \/ BindFails(d)
    BY <2>2 DEF NoReturn, DaemonTypes, Guard, GuardBusy, Own, Listen, BindFails
  <2>3. CASE Shutdown(d) \/ Close(d) \/ Drain(d) \/ Unmark(d) \/ Release(d)
    BY <2>3 DEF NoReturn, DaemonTypes, Shutdown, Close, Drain, Unmark, Release
  <2>4. CASE \E c \in Clients : FinishJob(d, c)
    BY <2>4 DEF NoReturn, FinishJob
  <2>q. QED BY <1>1, <2>1, <2>2, <2>3, <2>4 DEF DaemonStep
<1>2. ASSUME NEW c \in Clients, ClientStep(c) PROVE NoReturn
  <2>1. CASE Spawn(c)
    BY <2>1 DEF Spawn, NoReturn, DaemonTypes
  <2>2. CASE Request(c)
    BY <2>2 DEF Request, NoReturn, DaemonTypes
  <2>3. CASE UNCHANGED daemon
    BY <2>3 DEF NoReturn
  <2>q. QED BY <1>2, <2>1, <2>2, <2>3
    DEF ClientStep, Begin, Ping, LookGuard, LookUnknown, Look, Unlook, Lock, LockTimeout,
        CheckPort, Port, Send, Fail, NothingToStop, Told, Return, Broken, TimeOut, Leave
<1>3. CASE UNCHANGED vars
  BY <1>3 DEF vars, NoReturn
<1>q. QED BY <1>1, <1>2, <1>3 DEF Next

\* A step of c keeps what is said of the others.
LEMMA StopElsewhere ==
  ASSUME StopInv, NoReturn, NEW c \in Clients,
         \A e \in Clients \ {c} : client'[e] = client[e],
         \/ client'[c] = client[c]
         \/ ~(Stopping(c) \/ SawEnd(c))'
         \/ /\ Stopping(c) /\ Stopping(c)' /\ ~SawEnd(c)'
            /\ client'[c].asked = client[c].asked
         \/ /\ Stopping(c) \/ SawEnd(c)
            /\ client'[c].asked = client[c].asked
            /\ daemon'[client[c].asked] = "gone"
  PROVE  StopInv'
BY DEF StopInv, NoReturn, Stopping, SawEnd

LEMMA ClientKeepsStop ==
  ASSUME DaemonTypes, ClientTypes, LockInv, StopInv, NoReturn,
         NEW c \in Clients, ClientStep(c)
  PROVE  StopInv'
<1>0. \A e \in Clients \ {c} : client'[e] = client[e]
  BY ClientStepTypes
<1>1. CASE Ping(c)
  <2>1. ASSUME NEW d \in Daemons, daemon[d] = "serving", UNCHANGED daemon,
               client' = [client EXCEPT ![c].at = "request", ![c].asked = d]
        PROVE  StopInv'
    <3>1. client'[c].at = "request" /\ client'[c].asked = d
      BY <2>1 DEF ClientTypes, ClientRecord
    <3>q. QED BY <1>0, <2>1, <3>1 DEF StopInv, Stopping, SawEnd
  <2>2. CASE client' = client
    BY <1>0, <2>2, StopElsewhere
  <2>3. CASE \E r \in {"spawned", "already-running"} : Move(c, "return", r)
    <3>1. client'[c].at = "return"
      BY <2>3, Names, Moved
    <3>q. QED BY <1>0, <3>1, StopElsewhere DEF Stopping, SawEnd
  <2>4. CASE Go(c, AfterMiss[client[c].at])
    <3>1. /\ client'[c].at = AfterMiss[client[c].at] /\ client[c].at \in DOMAIN AfterMiss
          /\ client'[c].asked = client[c].asked
      BY <1>1, <2>4, Missed, Gone DEF Ping
    <3>2. \/ client[c].at = "confirm" /\ client'[c].at = "port"
          \/ client'[c].at \in {"own1", "own2", "own3", "own4", "first", "ready", "listening"}
      BY <3>1 DEF AfterMiss
    <3>q. QED BY <1>0, <3>1, <3>2, StopElsewhere DEF Stopping, SawEnd
  <2>q. QED BY <1>1, <2>1, <2>2, <2>3, <2>4 DEF Ping
<1>2. CASE LookGuard(c)
  <2>1. /\ client'[c].at = "look" /\ client'[c].result = client[c].at
        /\ client'[c].asked = client[c].asked
    BY <1>2, Names, LooksAre, Moved DEF LookGuard
  <2>q. QED BY <1>0, <2>1, StopElsewhere DEF Stopping, SawEnd
<1>3. CASE LookUnknown(c)
  <2>1. client'[c].asked = client[c].asked
    BY <1>3, Names, Moved DEF LookUnknown
  <2>2. \/ client[c].at = "owner" /\ client'[c].at = "confirm"
        \/ client'[c].at = "return"
    BY <1>3, Names, Moved DEF LookUnknown
  <2>q. QED BY <1>0, <2>1, <2>2, StopElsewhere DEF Stopping, SawEnd
<1>4. CASE Look(c)
  <2>1. CASE instance = None
    <3>1. /\ client'[c].at = "unlook" /\ client'[c].result = client[c].result
          /\ client'[c].asked = client[c].asked /\ client[c].at = "look"
      BY <1>4, <2>1, Names, Gone DEF Look, ClientTypes
    <3>2. \A d \in Daemons : ~Owns(d)
      BY <2>1, ProcessAssumption DEF LockInv
    <3>3. UNCHANGED daemon
      BY <1>4 DEF Look
    <3>4. Stopping(c) => daemon'[client[c].asked] = "gone"
      BY <3>2, <3>3 DEF StopInv, Owns, DaemonTypes
    <3>q. QED BY <1>0, <3>1, <3>4, StopElsewhere DEF Stopping, SawEnd
  <2>2. CASE instance # None
    <3>1. \/ client[c].result = "owner" /\ client'[c].at = "confirm"
          \/ client'[c].at = "return"
      BY <1>4, <2>2, Names, Moved DEF Look
    <3>2. client[c].at = "look" /\ client'[c].asked = client[c].asked
      BY <1>4, <2>2, Names, Moved DEF Look
    <3>q. QED BY <1>0, <3>1, <3>2, StopElsewhere DEF Stopping, SawEnd
  <2>q. QED BY <2>1, <2>2
<1>5. CASE Unlook(c)
  <2>1. /\ client'[c].at = AfterFree[client[c].result] /\ client[c].result \in Looks
        /\ client'[c].asked = client[c].asked /\ client[c].at = "unlook"
    BY <1>5, Names, Freed, Moved DEF Unlook, ClientTypes
  <2>2. \/ client[c].result = "owner" /\ client'[c].at = "stopped"
        \/ client'[c].at \in {"lock", "listen", "conflict"}
    BY <2>1 DEF AfterFree, Looks
  <2>3. SawEnd(c) => daemon'[client[c].asked] = "gone"
    BY <1>5 DEF Unlook, StopInv
  <2>q. QED BY <1>0, <2>1, <2>2, <2>3, StopElsewhere DEF Stopping, SawEnd
<1>6. CASE Lock(c) \/ LockTimeout(c) \/ CheckPort(c) \/ Spawn(c) \/ Fail(c) \/ NothingToStop(c)
  <2>1. \/ client'[c].at \in {"second", "fourth", "spawn", "third", "ready", "return", "first"}
        \/ client'[c].at = "told" /\ client'[c].result \in {"not-running", "unverified-listener"}
    BY <1>6, Names, Moved, Gone DEF Lock, LockTimeout, CheckPort, Spawn, Fail, NothingToStop
  <2>q. QED BY <1>0, <2>1, StopElsewhere DEF Stopping, SawEnd
<1>7. CASE Request(c) \/ Port(c)
  <2>1. client[c].at \in {"request", "port"}
    BY <1>7 DEF Request, Port
  <2>2. \/ /\ client'[c].at \in {"confirm", "owner"}
           /\ client'[c].asked = client[c].asked
        \/ client'[c].at = "told" /\ client'[c].result = "failed"
    BY <1>7, Names, Moved, Gone DEF Request, Port
  <2>q. QED BY <1>0, <2>1, <2>2, StopElsewhere DEF Stopping, SawEnd
<1>8. CASE Told(c)
  <2>1. \/ client'[c].at = "first"
        \/ client'[c].at = "told" /\ client'[c].result = "draining"
        \/ client[c].at = "stopped" /\ client'[c].at = "told"
    BY <1>8, Names, Moved DEF Told
  <2>2. client'[c].asked = client[c].asked
    BY <1>8, Names, Moved DEF Told
  <2>3. client[c].at = "stopped" => daemon'[client[c].asked] = "gone"
    BY <1>8 DEF Told, StopInv, SawEnd
  <2>q. QED BY <1>0, <2>1, <2>2, <2>3, StopElsewhere DEF Stopping, SawEnd
<1>9. CASE \/ Begin(c, "ensure", "first") \/ Begin(c, "stop", "stop")
           \/ Begin(c, "recycle", "stop") \/ Begin(c, "query", "send")
  <2>1. client'[c].at \in {"first", "stop", "send"}
    BY <1>9 DEF Begin, ClientTypes, ClientRecord, Calm
  <2>q. QED BY <1>0, <2>1, StopElsewhere DEF Stopping, SawEnd
<1>10. CASE Return(c)
  <2>1. client'[c].at \in {"send", "idle"}
    BY <1>10, CalmRecord DEF Return, ClientTypes, ClientRecord
  <2>q. QED BY <1>0, <2>1, StopElsewhere DEF Stopping, SawEnd
<1>11. CASE Send(c)
  <2>1. client'[c].at = "wait"
    BY <1>11 DEF Send, ClientTypes, ClientRecord
  <2>q. QED BY <1>0, <2>1, StopElsewhere DEF Stopping, SawEnd
<1>12. CASE Broken(c)
  <2>1. client'[c].at \in {"first", "idle"}
    BY <1>12, CalmRecord DEF Broken, ClientTypes, ClientRecord
  <2>q. QED BY <1>0, <2>1, StopElsewhere DEF Stopping, SawEnd
<1>13. CASE TimeOut(c)
  <2>1. client'[c].at \in {"still", "idle"}
    BY <1>13, CalmRecord DEF TimeOut, ClientTypes, ClientRecord
  <2>q. QED BY <1>0, <2>1, StopElsewhere DEF Stopping, SawEnd
<1>14. CASE Leave(c)
  <2>1. client'[c].at = "idle"
    BY <1>14, CalmRecord DEF Leave, ClientTypes
  <2>q. QED BY <1>0, <2>1, StopElsewhere DEF Stopping, SawEnd
<1>q. QED BY <1>1, <1>2, <1>3, <1>4, <1>5, <1>6, <1>7, <1>8, <1>9, <1>10, <1>11, <1>12,
             <1>13, <1>14 DEF ClientStep

LEMMA DaemonKeepsStop ==
  ASSUME DaemonTypes, ClientTypes, StopInv, NoReturn, NEW d \in Daemons, DaemonStep(d)
  PROVE  StopInv'
<1>1. CASE UNCHANGED client
  BY <1>1 DEF StopInv, NoReturn, Stopping, SawEnd
<1>2. ASSUME NEW c \in Clients, FinishJob(d, c) PROVE StopInv'
  <2>1. /\ \A e \in Clients \ {c} : client'[e] = client[e]
        /\ client'[c] = client[c] \/ client'[c].at = "idle"
    BY <1>2, CalmRecord DEF FinishJob, ClientTypes
  <2>q. QED BY <2>1, StopElsewhere DEF Stopping, SawEnd
<1>q. QED BY <1>1, <1>2 DEF DaemonStep, Guard, GuardBusy, Own, Listen, BindFails, Shutdown,
                           Close, Drain, Unmark, Release, Crash

LEMMA StepKeepsStop ==
  ASSUME DaemonTypes, ClientTypes, LockInv, StopInv, [Next]_vars
  PROVE  StopInv'
<1>1. NoReturn
  BY StepsForward
<1>2. CASE UNCHANGED vars
  BY <1>2 DEF vars, StopInv, Stopping, SawEnd
<1>q. QED BY <1>1, <1>2, ClientKeepsStop, DaemonKeepsStop DEF Next

\* "stopped" is the truth for every client and whatever the others do: the daemon it
\* asked has ended, and not only closed its port.
THEOREM StoppedCorrect == Spec => []StoppedMeansGone
<1>1. Init => StopInv
  BY CalmRecord DEF Init, StopInv, Stopping, SawEnd
<1>2. DaemonTypes /\ LockInv /\ StopInv => StoppedMeansGone
  BY DEF StoppedMeansGone, Working, LockInv, StopInv, SawEnd
<1>q. QED BY <1>1, <1>2, TypesStart, LockStarts, StepTypes, StepKeepsLock, StepKeepsStop, PTL
          DEF Spec

-----------------------------------------------------------------------------
(* A query and its retry.                                                  *)

NoJob(c) == \A d \in Daemons : c \notin jobs[d]

\* The client found the lifetime lock free, and what follows from that: no daemon
\* that could still run its query was left.
FoundFree(c) ==
  \/ client[c].at \in {"listen", "spawn", "ready"}
  \/ client[c].at = "unlook" /\ client[c].result = "own2"
  \/ client[c].at = "return" /\ client[c].result = "spawned"

QueryOf(c) ==
  /\ \A d, e \in Daemons : c \in jobs[d] /\ c \in jobs[e] => d = e
  /\ client[c].at = "send" => client[c].task = "query" /\ NoJob(c)
  /\ client[c].at = "wait" =>
       /\ client[c].task = "query"
       /\ \A d \in Daemons : c \in jobs[d] => d = client[c].asked
  /\ client[c].task = "query" /\ ~client[c].timed /\ client[c].at # "wait" => NoJob(c)
  /\ client[c].task = "query" /\ FoundFree(c) => NoJob(c)

QueryInv == \A c \in Clients : QueryOf(c)

LEMMA QueryElsewhere ==
  ASSUME QueryInv, NEW c \in Clients,
         \A e \in Clients \ {c} : client'[e] = client[e],
         \A e \in Clients \ {c}, d \in Daemons : e \in jobs'[d] => e \in jobs[d],
         QueryOf(c)'
  PROVE  QueryInv'
BY DEF QueryInv, QueryOf, NoJob, FoundFree

\* A client moves on without its query changing hands.
LEMMA QueryMoves ==
  ASSUME QueryInv, NEW c \in Clients, UNCHANGED jobs,
         client[c].at \notin {"send", "wait"}, client'[c].at \notin {"send", "wait"},
         client'[c].task = client[c].task, client'[c].timed = client[c].timed,
         FoundFree(c)' => FoundFree(c) \/ NoJob(c)
  PROVE  QueryOf(c)'
BY DEF QueryInv, QueryOf, NoJob

\* A client is done with it, or another task begins.
LEMMA QueryLeft ==
  ASSUME QueryInv, NEW c \in Clients,
         \A d \in Daemons : c \in jobs'[d] => c \in jobs[d],
         client'[c].at \notin {"send", "wait"}, client'[c].task # "query"
  PROVE  QueryOf(c)'
BY DEF QueryInv, QueryOf, NoJob

LEMMA ClientKeepsQuery ==
  ASSUME DaemonTypes, ClientTypes, LockInv, QueryInv, NEW c \in Clients, ClientStep(c)
  PROVE  QueryInv'
<1>0. \A e \in Clients \ {c} : client'[e] = client[e]
  BY ClientStepTypes
<1>f. ASSUME UNCHANGED jobs, QueryOf(c)' PROVE QueryInv'
  BY <1>0, <1>f, QueryElsewhere
<1>1. CASE Ping(c)
  <2>1. ASSUME NEW d \in Daemons, client' = [client EXCEPT ![c].at = "request", ![c].asked = d]
        PROVE  /\ client'[c].at = "request" /\ client'[c].task = client[c].task
               /\ client'[c].timed = client[c].timed
    BY <2>1 DEF ClientTypes, ClientRecord
  <2>2. client[c].at \notin {"send", "wait"} /\ UNCHANGED jobs
    BY <1>1 DEF Ping, AfterMiss
  <2>3. CASE client' = client
    BY <1>f, <2>2, <2>3 DEF QueryInv, QueryOf, NoJob, FoundFree
  <2>4. CASE \E r \in {"spawned", "already-running"} :
               Move(c, "return", r) /\ (r = "spawned" => At(c, "ready"))
    <3>1. /\ client'[c].at = "return" /\ client'[c].task = client[c].task
          /\ client'[c].timed = client[c].timed
          /\ client'[c].result = "spawned" => At(c, "ready")
      BY <2>4, Names, Moved
    <3>q. QED BY <1>f, <2>2, <3>1, QueryMoves DEF FoundFree
  <2>5. CASE Go(c, AfterMiss[client[c].at])
    <3>1. /\ client'[c].at = AfterMiss[client[c].at] /\ client[c].at \in DOMAIN AfterMiss
          /\ client'[c].task = client[c].task /\ client'[c].timed = client[c].timed
      BY <1>1, <2>5, Missed, Gone DEF Ping
    <3>2. \/ client[c].at = "ready" /\ client'[c].at = "ready"
          \/ client'[c].at \in {"own1", "own2", "own3", "own4", "first", "listening", "port"}
      BY <3>1 DEF AfterMiss
    <3>q. QED BY <1>f, <2>2, <3>1, <3>2, QueryMoves DEF FoundFree
  <2>6. CASE \E d \in Daemons : client' = [client EXCEPT ![c].at = "request", ![c].asked = d]
    BY <1>f, <2>1, <2>2, <2>6, QueryMoves DEF FoundFree
  <2>q. QED BY <1>1, <2>3, <2>4, <2>5, <2>6 DEF Ping
<1>2. CASE LookGuard(c) \/ LookUnknown(c)
  <2>1. client[c].at \notin {"send", "wait"} /\ UNCHANGED jobs
    BY <1>2, LooksAre DEF LookGuard, LookUnknown, Looks
  <2>2. /\ client'[c].task = client[c].task /\ client'[c].timed = client[c].timed
        /\ client'[c].at \in {"look", "confirm", "return"}
        /\ client'[c].at = "return" => client'[c].result # "spawned"
    BY <1>2, Names, LooksAre, Moved DEF LookGuard, LookUnknown
  <2>q. QED BY <1>f, <2>1, <2>2, QueryMoves DEF FoundFree
<1>3. CASE Look(c)
  <2>1. UNCHANGED jobs
    BY <1>3 DEF Look
  <2>2. CASE instance = None
    <3>1. /\ client'[c].task = client[c].task /\ client'[c].timed = client[c].timed
          /\ client'[c].at = "unlook" /\ client[c].at = "look"
      BY <1>3, <2>2, Names, Gone DEF Look, ClientTypes
    <3>2. NoJob(c)
      BY <2>2, ProcessAssumption DEF LockInv, Owns, NoJob
    <3>q. QED BY <1>f, <2>1, <3>1, <3>2, QueryMoves
  <2>3. CASE instance # None
    <3>1. /\ client'[c].task = client[c].task /\ client'[c].timed = client[c].timed
          /\ client'[c].at \in {"confirm", "return"} /\ client[c].at = "look"
          /\ client'[c].result # "spawned"
      BY <1>3, <2>3, Names, Moved DEF Look
    <3>q. QED BY <1>f, <2>1, <3>1, QueryMoves DEF FoundFree
  <2>q. QED BY <2>2, <2>3
<1>4. CASE Unlook(c)
  <2>1. /\ client'[c].at = AfterFree[client[c].result] /\ client[c].result \in Looks
        /\ client'[c].task = client[c].task /\ client'[c].timed = client[c].timed
        /\ client[c].at = "unlook" /\ UNCHANGED jobs
    BY <1>4, Names, Freed, Moved DEF Unlook, ClientTypes
  <2>2. \/ client[c].result = "own2" /\ client'[c].at = "listen"
        \/ client'[c].at \in {"lock", "conflict", "stopped"}
    BY <2>1 DEF AfterFree, Looks
  <2>q. QED BY <1>f, <2>1, <2>2, QueryMoves DEF FoundFree
<1>5. CASE Lock(c) \/ LockTimeout(c) \/ CheckPort(c) \/ Spawn(c) \/ Port(c)
  <2>1. /\ client'[c].task = client[c].task /\ client'[c].timed = client[c].timed
        /\ UNCHANGED jobs /\ client[c].at \notin {"send", "wait"}
    BY <1>5, Names, Gone DEF Lock, LockTimeout, CheckPort, Spawn, Port
  <2>2. \/ client'[c].at \in {"second", "fourth", "third", "owner", "confirm"}
        \/ client[c].at \in {"listen", "spawn"} /\ client'[c].at \in {"spawn", "ready"}
    BY <1>5, Names, Gone DEF Lock, LockTimeout, CheckPort, Spawn, Port
  <2>q. QED BY <1>f, <2>1, <2>2, QueryMoves DEF FoundFree
<1>6. CASE Fail(c) \/ NothingToStop(c) \/ Request(c) \/ Told(c)
  <2>1. /\ client'[c].task = client[c].task /\ client'[c].timed = client[c].timed
        /\ UNCHANGED jobs /\ client[c].at \notin {"send", "wait"}
    BY <1>6, Names, Gone, Moved DEF Fail, NothingToStop, Request, Told
  <2>2. \/ client'[c].at \in {"told", "first", "confirm"}
        \/ client'[c].at = "return" /\ client'[c].result = "failed"
    BY <1>6, Names, Gone, Moved DEF Fail, NothingToStop, Request, Told
  <2>q. QED BY <1>f, <2>1, <2>2, QueryMoves DEF FoundFree
<1>7. CASE \E task \in {"ensure", "stop", "recycle"}, at \in {"first", "stop"} : Begin(c, task, at)
  <2>1. client'[c].at \in {"first", "stop"} /\ client'[c].task # "query" /\ UNCHANGED jobs
    BY <1>7 DEF Begin, ClientTypes, ClientRecord, Calm
  <2>q. QED BY <1>f, <2>1, QueryLeft
<1>8. CASE Begin(c, "query", "send")
  <2>1. client'[c].at = "send" /\ client'[c].task = "query" /\ UNCHANGED jobs /\ NoJob(c)
    BY <1>8 DEF Begin, ClientTypes, ClientRecord, Calm, NoJob
  <2>q. QED BY <1>f, <2>1 DEF QueryOf, NoJob
<1>9. CASE Return(c)
  <2>1. UNCHANGED jobs
    BY <1>9 DEF Return
  <2>2. CASE client' = [client EXCEPT ![c] = Calm]
    <3>1. client'[c].at = "idle" /\ client'[c].task = "none"
      BY <2>2 DEF ClientTypes, Calm
    <3>q. QED BY <1>f, <2>1, <3>1, QueryLeft
  <2>3. CASE /\ client' = [client EXCEPT ![c] = [client[c] EXCEPT !.at = "send", !.timed = FALSE]]
             /\ client[c].task = "query" /\ client[c].at = "return"
             /\ client[c].result = "spawned" \/ ~client[c].timed
    <3>1. client'[c].at = "send" /\ client'[c].task = "query"
      BY <2>3 DEF ClientTypes, ClientRecord
    <3>2. NoJob(c)
      BY <2>3 DEF QueryInv, QueryOf, FoundFree
    <3>q. QED BY <1>f, <2>1, <3>1, <3>2 DEF QueryOf, NoJob
  <2>q. QED BY <1>9, <2>2, <2>3 DEF Return
<1>10. CASE Send(c)
  <2>1. PICK d \in Daemons :
          /\ client' = [client EXCEPT ![c].at = "wait", ![c].asked = d, ![c].tries = @ + 1]
          /\ jobs' = IF Is(d, "serving") THEN [jobs EXCEPT ![d] = @ \cup {c}] ELSE jobs
    BY <1>10 DEF Send
  <2>2. client'[c].at = "wait" /\ client'[c].asked = d /\ client'[c].task = "query"
    BY <1>10, <2>1 DEF Send, ClientTypes, ClientRecord, QueryInv, QueryOf
  <2>3. NoJob(c)
    BY <1>10 DEF Send, QueryInv, QueryOf
  <2>4. \A e \in Daemons : c \in jobs'[e] => e = d
    BY <2>1, <2>3 DEF NoJob, DaemonTypes
  <2>5. \A e \in Clients \ {c}, g \in Daemons : e \in jobs'[g] => e \in jobs[g]
    BY <2>1 DEF DaemonTypes
  <2>q. QED BY <1>0, <2>2, <2>4, <2>5, QueryElsewhere DEF QueryOf, FoundFree
<1>11. CASE Broken(c)
  <2>1. UNCHANGED jobs
    BY <1>11 DEF Broken
  <2>2. NoJob(c) /\ client[c].task = "query"
    BY <1>11 DEF Broken, QueryInv, QueryOf, NoJob
  <2>3. client'[c].at \in {"first", "idle"}
    BY <1>11, CalmRecord DEF Broken, ClientTypes, ClientRecord
  <2>q. QED BY <1>f, <2>1, <2>2, <2>3 DEF QueryInv, QueryOf, NoJob
<1>12. CASE TimeOut(c)
  <2>1. UNCHANGED jobs
    BY <1>12 DEF TimeOut
  <2>2. \/ client'[c].at = "still" /\ client'[c].timed
        \/ client'[c].at = "idle" /\ client'[c].task = "none"
    BY <1>12 DEF TimeOut, ClientTypes, ClientRecord, Calm
  <2>q. QED BY <1>f, <2>1, <2>2 DEF QueryInv, QueryOf, NoJob, FoundFree
<1>13. CASE Leave(c)
  <2>1. client'[c].at = "idle" /\ client'[c].task = "none" /\ UNCHANGED jobs
    BY <1>13 DEF Leave, ClientTypes, Calm
  <2>q. QED BY <1>f, <2>1, QueryLeft
<1>q. QED BY <1>1, <1>2, <1>3, <1>4, <1>5, <1>6, <1>7, <1>8, <1>9, <1>10, <1>11, <1>12,
             <1>13 DEF ClientStep

LEMMA DaemonKeepsQuery ==
  ASSUME DaemonTypes, ClientTypes, QueryInv, NEW d \in Daemons, DaemonStep(d)
  PROVE  QueryInv'
<1>1. CASE UNCHANGED <<client, jobs>>
  BY <1>1 DEF QueryInv, QueryOf, NoJob, FoundFree
<1>2. CASE Crash(d)
  <2>1. UNCHANGED client /\ \A e \in Daemons : jobs'[e] \subseteq jobs[e]
    BY <1>2 DEF Crash, DaemonTypes
  <2>q. QED BY <2>1 DEF QueryInv, QueryOf, NoJob, FoundFree
<1>3. ASSUME NEW c \in Clients, FinishJob(d, c) PROVE QueryInv'
  <2>1. \A e \in Daemons : jobs'[e] \subseteq jobs[e]
    BY <1>3 DEF FinishJob, DaemonTypes
  <2>2. \A e \in Clients \ {c} : client'[e] = client[e]
    BY <1>3 DEF FinishJob, ClientTypes
  <2>3. \/ client'[c] = client[c]
        \/ client'[c].at = "idle" /\ client'[c].task = "none"
    BY <1>3 DEF FinishJob, ClientTypes, Calm
  <2>4. QueryOf(c)'
    BY <2>1, <2>3 DEF QueryInv, QueryOf, NoJob, FoundFree
  <2>q. QED BY <2>1, <2>2, <2>4, QueryElsewhere
<1>q. QED BY <1>1, <1>2, <1>3 DEF DaemonStep, Guard, GuardBusy, Own, Listen, BindFails, Shutdown,
                                Close, Drain, Unmark, Release

\* No query runs twice, whatever times out, breaks or is started anew in between.
THEOREM NoDuplicateCorrect == Spec => []NoDuplicateQuery
<1>1. Init => QueryInv
  BY DEF Init, QueryInv, QueryOf, NoJob, FoundFree, Calm
<1>2. DaemonTypes /\ ClientTypes /\ LockInv /\ QueryInv /\ [Next]_vars => QueryInv'
  <2>1. CASE UNCHANGED vars
    BY <2>1 DEF vars, QueryInv, QueryOf, NoJob, FoundFree
  <2>q. QED BY <2>1, ClientKeepsQuery, DaemonKeepsQuery DEF Next
<1>3. QueryInv => NoDuplicateQuery
  <2>. SUFFICES ASSUME QueryInv, NEW c \in Clients
                PROVE  /\ Cardinality({d \in Daemons : c \in jobs[d]}) <= 1
                       /\ At(c, "send") => NoJob(c)
    BY DEF NoDuplicateQuery, NoJob
  <2>1. CASE NoJob(c)
    <3>1. {d \in Daemons : c \in jobs[d]} = {}
      BY <2>1 DEF NoJob
    <3>q. QED BY <2>1, <3>1, FS_EmptySet
  <2>2. ASSUME NEW d \in Daemons, c \in jobs[d]
        PROVE  Cardinality({e \in Daemons : c \in jobs[e]}) <= 1
    <3>1. {e \in Daemons : c \in jobs[e]} = {d}
      BY <2>2 DEF QueryInv, QueryOf
    <3>2. Cardinality({d}) = 1
      BY FS_Singleton
    <3>q. QED BY <3>1, <3>2
  <2>q. QED BY <2>1, <2>2 DEF QueryInv, QueryOf, NoJob
<1>q. QED BY <1>1, <1>2, <1>3, TypesStart, LockStarts, StepTypes, StepKeepsLock, PTL DEF Spec

-----------------------------------------------------------------------------
(* The watch of a project (ProjectWatch).  A file is tracked from its event *)
(* to the end of the job that indexes it, and stop() returns when no flush  *)
(* is inside.                                                               *)

TimerStates == {"free", "armed", "started", "calling", "queued", "running", "following",
                "succeeded", "failed", "leaving"}
FlushStates == {"calling", "queued", "running", "following", "succeeded", "failed", "leaving"}

WatchTypes ==
  /\ events \subseteq Paths /\ pending \subseteq Paths
  /\ timer \in Timers \cup {NoTimer}
  /\ state \in [Timers -> TimerStates]
  /\ batch \in [Timers -> SUBSET Paths]
  /\ leader \in [Timers -> Timers \cup {NoTimer}]
  /\ lane \in Seq(Timers)
  /\ flushing \in Int
  /\ flushDone \in BOOLEAN /\ stopping \in BOOLEAN /\ stopped \in BOOLEAN

\* Only the timer on record is armed, and none once the watch is stopping.
ArmedIsTimer == \A f \in Timers : state[f] = "armed" => timer = f
StoppingUnarmed == stopping => \A f \in Timers : state[f] # "armed"

\* The counter is the number of flushes inside, and the event tells it is zero.
CountsFlushes == flushing = Cardinality(Flushing) /\ (flushDone <=> flushing = 0)
Drained == stopped => stopping /\ Flushing = {}

\* Who follows a job waits for it; the lane holds each queued flush once; one
\* job runs; a restored batch is empty.
FollowersFollow == \A f \in Timers : leader[f] # NoTimer => state[f] = "following"
LaneQueues ==
  /\ \A i \in 1..Len(lane) : state[lane[i]] = "queued"
  /\ \A i, j \in 1..Len(lane) : lane[i] = lane[j] => i = j
OneRuns == \A f, g \in Timers : state[f] = "running" /\ state[g] = "running" => f = g
LeavesEmpty == \A f \in Timers : state[f] = "leaving" => batch[f] = {}

\* A file of the running batch that has changed since it was read has an event
\* on its way, is pending again or is in the batch of another flush.
Elsewhere(f, p) ==
  \/ p \in events \cup pending
  \/ \E g \in Flushing : g # f /\ state[g] # "succeeded" /\ p \in batch[g]
ChangedAgain ==
  ~stopping => \A f \in Timers : state[f] = "running" => \A p \in batch[f] \ unread : Elsewhere(f, p)

TimerInv == WatchTypes /\ ArmedIsTimer /\ StoppingUnarmed
JobInv == FollowersFollow /\ LaneQueues /\ OneRuns /\ LeavesEmpty
WatchInv == TimerInv /\ JobInv /\ CountsFlushes /\ Drained /\ ChangedAgain

LEMMA WatchStarts == WatchInit => WatchInv
<1> SUFFICES ASSUME WatchInit PROVE WatchInv
  OBVIOUS
<1> USE WatchAssumption DEF WatchInit
<1>1. TimerInv
  <2>a. lane \in Seq(Timers)
    OBVIOUS
  <2>b. /\ state \in [Timers -> TimerStates] /\ batch \in [Timers -> SUBSET Paths]
        /\ leader \in [Timers -> Timers \cup {NoTimer}]
    BY DEF TimerStates
  <2>c. flushDone \in BOOLEAN /\ stopping \in BOOLEAN /\ stopped \in BOOLEAN
    BY Zenon
  <2>d. events \subseteq Paths /\ pending \subseteq Paths /\ flushing \in Int
        /\ timer \in Timers \cup {NoTimer}
    OBVIOUS
  <2>2. ArmedIsTimer /\ StoppingUnarmed
    BY DEF ArmedIsTimer, StoppingUnarmed
  <2> HIDE DEF WatchInit
  <2>1. WatchTypes
    BY <2>a, <2>b, <2>c, <2>d DEF WatchTypes
  <2> QED BY <2>1, <2>2 DEF TimerInv
<1>2. JobInv
  BY DEF JobInv, FollowersFollow, LaneQueues, OneRuns, LeavesEmpty
<1>3. Flushing = {}
  BY DEF Flushing
<1>4. CountsFlushes /\ Drained
  BY <1>3, FS_EmptySet DEF CountsFlushes, Drained
<1>5. ChangedAgain
  BY DEF ChangedAgain
<1> QED BY <1>1, <1>2, <1>4, <1>5 DEF WatchInv

\* The timers.
LEMMA TimersStep == TimerInv /\ LaneQueues /\ [WatchNext]_watchVars => TimerInv'
<1> SUFFICES ASSUME TimerInv, LaneQueues, [WatchNext]_watchVars PROVE TimerInv'
  OBVIOUS
<1> USE WatchAssumption DEF TimerInv, WatchTypes, TimerStates, ArmedIsTimer, StoppingUnarmed
<1>1. ASSUME NEW p \in Paths, Change(p) PROVE TimerInv'
  BY <1>1 DEF Change, stopVars
<1>2. ASSUME NEW p \in Paths, Enqueue(p) PROVE TimerInv'
  BY <1>2 DEF Enqueue, Arm, Cancelled, flushVars, stopVars
<1>3. ASSUME NEW f \in Timers, Fire(f) \/ SkipFlush(f) PROVE TimerInv'
  BY <1>3 DEF Fire, SkipFlush, diskVars, flushVars, stopVars
<1>4. ASSUME NEW f \in Timers, TakeBatch(f) PROVE TimerInv'
  <2>1. /\ state[f] = "started" /\ timer = f /\ timer' = NoTimer /\ pending' = {}
        /\ batch' = [batch EXCEPT ![f] = pending]
        /\ \E s \in {"free", "calling"} : state' = [state EXCEPT ![f] = s]
        /\ flushing' \in {flushing, flushing + 1} /\ flushDone' \in {flushDone, FALSE}
        /\ UNCHANGED <<events, leader, lane, stopping, stopped>>
    BY <1>4 DEF TakeBatch, diskVars, stopVars
  <2>2. batch' \in [Timers -> SUBSET Paths] /\ state' \in [Timers -> TimerStates]
    BY <2>1
  <2>3. flushing' \in Int
    BY <2>1
  <2>6. flushDone' \in BOOLEAN
    BY <2>1, Zenon
  <2>4. WatchTypes'
    BY <2>1, <2>2, <2>3, <2>6
  <2>5. ArmedIsTimer' /\ StoppingUnarmed'
    BY <2>1
  <2> QED BY <2>4, <2>5
<1>5. ASSUME NEW f \in Timers, Submit(f) PROVE TimerInv'
  <2>a. \/ \E g \in Timers : leader' = [leader EXCEPT ![f] = g] /\ UNCHANGED lane
        \/ lane' = Append(lane, f) /\ UNCHANGED leader
    BY <1>5 DEF Submit, InFlight
  <2>b. Append(lane, f) \in Seq(Timers)
    BY AppendProperties
  <2>1. lane' \in Seq(Timers) /\ leader' \in [Timers -> Timers \cup {NoTimer}]
    BY <2>a, <2>b
  <2>2. /\ \E s \in {"following", "queued"} : state' = [state EXCEPT ![f] = s]
        /\ UNCHANGED <<events, pending, timer, batch, flushing, flushDone, stopping, stopped>>
    BY <1>5 DEF Submit, diskVars, stopVars
  <2> QED BY <2>1, <2>2
<1>6. ASSUME NEW f \in Timers, Refuse(f) \/ LeaveFlush(f) PROVE TimerInv'
  <2>1. /\ \E s \in {"failed", "free"} : state' = [state EXCEPT ![f] = s]
        /\ batch' \in {batch, [batch EXCEPT ![f] = {}]}
        /\ flushing' \in {flushing, flushing - 1} /\ flushDone' \in BOOLEAN
        /\ UNCHANGED <<events, pending, timer, leader, lane, stopping, stopped>>
    BY <1>6 DEF Refuse, LeaveFlush, diskVars, flushVars, stopVars
  <2>2. WatchTypes'
    BY <2>1
  <2>3. ArmedIsTimer' /\ StoppingUnarmed'
    BY <2>1
  <2> QED BY <2>2, <2>3
<1>7. ASSUME NEW f \in Timers, Start(f) PROVE TimerInv'
  <2>1. lane' \in Seq(Timers)
    BY <1>7 DEF Start
  <2>2. /\ state' = [state EXCEPT ![f] = "running"]
        /\ UNCHANGED <<events, pending, timer, batch, leader, flushing, flushDone, stopping, stopped>>
    BY <1>7 DEF Start, diskVars, stopVars
  <2> QED BY <2>1, <2>2
<1>8. ASSUME NEW f \in Timers, Succeed(f) \/ JobFails(f) PROVE TimerInv'
  <2>1. /\ \E s \in {"succeeded", "failed"} : EndAs(f, s)
        /\ UNCHANGED <<events, pending, timer, batch, lane, flushing, flushDone, stopping, stopped>>
    BY <1>8 DEF Succeed, JobFails, stopVars
  <2> QED BY <2>1 DEF EndAs
<1>9. ASSUME NEW f \in Timers, Restore(f) PROVE TimerInv'
  BY <1>9 DEF Restore, Arm, diskVars, stopVars
<1>10. CASE BeginStop
  BY <1>10 DEF BeginStop, Cancelled, flushVars
<1>11. CASE EndStop
  BY <1>11 DEF EndStop, diskVars, flushVars
<1>12. CASE UNCHANGED watchVars
  BY <1>12 DEF watchVars, diskVars, flushVars, stopVars
<1> QED
  BY <1>1, <1>2, <1>3, <1>4, <1>5, <1>6, <1>7, <1>8, <1>9, <1>10, <1>11, <1>12 DEF WatchNext

\* The end of a job moves its flush and its followers.
LEMMA JobEnds ==
  ASSUME TimerInv, JobInv, NEW f \in Timers, state[f] = "running", NEW s, EndAs(f, s)
  PROVE  /\ state'[f] = s
         /\ \A g \in Timers : g # f => \/ leader[g] = f /\ state[g] = "following" /\ state'[g] = s
                                       \/ leader[g] # f /\ state'[g] = state[g]
BY WatchAssumption DEF EndAs, TimerInv, WatchTypes, JobInv, FollowersFollow

LEMMA JobsStep == TimerInv /\ JobInv /\ [WatchNext]_watchVars => JobInv'
<1> SUFFICES ASSUME TimerInv, JobInv, [WatchNext]_watchVars PROVE JobInv'
  OBVIOUS
<1> USE WatchAssumption DEF TimerInv, WatchTypes, TimerStates
<1>a. \A i \in 1..Len(lane) : lane[i] \in Timers
  OBVIOUS
\* The job side does not see timers that are armed, fire or go.
<1>0. ASSUME UNCHANGED <<leader, lane>>,
             \A f \in Timers : \/ state'[f] = state[f] /\ batch'[f] = batch[f]
                               \/ state[f] \notin {"queued", "running", "following"}
                                  /\ state'[f] \notin {"queued", "running", "following", "leaving"}
      PROVE  JobInv'
  <2>1. FollowersFollow'
    BY <1>0 DEF JobInv, FollowersFollow
  <2>2. LaneQueues'
    BY <1>0, <1>a DEF JobInv, LaneQueues
  <2>3. OneRuns' /\ LeavesEmpty'
    BY <1>0 DEF JobInv, OneRuns, LeavesEmpty
  <2> QED BY <2>1, <2>2, <2>3 DEF JobInv
<1>1. ASSUME NEW p \in Paths, Change(p) PROVE JobInv'
  BY <1>0, <1>1 DEF Change
<1>2. ASSUME NEW p \in Paths, Enqueue(p) PROVE JobInv'
  BY <1>0, <1>2 DEF Enqueue, Arm, Cancelled, flushVars
<1>3. ASSUME NEW f \in Timers, Fire(f) \/ SkipFlush(f) PROVE JobInv'
  BY <1>0, <1>3 DEF Fire, SkipFlush, flushVars
<1>4. ASSUME NEW f \in Timers, TakeBatch(f) PROVE JobInv'
  BY <1>0, <1>4 DEF TakeBatch
<1>5. ASSUME NEW f \in Timers, Refuse(f) \/ LeaveFlush(f) PROVE JobInv'
  BY <1>0, <1>5 DEF Refuse, LeaveFlush, flushVars
<1>6. ASSUME NEW f \in Timers, Submit(f) PROVE JobInv'
  <2>1. state[f] = "calling" /\ UNCHANGED batch
    BY <1>6 DEF Submit
  <2>2. \A i \in 1..Len(lane) : lane[i] # f
    BY <2>1 DEF JobInv, LaneQueues
  <2>3. CASE \E g \in InFlight : /\ state' = [state EXCEPT ![f] = "following"]
                                 /\ leader' = [leader EXCEPT ![f] = g]
                                 /\ UNCHANGED lane
    <3>1. FollowersFollow' /\ OneRuns' /\ LeavesEmpty'
      BY <2>1, <2>3 DEF JobInv, FollowersFollow, OneRuns, LeavesEmpty
    <3>a. lane' = lane /\ \A g \in Timers : g # f => state'[g] = state[g]
      BY <2>3
    <3>2. LaneQueues'
      BY <1>a, <2>2, <3>a DEF JobInv, LaneQueues
    <3> QED BY <3>1, <3>2 DEF JobInv
  <2>4. CASE state' = [state EXCEPT ![f] = "queued"] /\ lane' = Append(lane, f) /\ UNCHANGED leader
    <3>1. FollowersFollow' /\ OneRuns' /\ LeavesEmpty'
      BY <2>1, <2>4 DEF JobInv, FollowersFollow, OneRuns, LeavesEmpty
    <3>2. /\ Len(lane') = Len(lane) + 1 /\ lane'[Len(lane) + 1] = f
          /\ \A i \in 1..Len(lane) : lane'[i] = lane[i]
      BY <2>4
    <3>b. Len(lane) \in Nat
      BY LenProperties
    <3>c. \A i \in 1..(Len(lane) + 1) : i \in 1..Len(lane) \/ i = Len(lane) + 1
      BY <3>b
    <3>3. \A i \in 1..Len(lane') :
            (i \in 1..Len(lane) /\ lane'[i] = lane[i]) \/ (i = Len(lane) + 1 /\ lane'[i] = f)
      BY <3>2, <3>c
    <3>4. \A i \in 1..Len(lane') : state'[lane'[i]] = "queued"
      BY <1>a, <2>4, <3>3 DEF JobInv, LaneQueues
    <3>5. \A i, j \in 1..Len(lane') : lane'[i] = lane'[j] => i = j
      BY <2>2, <3>3 DEF JobInv, LaneQueues
    <3>6. LaneQueues'
      BY <3>4, <3>5 DEF LaneQueues
    <3> QED BY <3>1, <3>6 DEF JobInv
  <2> QED BY <1>6, <2>3, <2>4 DEF Submit
<1>7. ASSUME NEW f \in Timers, Start(f) PROVE JobInv'
  <2>1. /\ lane # <<>> /\ f = Head(lane) /\ lane' = Tail(lane)
        /\ \A g \in Timers : state[g] # "running"
        /\ state' = [state EXCEPT ![f] = "running"] /\ UNCHANGED <<batch, leader>>
    BY <1>7 DEF Start
  <2>2. /\ Len(lane) \in Nat \ {0} /\ Len(lane') = Len(lane) - 1 /\ f = lane[1]
        /\ \A i \in 1..Len(lane') : lane'[i] = lane[i + 1] /\ i + 1 \in 1..Len(lane)
    BY <2>1
  <2>3. state[f] = "queued"
    BY <2>2 DEF JobInv, LaneQueues
  <2>4. \A i \in 1..Len(lane') : lane'[i] # f
    BY <2>2 DEF JobInv, LaneQueues
  <2>5. LaneQueues'
    <3>1. \A i \in 1..Len(lane') : state'[lane'[i]] = "queued"
      BY <1>a, <2>1, <2>2, <2>4 DEF JobInv, LaneQueues
    <3>2. ASSUME NEW i \in 1..Len(lane'), NEW j \in 1..Len(lane'), lane'[i] = lane'[j]
          PROVE  i = j
      <4>1. lane[i + 1] = lane[j + 1] /\ i + 1 \in 1..Len(lane) /\ j + 1 \in 1..Len(lane)
        BY <2>2, <3>2
      <4>2. i + 1 = j + 1
        BY <4>1 DEF JobInv, LaneQueues
      <4> QED BY <4>2
    <3> QED BY <3>1, <3>2 DEF LaneQueues
  <2>6. FollowersFollow' /\ OneRuns' /\ LeavesEmpty'
    BY <2>1, <2>3 DEF JobInv, FollowersFollow, OneRuns, LeavesEmpty
  <2> QED BY <2>5, <2>6 DEF JobInv
<1>8. ASSUME NEW f \in Timers, Succeed(f) \/ JobFails(f) PROVE JobInv'
  <2>1. PICK s \in {"succeeded", "failed"} : EndAs(f, s)
    BY <1>8 DEF Succeed, JobFails
  <2>2. state[f] = "running" /\ UNCHANGED <<batch, lane>>
    BY <1>8 DEF Succeed, JobFails
  <2>3. /\ state'[f] = s
        /\ \A g \in Timers : g # f => \/ leader[g] = f /\ state[g] = "following" /\ state'[g] = s
                                      \/ leader[g] # f /\ state'[g] = state[g]
    BY <2>1, <2>2, JobEnds
  <2>4. FollowersFollow'
    BY <2>1, <2>2, <2>3 DEF EndAs, JobInv, FollowersFollow
  <2>5. LaneQueues'
    BY <1>a, <2>2, <2>3 DEF JobInv, LaneQueues
  <2>6. OneRuns' /\ LeavesEmpty'
    BY <2>2, <2>3 DEF JobInv, OneRuns, LeavesEmpty
  <2> QED BY <2>4, <2>5, <2>6 DEF JobInv
<1>9. ASSUME NEW f \in Timers, Restore(f) PROVE JobInv'
  <2>1. /\ state[f] = "failed" /\ state'[f] = "leaving" /\ batch'[f] = {}
        /\ \A g \in Timers : g # f => batch'[g] = batch[g]
        /\ \A g \in Timers : g # f => \/ state'[g] = state[g]
                                      \/ state[g] = "free" /\ state'[g] = "armed"
        /\ UNCHANGED <<leader, lane>>
    BY <1>9 DEF Restore, Arm
  <2>2. FollowersFollow' /\ OneRuns' /\ LeavesEmpty'
    BY <2>1 DEF JobInv, FollowersFollow, OneRuns, LeavesEmpty
  <2>3. LaneQueues'
    BY <1>a, <2>1 DEF JobInv, LaneQueues
  <2> QED BY <2>2, <2>3 DEF JobInv
<1>10. CASE BeginStop
  BY <1>0, <1>10 DEF BeginStop, Cancelled, flushVars
<1>11. CASE EndStop
  BY <1>0, <1>11 DEF EndStop, flushVars
<1>12. CASE UNCHANGED watchVars
  BY <1>0, <1>12 DEF watchVars, flushVars
<1> QED
  BY <1>1, <1>2, <1>3, <1>4, <1>5, <1>6, <1>7, <1>8, <1>9, <1>10, <1>11, <1>12 DEF WatchNext

\* The counter of flushes: entering and leaving are the only changes.
LEMMA CountsStep ==
  TimerInv /\ JobInv /\ CountsFlushes /\ [WatchNext]_watchVars => CountsFlushes'
<1> SUFFICES ASSUME TimerInv, JobInv, CountsFlushes, [WatchNext]_watchVars PROVE CountsFlushes'
  OBVIOUS
<1> USE WatchAssumption DEF TimerInv, WatchTypes, TimerStates
<1>a. Flushing = {f \in Timers : state[f] \in FlushStates}
  BY DEF Flushing, FlushStates
<1>b. Flushing' = {f \in Timers : state'[f] \in FlushStates}
  BY DEF Flushing, FlushStates
<1>c. IsFiniteSet(Flushing) /\ Cardinality(Flushing) \in Nat
  BY <1>a, FS_Subset, FS_CardinalityType
\* Steps that neither enter nor leave.
<1>0. ASSUME UNCHANGED <<flushing, flushDone>>,
             \A f \in Timers : state'[f] = state[f]
                               \/ (state'[f] \in FlushStates /\ state[f] \in FlushStates)
                               \/ (state'[f] \notin FlushStates /\ state[f] \notin FlushStates)
      PROVE  CountsFlushes'
  <2>1. Flushing' = Flushing
    BY <1>0, <1>a, <1>b
  <2>2. Cardinality(Flushing)' = Cardinality(Flushing)
    BY <2>1
  <2> QED BY <1>0, <2>2 DEF CountsFlushes
<1> USE DEF FlushStates
<1>1. ASSUME NEW p \in Paths, Change(p) PROVE CountsFlushes'
  BY <1>0, <1>1 DEF Change
<1>2. ASSUME NEW p \in Paths, Enqueue(p) PROVE CountsFlushes'
  BY <1>0, <1>2 DEF Enqueue, Arm, Cancelled
<1>3. ASSUME NEW f \in Timers, Fire(f) \/ SkipFlush(f) PROVE CountsFlushes'
  BY <1>0, <1>3 DEF Fire, SkipFlush
<1>4. ASSUME NEW f \in Timers, TakeBatch(f) PROVE CountsFlushes'
  <2>1. CASE pending = {}
    <3>1. state[f] = "started" /\ state' = [state EXCEPT ![f] = "free"] /\ UNCHANGED <<flushing, flushDone>>
      BY <1>4, <2>1 DEF TakeBatch
    <3> QED BY <1>0, <3>1
  <2>2. CASE pending # {}
    <3>1. /\ state[f] = "started" /\ state' = [state EXCEPT ![f] = "calling"]
          /\ flushing' = flushing + 1 /\ flushDone' = FALSE
      BY <1>4, <2>2 DEF TakeBatch
    <3>2. f \notin Flushing /\ Flushing' = Flushing \cup {f}
      BY <3>1, <1>a, <1>b
    <3>3. Cardinality(Flushing \cup {f}) = Cardinality(Flushing) + 1
      BY <1>c, <3>2, FS_AddElement
    <3>4. Cardinality(Flushing)' = Cardinality(Flushing \cup {f})
      BY <3>2
    <3> QED BY <1>c, <3>1, <3>3, <3>4 DEF CountsFlushes
  <2> QED BY <2>1, <2>2
<1>5. ASSUME NEW f \in Timers, Submit(f) \/ Refuse(f) PROVE CountsFlushes'
  BY <1>0, <1>5 DEF Submit, Refuse
<1>6. ASSUME NEW f \in Timers, Start(f) PROVE CountsFlushes'
  <2>1. state[f] = "queued"
    BY <1>6 DEF Start, JobInv, LaneQueues
  <2> QED BY <1>0, <1>6, <2>1 DEF Start
<1>7. ASSUME NEW f \in Timers, Succeed(f) \/ JobFails(f) PROVE CountsFlushes'
  <2>1. PICK s \in {"succeeded", "failed"} : EndAs(f, s)
    BY <1>7 DEF Succeed, JobFails
  <2>2. state[f] = "running" /\ UNCHANGED <<flushing, flushDone>>
    BY <1>7 DEF Succeed, JobFails
  <2>3. /\ state'[f] = s
        /\ \A g \in Timers : g # f => \/ leader[g] = f /\ state[g] = "following" /\ state'[g] = s
                                      \/ leader[g] # f /\ state'[g] = state[g]
    BY <2>1, <2>2, JobEnds
  <2> QED BY <1>0, <2>2, <2>3
<1>8. ASSUME NEW f \in Timers, Restore(f) PROVE CountsFlushes'
  BY <1>0, <1>8 DEF Restore, Arm
<1>9. ASSUME NEW f \in Timers, LeaveFlush(f) PROVE CountsFlushes'
  <2>1. /\ state[f] \in FlushStates /\ state' = [state EXCEPT ![f] = "free"]
        /\ flushing' = flushing - 1
    BY <1>9 DEF LeaveFlush
  <2>a. flushDone' <=> (flushDone \/ flushing = 1)
    BY <1>9, Zenon DEF LeaveFlush
  <2>2. f \in Flushing /\ Flushing' = Flushing \ {f}
    BY <2>1, <1>a, <1>b
  <2>3. Cardinality(Flushing \ {f}) = Cardinality(Flushing) - 1
    BY <1>c, <2>2, FS_RemoveElement
  <2>4. Cardinality(Flushing)' = Cardinality(Flushing \ {f})
    BY <2>2
  <2>5. Cardinality(Flushing) # 0
    BY <1>c, <2>2, FS_EmptySet
  <2>6. flushing' = Cardinality(Flushing)' /\ flushing # 0
    BY <1>c, <2>1, <2>3, <2>4, <2>5 DEF CountsFlushes
  <2>7. flushDone' <=> flushing' = 0
    <3>1. ~flushDone
      BY <2>6 DEF CountsFlushes
    <3>2. flushing = 1 <=> flushing' = 0
      BY <2>1
    <3> QED BY <2>a, <3>1, <3>2
  <2> QED BY <2>6, <2>7 DEF CountsFlushes
<1>10. CASE BeginStop
  BY <1>0, <1>10 DEF BeginStop, Cancelled
<1>11. CASE EndStop
  BY <1>0, <1>11 DEF EndStop
<1>12. CASE UNCHANGED watchVars
  BY <1>0, <1>12 DEF watchVars
<1> QED
  BY <1>1, <1>2, <1>3, <1>4, <1>5, <1>6, <1>7, <1>8, <1>9, <1>10, <1>11, <1>12 DEF WatchNext

\* Once stopping no flush enters, and stop() returns when none is inside.
LEMMA DrainedStep ==
  TimerInv /\ JobInv /\ CountsFlushes /\ Drained /\ [WatchNext]_watchVars => Drained'
<1> SUFFICES ASSUME TimerInv, JobInv, CountsFlushes, Drained, [WatchNext]_watchVars PROVE Drained'
  OBVIOUS
<1> USE WatchAssumption DEF TimerInv, WatchTypes, TimerStates
<1>a. Flushing = {f \in Timers : state[f] \in FlushStates}
  BY DEF Flushing, FlushStates
<1>b. Flushing' = {f \in Timers : state'[f] \in FlushStates}
  BY DEF Flushing, FlushStates
<1>1. CASE EndStop
  <2>1. stopping' /\ UNCHANGED <<state, stopping>> /\ flushDone
    BY <1>1 DEF EndStop
  <2>2. IsFiniteSet(Flushing) /\ Cardinality(Flushing) = 0
    BY <1>a, <2>1, FS_Subset DEF CountsFlushes
  <2>3. Flushing = {}
    BY <2>2, FS_EmptySet
  <2>4. Flushing' = {}
    BY <1>a, <1>b, <2>1, <2>3
  <2> QED BY <2>1, <2>4 DEF Drained
<1>2. ASSUME stopped' = stopped, stopping => stopping',
             \A f \in Timers : stopping /\ state'[f] \in FlushStates => state[f] \in FlushStates
      PROVE  Drained'
  BY <1>2, <1>a, <1>b DEF Drained
<1> USE DEF FlushStates
<1>3. ASSUME NEW p \in Paths, Change(p) \/ Enqueue(p) PROVE Drained'
  BY <1>2, <1>3 DEF Change, Enqueue, Arm, Cancelled, stopVars
<1>4. ASSUME NEW f \in Timers, Fire(f) \/ SkipFlush(f) \/ TakeBatch(f) PROVE Drained'
  BY <1>2, <1>4 DEF Fire, SkipFlush, TakeBatch, stopVars
<1>5. ASSUME NEW f \in Timers, Submit(f) \/ Refuse(f) \/ LeaveFlush(f) PROVE Drained'
  BY <1>2, <1>5 DEF Submit, Refuse, LeaveFlush, stopVars
<1>6. ASSUME NEW f \in Timers, Start(f) PROVE Drained'
  <2>1. state[f] = "queued"
    BY <1>6 DEF Start, JobInv, LaneQueues
  <2> QED BY <1>2, <1>6, <2>1 DEF Start, stopVars
<1>7. ASSUME NEW f \in Timers, Succeed(f) \/ JobFails(f) PROVE Drained'
  <2>1. PICK s \in {"succeeded", "failed"} : EndAs(f, s)
    BY <1>7 DEF Succeed, JobFails
  <2>2. state[f] = "running" /\ UNCHANGED <<stopping, stopped>>
    BY <1>7 DEF Succeed, JobFails, stopVars
  <2>3. \A g \in Timers : g = f \/ state[g] = "following" \/ state'[g] = state[g]
    BY <2>1, <2>2, JobEnds
  <2> QED BY <1>2, <2>2, <2>3
<1>8. ASSUME NEW f \in Timers, Restore(f) PROVE Drained'
  BY <1>2, <1>8 DEF Restore, Arm, stopVars
<1>9. CASE BeginStop
  BY <1>2, <1>9 DEF BeginStop, Cancelled
<1>10. CASE UNCHANGED watchVars
  BY <1>2, <1>10 DEF watchVars, stopVars
<1> QED
  BY <1>1, <1>3, <1>4, <1>5, <1>6, <1>7, <1>8, <1>9, <1>10 DEF WatchNext

\* What is on its way stays on its way: an event or a pending file becomes a
\* batch, and a batch inside stays inside or goes back.
Inside == FlushStates \ {"succeeded"}
NothingLost ==
  /\ \A p \in events \cup pending :
       \/ p \in events' \cup pending'
       \/ \E g \in Timers : state'[g] = "calling" /\ p \in batch'[g]
  /\ \A g \in Timers : state[g] \in Inside =>
       \A p \in batch[g] : p \in pending' \/ (state'[g] \in Inside /\ p \in batch'[g])

LEMMA TracksOn ==
  ASSUME TimerInv, JobInv, [WatchNext]_watchVars, ~stopping', ~(\E f \in Timers : Succeed(f))
  PROVE  NothingLost
<1> USE WatchAssumption DEF TimerInv, WatchTypes, TimerStates
\* The batches stay where they are.
<1>0. ASSUME \A p \in events \cup pending : p \in events' \cup pending',
             \A g \in Timers : state[g] \in Inside => state'[g] \in Inside /\ batch'[g] = batch[g]
      PROVE  NothingLost
  BY <1>0 DEF NothingLost
<1> USE DEF FlushStates, Inside
<1>1. ASSUME NEW p \in Paths, Change(p) \/ Enqueue(p) PROVE NothingLost
  BY <1>0, <1>1 DEF Change, Enqueue, Arm, Cancelled, flushVars
<1>2. ASSUME NEW f \in Timers, Fire(f) \/ SkipFlush(f) PROVE NothingLost
  BY <1>0, <1>2 DEF Fire, SkipFlush, diskVars, flushVars
<1>3. ASSUME NEW f \in Timers, TakeBatch(f) PROVE NothingLost
  <2>1. /\ state[f] = "started" /\ events' = events /\ batch' = [batch EXCEPT ![f] = pending]
        /\ state' = [state EXCEPT ![f] = IF pending = {} THEN "free" ELSE "calling"]
    BY <1>3 DEF TakeBatch, diskVars
  <2>2. \A p \in pending : state'[f] = "calling" /\ p \in batch'[f]
    BY <2>1
  <2>3. \A g \in Timers : state[g] \in Inside => state'[g] = state[g] /\ batch'[g] = batch[g]
    BY <2>1
  <2> QED BY <2>1, <2>2, <2>3 DEF NothingLost
<1>4. ASSUME NEW f \in Timers, Submit(f) \/ Refuse(f) PROVE NothingLost
  BY <1>0, <1>4 DEF Submit, Refuse, diskVars, flushVars
<1>5. ASSUME NEW f \in Timers, Start(f) PROVE NothingLost
  BY <1>0, <1>5 DEF Start, diskVars
<1>6. ASSUME NEW f \in Timers, JobFails(f) PROVE NothingLost
  <2>1. state[f] = "running" /\ EndAs(f, "failed") /\ UNCHANGED <<batch, events, pending>>
    BY <1>6 DEF JobFails
  <2>2. \A g \in Timers : state'[g] \in {"failed", state[g]}
    BY <2>1 DEF EndAs
  <2> QED BY <1>0, <2>1, <2>2
<1>7. ASSUME NEW f \in Timers, Restore(f) PROVE NothingLost
  <2>1. /\ UNCHANGED <<events, stopping>> /\ state[f] = "failed"
        /\ pending' = pending \cup batch[f] /\ batch' = [batch EXCEPT ![f] = {}]
        /\ \A g \in Timers : g # f => state'[g] = state[g] \/ state[g] = "free"
    BY <1>7 DEF Restore, Arm, diskVars, stopVars
  <2> QED BY <2>1 DEF NothingLost
<1>8. ASSUME NEW f \in Timers, LeaveFlush(f) PROVE NothingLost
  <2>1. /\ state[f] \in {"succeeded", "leaving"} /\ UNCHANGED <<events, pending>>
        /\ \A g \in Timers : g # f => state'[g] = state[g] /\ batch'[g] = batch[g]
    BY <1>8 DEF LeaveFlush, diskVars
  <2>2. state[f] \in Inside => batch[f] = {}
    BY <2>1 DEF JobInv, LeavesEmpty
  <2> QED BY <2>1, <2>2 DEF NothingLost
<1>9. CASE EndStop
  BY <1>0, <1>9 DEF EndStop, diskVars, flushVars
<1>10. CASE UNCHANGED watchVars
  BY <1>0, <1>10 DEF watchVars, diskVars, flushVars
<1>11. ~BeginStop
  BY DEF BeginStop
<1> QED
  BY <1>1, <1>2, <1>3, <1>4, <1>5, <1>6, <1>7, <1>8, <1>9, <1>10, <1>11 DEF WatchNext

\* While a job runs, a file that changes under it is seen to again.
LEMMA ChangedStep ==
  TimerInv /\ JobInv /\ ChangedAgain /\ [WatchNext]_watchVars => ChangedAgain'
<1> SUFFICES ASSUME TimerInv, JobInv, ChangedAgain, [WatchNext]_watchVars, ~stopping',
                    NEW f \in Timers, state'[f] = "running", NEW p \in batch'[f] \ unread'
             PROVE  Elsewhere(f, p)'
  BY DEF ChangedAgain
<1> USE WatchAssumption DEF TimerInv, WatchTypes, TimerStates
<1>a. Flushing = {g \in Timers : state[g] \in FlushStates}
  BY DEF Flushing, FlushStates
<1>b. Flushing' = {g \in Timers : state'[g] \in FlushStates}
  BY DEF Flushing, FlushStates
<1>1. ~stopping
  BY DEF WatchNext, watchVars, stopVars, Change, Enqueue, Fire, SkipFlush, TakeBatch, Submit,
         Refuse, Start, Succeed, JobFails, Restore, LeaveFlush, BeginStop, EndStop
\* A job has just begun only if its files have not changed yet, and none runs
\* after one has ended.
<1>2. \A g \in Timers : ~Start(g)
  <2> SUFFICES ASSUME NEW g \in Timers, Start(g) PROVE FALSE
    OBVIOUS
  <2>1. /\ \A h \in Timers : state[h] # "running"
        /\ state' = [state EXCEPT ![g] = "running"] /\ unread' = batch[g] /\ batch' = batch
    BY DEF Start
  <2>2. f = g
    BY <2>1
  <2> QED BY <2>1, <2>2
<1>3. \A g \in Timers : ~Succeed(g) /\ ~JobFails(g)
  <2> SUFFICES ASSUME NEW g \in Timers, Succeed(g) \/ JobFails(g) PROVE FALSE
    OBVIOUS
  <2>1. PICK s \in {"succeeded", "failed"} : EndAs(g, s)
    BY DEF Succeed, JobFails
  <2>2. state[g] = "running"
    BY DEF Succeed, JobFails
  <2>3. state[f] = "running" /\ f # g
    BY <2>1 DEF EndAs
  <2> QED BY <2>2, <2>3 DEF JobInv, OneRuns
<1>4. state[f] = "running" /\ batch'[f] = batch[f]
  BY <1>2, <1>3 DEF WatchNext, watchVars, flushVars, Change, Enqueue, Arm, Cancelled, Fire,
     SkipFlush, TakeBatch, Submit, Refuse, Restore, LeaveFlush, BeginStop, EndStop
<1>5. CASE \E q \in Paths : Change(q)
  <2>1. PICK q \in Paths : Change(q)
    BY <1>5
  <2>2. /\ events' = events \cup {q} /\ unread' = unread \ {q}
        /\ UNCHANGED <<pending, state, batch>>
    BY <2>1 DEF Change
  <2>3. CASE p = q
    BY <2>2, <2>3 DEF Elsewhere
  <2>4. CASE p # q
    <3>1. Elsewhere(f, p)
      BY <1>1, <1>4, <2>2, <2>4 DEF ChangedAgain
    <3> QED BY <1>a, <1>b, <2>2, <3>1 DEF Elsewhere
  <2> QED BY <2>3, <2>4
<1>6. CASE ~\E q \in Paths : Change(q)
  <2>1. unread' = unread
    BY <1>2, <1>3, <1>6 DEF WatchNext, watchVars, flushVars, Enqueue, Fire, SkipFlush,
       TakeBatch, Submit, Refuse, Restore, LeaveFlush, BeginStop, EndStop
  <2>2. Elsewhere(f, p)
    BY <1>1, <1>4, <2>1 DEF ChangedAgain
  <2>3. NothingLost
    BY <1>3, TracksOn
  <2>4. CASE p \in events \cup pending
    BY <1>b, <1>4, <2>3, <2>4 DEF NothingLost, Elsewhere, FlushStates
  <2>5. CASE \E g \in Flushing : g # f /\ state[g] # "succeeded" /\ p \in batch[g]
    <3>1. PICK g \in Timers : g # f /\ state[g] \in Inside /\ p \in batch[g]
      BY <1>a, <2>5 DEF Inside
    <3>2. p \in pending' \/ (state'[g] \in Inside /\ p \in batch'[g])
      BY <2>3, <3>1 DEF NothingLost
    <3> QED BY <1>b, <3>1, <3>2 DEF Elsewhere, Inside
  <2> QED BY <2>2, <2>4, <2>5 DEF Elsewhere
<1> QED BY <1>5, <1>6

LEMMA WatchStep == WatchInv /\ [WatchNext]_watchVars => WatchInv'
BY TimersStep, JobsStep, CountsStep, DrainedStep, ChangedStep DEF WatchInv, JobInv

\* After stop() has returned no flush is inside a job and no timer waits to
\* start one, however many flushes were under way, failed or were retried: the
\* daemon may give up its instance lock (_ProjectWatch.stop).
THEOREM StopDrains == WatchSpec => []DrainedStop
<1>1. WatchInv => DrainedStop
  BY DEF WatchInv, TimerInv, StoppingUnarmed, Drained, DrainedStop
<1> QED BY <1>1, WatchStarts, WatchStep, PTL DEF WatchSpec

\* Through failed jobs, refusals, retries and changes under a running job, the
\* watch loses sight of a changed file only when its batch followed another
\* flush's job, or when the job could not index the file as it still is and
\* returned normally (_ProjectWatch._flush, HeavyWorkCoordinator.run, index_paths).
THEOREM ChangesAreTracked == WatchSpec => LostOnlyByKnownGaps
<1>1. ASSUME WatchInv, [WatchNext]_watchVars, NEW p \in dirty', p \in Tracked, p \notin Tracked',
             ~stopping'
      PROVE  \E f \in Timers : /\ p \in batch[f] /\ state'[f] = "succeeded"
                               /\ \/ state[f] = "following"
                                  \/ state[f] = "running" /\ p \in unread
  <2> USE <1>1, WatchAssumption DEF WatchInv, TimerInv, WatchTypes, TimerStates
  <2>a. \A q : q \in Tracked <=> \/ q \in events \cup pending
                                 \/ \E g \in Timers : state[g] \in Inside /\ q \in batch[g]
    BY DEF Tracked, Flushing, Inside, FlushStates
  <2>b. \A q : q \in Tracked' <=> \/ q \in events' \cup pending'
                                  \/ \E g \in Timers : state'[g] \in Inside /\ q \in batch'[g]
    BY DEF Tracked, Flushing, Inside, FlushStates
  <2>1. PICK f \in Timers : Succeed(f)
    <3>1. SUFFICES ASSUME ~\E f \in Timers : Succeed(f) PROVE p \in Tracked'
      OBVIOUS
    <3>2. NothingLost
      BY <3>1, TracksOn
    <3> QED BY <2>a, <2>b, <3>2 DEF NothingLost, Inside, FlushStates
  <2>2. /\ state[f] = "running" /\ EndAs(f, "succeeded")
        /\ UNCHANGED <<events, pending, batch, stopping>>
    BY <2>1 DEF Succeed, stopVars
  <2>3. \A g \in Timers : g # f => \/ leader[g] = f /\ state[g] = "following" /\ state'[g] = "succeeded"
                                   \/ leader[g] # f /\ state'[g] = state[g]
    BY <2>2, JobEnds
  <2>4. p \notin events \cup pending
    BY <2>b, <2>2
  <2>7. CASE p \in batch[f] \cap unread
    <3>1. state'[f] = "succeeded"
      BY <2>2 DEF EndAs
    <3> QED BY <2>2, <2>7, <3>1
  <2>8. CASE p \notin batch[f] \cap unread
    <3>5. PICK g \in Timers : g # f /\ state[g] \in Inside /\ p \in batch[g]
      <4>1. PICK h \in Timers : state[h] \in Inside /\ p \in batch[h]
        BY <2>a, <2>4
      <4>2. CASE h = f
        <5>1. Elsewhere(f, p)
          BY <2>2, <2>8, <4>1, <4>2 DEF ChangedAgain
        <5> QED BY <2>4, <5>1 DEF Elsewhere, Flushing, Inside, FlushStates
      <4> QED BY <4>1, <4>2
    <3>6. state'[g] # state[g]
      BY <2>b, <2>2, <3>5
    <3> QED BY <2>3, <3>5, <3>6
  <2> QED BY <2>7, <2>8
<1>2. WatchInv /\ [WatchNext]_watchVars =>
        [\A p \in dirty' : p \in Tracked /\ p \notin Tracked' /\ ~stopping'
           => \E f \in Timers : /\ p \in batch[f] /\ state'[f] = "succeeded"
                                /\ \/ state[f] = "following"
                                   \/ state[f] = "running" /\ p \in unread]_watchVars
  BY <1>1
<1> QED BY <1>2, WatchStarts, WatchStep, PTL DEF WatchSpec, LostOnlyByKnownGaps

\* The counters: each event is enqueued once, so the generation cannot pass the number
\* of changes.
Bounds ==
  /\ dirty \subseteq Paths /\ unread \subseteq Paths
  /\ changes \in 0..MaxChanges /\ failures \in 0..MaxFailures
  /\ generation \in Nat /\ gen \in [Timers -> 0..MaxChanges]
  /\ IsFiniteSet(events) /\ generation + Cardinality(events) <= changes

LEMMA BoundsStep == TimerInv /\ Bounds /\ [WatchNext]_watchVars => Bounds'
<1> SUFFICES ASSUME TimerInv, Bounds, [WatchNext]_watchVars PROVE Bounds'
  OBVIOUS
<1> USE WatchAssumption DEF TimerInv, WatchTypes, Bounds
<1>c. Cardinality(events) \in Nat
  BY FS_CardinalityType
\* The events stay, and a flush may take the generation.
<1>0. ASSUME UNCHANGED <<events, changes, generation>>, dirty' \subseteq Paths,
             unread' \subseteq Paths, failures' \in 0..MaxFailures,
             \/ gen' = gen
             \/ \E f \in Timers : gen' = [gen EXCEPT ![f] = generation]
             \/ \E f \in Timers : gen' = [gen EXCEPT ![f] = 0]
      PROVE  Bounds'
  <2>1. generation \in 0..MaxChanges /\ 0 \in 0..MaxChanges
    BY <1>c
  <2>2. gen' \in [Timers -> 0..MaxChanges]
    BY <1>0, <2>1
  <2>3. IsFiniteSet(events)' /\ Cardinality(events)' = Cardinality(events)
    BY <1>0
  <2>q. QED BY <1>0, <2>2, <2>3
<1>1. ASSUME NEW p \in Paths, Change(p) PROVE Bounds'
  <2>1. /\ changes < MaxChanges /\ changes' = changes + 1 /\ dirty' = dirty \cup {p}
        /\ events' = events \cup {p} /\ unread' = unread \ {p}
        /\ UNCHANGED <<failures, generation, gen>>
    BY <1>1 DEF Change
  <2>2. IsFiniteSet(events \cup {p}) /\ Cardinality(events \cup {p}) <= Cardinality(events) + 1
    <3>1. IsFiniteSet(events \cup {p}) /\ Cardinality(events \cup {p}) \in {Cardinality(events), Cardinality(events) + 1}
      BY FS_AddElement
    <3>q. QED BY <1>c, <3>1
  <2>3. IsFiniteSet(events)' /\ Cardinality(events)' = Cardinality(events \cup {p})
    BY <2>1, <2>2
  <2>4. Cardinality(events)' \in Nat
    BY <2>2, <2>3, FS_CardinalityType
  <2>q. QED BY <1>c, <2>1, <2>2, <2>3, <2>4
<1>2. ASSUME NEW p \in Paths, Enqueue(p) PROVE Bounds'
  <2>1. /\ p \in events /\ events' = events \ {p} /\ generation' = generation + 1
        /\ UNCHANGED <<dirty, changes, failures, unread, gen>>
    BY <1>2 DEF Enqueue, flushVars
  <2>2. IsFiniteSet(events \ {p}) /\ Cardinality(events \ {p}) = Cardinality(events) - 1
    BY <2>1, FS_RemoveElement
  <2>3. IsFiniteSet(events)' /\ Cardinality(events)' = Cardinality(events \ {p})
    BY <2>1, <2>2
  <2>q. QED BY <1>c, <2>1, <2>2, <2>3
<1>3. ASSUME NEW f \in Timers, Fire(f) \/ SkipFlush(f) \/ TakeBatch(f) PROVE Bounds'
  BY <1>0, <1>3 DEF Fire, SkipFlush, TakeBatch, diskVars, flushVars
<1>4. ASSUME NEW f \in Timers, Submit(f) \/ Refuse(f) \/ Start(f) PROVE Bounds'
  BY <1>0, <1>4 DEF Submit, Refuse, Start, diskVars, flushVars
<1>5. ASSUME NEW f \in Timers, Succeed(f) \/ JobFails(f) PROVE Bounds'
  BY <1>0, <1>5 DEF Succeed, JobFails, EndAs
<1>6. ASSUME NEW f \in Timers, Restore(f) \/ LeaveFlush(f) PROVE Bounds'
  BY <1>0, <1>6 DEF Restore, LeaveFlush, diskVars
<1>7. CASE BeginStop
  <2>1. events' = {} /\ UNCHANGED <<dirty, changes, failures, generation, unread, gen>>
    BY <1>7 DEF BeginStop, flushVars
  <2>2. IsFiniteSet(events)' /\ Cardinality(events)' = 0
    BY <2>1, FS_EmptySet
  <2>q. QED BY <1>c, <2>1, <2>2
<1>8. CASE EndStop \/ UNCHANGED watchVars
  BY <1>0, <1>8 DEF EndStop, watchVars, diskVars, flushVars
<1> QED
  BY <1>1, <1>2, <1>3, <1>4, <1>5, <1>6, <1>7, <1>8 DEF WatchNext

\* Every variable of the watch keeps its type: the number of flushes inside goes neither
\* below zero nor above the number of timers, and the generation does not run away.
THEOREM WatchTypeCorrect == WatchSpec => []TypeOK
<1>1. WatchInit => Bounds
  <2> SUFFICES ASSUME WatchInit PROVE Bounds
    OBVIOUS
  <2>1. events = {} /\ IsFiniteSet(events) /\ Cardinality(events) = 0
    BY FS_EmptySet DEF WatchInit
  <2> QED BY <2>1, WatchAssumption DEF WatchInit, Bounds
<1>2. WatchInv /\ Bounds => TypeOK
  <2> SUFFICES ASSUME WatchInv, Bounds PROVE TypeOK
    OBVIOUS
  <2>1. Cardinality(events) \in Nat
    BY FS_CardinalityType DEF Bounds
  <2>2. generation \in 0..MaxChanges
    BY <2>1, WatchAssumption DEF Bounds
  <2>3. flushing \in 0..Cardinality(Timers)
    <3>1. Flushing \subseteq Timers
      BY DEF Flushing
    <3>2. /\ Cardinality(Flushing) \in Nat /\ Cardinality(Timers) \in Nat
          /\ Cardinality(Flushing) <= Cardinality(Timers)
      BY <3>1, WatchAssumption, FS_Subset, FS_CardinalityType
    <3> QED BY <3>2 DEF WatchInv, CountsFlushes
  <2> QED BY <2>2, <2>3 DEF WatchInv, TimerInv, WatchTypes, TimerStates, Bounds, TypeOK
<1> QED BY <1>1, <1>2, WatchStarts, WatchStep, BoundsStep, PTL DEF WatchSpec, WatchInv
=============================================================================
