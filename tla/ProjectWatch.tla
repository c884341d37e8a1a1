---------------------------- MODULE ProjectWatch ----------------------------
(***************************************************************************)
(* The watcher of one project: _ProjectWatch of watcher.py.  File events   *)
(* collect in a pending set behind a debounce timer.  The timer's thread   *)
(* takes the whole set as its batch and runs it as one background job of   *)
(* the project's lane; a batch whose job is refused or fails goes back to  *)
(* the pending set and a timer is armed again.                             *)
(*                                                                         *)
(* The lane is used as HeavyLane specifies it: background jobs of one      *)
(* project run one at a time and first come first served, and a call whose *)
(* key is in flight follows that job.  The key of a flush is its           *)
(* generation, everything else in it being the same for the whole project. *)
(*                                                                         *)
(* A timer is a thread, and timers are told apart: cancel() stops a timer  *)
(* that waits, not one whose callback has started.  Delays, retry backoff  *)
(* and jitter are left out: a timer that is armed may fire at any time.    *)
(***************************************************************************)
EXTENDS Integers, Sequences, FiniteSets

CONSTANTS Paths,        \* source files of the project
          Timers,       \* timer threads (bound: armed, started or flushing)
          NoTimer,         \* no timer
          MaxChanges,   \* bound: file changes of a behaviour
          MaxFailures   \* bound: jobs that are refused, fail or do not index every file

ASSUME WatchAssumption ==
  /\ IsFiniteSet(Timers)
  /\ NoTimer \notin Timers
  /\ MaxChanges \in Nat
  /\ MaxFailures \in Nat

VARIABLES
  dirty,       \* files whose content is not what the index holds
  events,      \* file events the observer has not delivered yet
  changes,     \* file changes so far
  failures,    \* jobs that were refused or failed, or indexed only some files, so far
  pending,     \* _pending
  generation,  \* _generation
  timer,       \* _timer
  state,       \* what each timer thread does
  batch,       \* the batch a flush took
  gen,         \* the generation in its key
  leader,      \* the flush whose job it follows
  lane,        \* the queued jobs of the project, oldest first
  unread,      \* of a running job: files not changed since it began
  flushing,    \* _flushing
  flushDone,   \* _flush_done
  stopping,    \* _stopping
  stopped      \* stop() has returned

diskVars == <<dirty, events, changes, failures>>
flushVars == <<batch, gen, leader, lane, unread>>
stopVars == <<stopping, stopped>>
watchVars == <<diskVars, pending, generation, timer, state, flushVars, flushing,
          flushDone, stopVars>>

InFlight == {f \in Timers : state[f] \in {"queued", "running"}}
Flushing == {f \in Timers : state[f] \in
              {"calling", "queued", "running", "following", "succeeded", "failed", "leaving"}}

WatchInit ==
  /\ dirty = {} /\ events = {} /\ changes = 0 /\ failures = 0
  /\ pending = {}
  /\ generation = 0
  /\ timer = NoTimer
  /\ state = [f \in Timers |-> "free"]
  /\ batch = [f \in Timers |-> {}]
  /\ gen = [f \in Timers |-> 0]
  /\ leader = [f \in Timers |-> NoTimer]
  /\ lane = <<>>
  /\ unread = {}
  /\ flushing = 0
  /\ flushDone = TRUE
  /\ stopping = FALSE
  /\ stopped = FALSE

-----------------------------------------------------------------------------
(* The file system and the observer thread.                                *)

Change(p) ==
  /\ changes < MaxChanges
  /\ changes' = changes + 1
  /\ dirty' = dirty \cup {p}
  /\ events' = events \cup {p}
  /\ unread' = unread \ {p}
  /\ UNCHANGED <<failures, pending, generation, timer, state, batch, gen, leader,
                 lane, flushing, flushDone, stopVars>>

\* state with the waiting timer t cancelled; a started callback goes on.
Cancelled(t) == [f \in Timers |-> IF f = t /\ state[f] = "armed" THEN "free" ELSE state[f]]

\* A new timer replaces the one on record.
Arm(states) ==
  \E f \in Timers : /\ states[f] = "free"
                    /\ timer' = f
                    /\ state' = [states EXCEPT ![f] = "armed"]

Enqueue(p) ==
  /\ p \in events /\ ~stopping
  /\ events' = events \ {p}
  /\ pending' = pending \cup {p}
  /\ generation' = generation + 1
  /\ Arm(Cancelled(timer))
  /\ UNCHANGED <<dirty, changes, failures, flushVars, flushing, flushDone, stopVars>>

-----------------------------------------------------------------------------
(* _flush, in the timer's thread.                                          *)

\* The timer fires: its callback has started and cannot be cancelled.
Fire(f) ==
  /\ state[f] = "armed"
  /\ state' = [state EXCEPT ![f] = "started"]
  /\ UNCHANGED <<diskVars, pending, generation, timer, flushVars, flushing, flushDone, stopVars>>

\* A stale callback, and one that finds the watch stopping, consumes nothing.
SkipFlush(f) ==
  /\ state[f] = "started"
  /\ timer # f \/ stopping
  /\ timer' = IF timer = f THEN NoTimer ELSE timer
  /\ state' = [state EXCEPT ![f] = "free"]
  /\ UNCHANGED <<diskVars, pending, generation, flushVars, flushing, flushDone, stopVars>>

TakeBatch(f) ==
  /\ state[f] = "started" /\ timer = f /\ ~stopping
  /\ batch' = [batch EXCEPT ![f] = pending]
  /\ gen' = [gen EXCEPT ![f] = generation]
  /\ pending' = {}
  /\ timer' = NoTimer
  /\ IF pending = {}
     THEN /\ state' = [state EXCEPT ![f] = "free"]
          /\ UNCHANGED <<flushing, flushDone>>
     ELSE /\ state' = [state EXCEPT ![f] = "calling"]
          /\ flushing' = flushing + 1
          /\ flushDone' = FALSE
  /\ UNCHANGED <<diskVars, generation, leader, lane, unread, stopVars>>

\* run() finds the key in flight and follows that job, or queues its own.
Submit(f) ==
  /\ state[f] = "calling"
  /\ LET same == {g \in InFlight : gen[g] = gen[f]}
     IN  \/ \E g \in same : /\ state' = [state EXCEPT ![f] = "following"]
                            /\ leader' = [leader EXCEPT ![f] = g]
                            /\ UNCHANGED lane
         \/ /\ same = {}
            /\ state' = [state EXCEPT ![f] = "queued"]
            /\ lane' = Append(lane, f)
            /\ UNCHANGED leader
  /\ UNCHANGED <<diskVars, pending, generation, timer, batch, gen, unread, flushing,
                 flushDone, stopVars>>

\* run() raises HeavyWorkQueueFull.
Refuse(f) ==
  /\ state[f] = "calling" /\ failures < MaxFailures
  /\ failures' = failures + 1
  /\ state' = [state EXCEPT ![f] = "failed"]
  /\ UNCHANGED <<dirty, events, changes, pending, generation, timer, flushVars,
                 flushing, flushDone, stopVars>>

\* The lane runs one background job of the project at a time.
Start(f) ==
  /\ lane # <<>> /\ f = Head(lane)
  /\ \A g \in Timers : state[g] # "running"
  /\ state' = [state EXCEPT ![f] = "running"]
  /\ lane' = Tail(lane)
  /\ unread' = batch[f]
  /\ UNCHANGED <<diskVars, pending, generation, timer, batch, gen, leader, flushing,
                 flushDone, stopVars>>

\* The job ends for its flush and for those that follow it.
EndAs(f, s) ==
  /\ state' = [g \in Timers |-> IF g = f \/ leader[g] = f THEN s ELSE state[g]]
  /\ leader' = [g \in Timers |-> IF leader[g] = f THEN NoTimer ELSE leader[g]]
  /\ unread' = {}

\* engine.index_paths returns.  It has indexed the batch as it was when it was
\* read, except the files that could not be read, parsed or stored: those it
\* only counts in its result.
Succeed(f) ==
  /\ state[f] = "running"
  /\ EndAs(f, "succeeded")
  /\ \E errors \in SUBSET unread :
       /\ dirty' = dirty \ (unread \ errors)
       /\ failures' = IF errors = {} THEN failures ELSE failures + 1
  /\ failures' <= MaxFailures
  /\ UNCHANGED <<events, changes, pending, generation, timer, batch, gen,
                 lane, flushing, flushDone, stopVars>>

JobFails(f) ==
  /\ state[f] = "running" /\ failures < MaxFailures
  /\ failures' = failures + 1
  /\ EndAs(f, "failed")
  /\ UNCHANGED <<dirty, events, changes, pending, generation, timer, batch, gen,
                 lane, flushing, flushDone, stopVars>>

\* Mutant: the batch goes back, but nothing will take it again.
RestoreUnarmed(f) ==
  /\ state[f] = "failed"
  /\ pending' = IF stopping THEN pending ELSE pending \cup batch[f]
  /\ batch' = [batch EXCEPT ![f] = {}]
  /\ state' = [state EXCEPT ![f] = "leaving"]
  /\ UNCHANGED <<diskVars, generation, timer, gen, leader, lane, unread, flushing,
                 flushDone, stopVars>>

\* Mutant: the failed batch is consumed.
RestoreNothing(f) ==
  /\ state[f] = "failed"
  /\ batch' = [batch EXCEPT ![f] = {}]
  /\ state' = [state EXCEPT ![f] = "leaving"]
  /\ UNCHANGED <<diskVars, pending, generation, timer, gen, leader, lane, unread,
                 flushing, flushDone, stopVars>>

\* The failed batch merges with the events received during the run, and a
\* timer is armed unless one is.  A stopping watch drops the batch.
Restore(f) ==
  /\ state[f] = "failed"
  /\ LET leaves == [state EXCEPT ![f] = "leaving"]
     IN  IF stopping \/ timer # NoTimer
         THEN state' = leaves /\ UNCHANGED timer
         ELSE Arm(leaves)
  /\ pending' = IF stopping THEN pending ELSE pending \cup batch[f]
  /\ batch' = [batch EXCEPT ![f] = {}]
  /\ UNCHANGED <<diskVars, generation, gen, leader, lane, unread, flushing,
                 flushDone, stopVars>>

\* Mutant: the drain is signalled although another flush is still inside.
LeaveSignalling(f) ==
  /\ state[f] \in {"succeeded", "leaving"}
  /\ state' = [state EXCEPT ![f] = "free"]
  /\ batch' = [batch EXCEPT ![f] = {}]
  /\ gen' = [gen EXCEPT ![f] = 0]
  /\ flushing' = flushing - 1
  /\ flushDone' = TRUE
  /\ UNCHANGED <<diskVars, pending, generation, timer, leader, lane, unread, stopVars>>

\* The finally block: the last flush to leave lets stop() return.
LeaveFlush(f) ==
  /\ state[f] \in {"succeeded", "leaving"}
  /\ state' = [state EXCEPT ![f] = "free"]
  /\ batch' = [batch EXCEPT ![f] = {}]
  /\ gen' = [gen EXCEPT ![f] = 0]
  /\ flushing' = flushing - 1
  /\ flushDone' = (flushDone \/ flushing = 1)
  /\ UNCHANGED <<diskVars, pending, generation, timer, leader, lane, unread, stopVars>>

-----------------------------------------------------------------------------
(* stop().                                                                 *)

\* No event is accepted any more, and the observer is stopped.
BeginStop ==
  /\ ~stopping
  /\ stopping' = TRUE
  /\ timer' = NoTimer
  /\ state' = Cancelled(timer)
  /\ events' = {}
  /\ UNCHANGED <<dirty, changes, failures, pending, generation, flushVars, flushing,
                 flushDone, stopped>>

\* The second look at the timer finds none, and _flush_done.wait() returns:
\* otherwise the hard timeout ends the whole process.
EndStop ==
  /\ stopping /\ ~stopped
  /\ flushDone
  /\ stopped' = TRUE
  /\ UNCHANGED <<diskVars, pending, generation, timer, state, flushVars, flushing,
                 flushDone, stopping>>

FlushStep(f) ==
  SkipFlush(f) \/ TakeBatch(f) \/ Submit(f) \/ Start(f) \/ Succeed(f) \/ Restore(f) \/ LeaveFlush(f)

WatchNext ==
  \/ \E p \in Paths : Change(p)
  \/ \E p \in Paths : Enqueue(p)
  \/ \E f \in Timers : Fire(f)
  \/ \E f \in Timers : SkipFlush(f)
  \/ \E f \in Timers : TakeBatch(f)
  \/ \E f \in Timers : Submit(f)
  \/ \E f \in Timers : Refuse(f)
  \/ \E f \in Timers : Start(f)
  \/ \E f \in Timers : Succeed(f)
  \/ \E f \in Timers : JobFails(f)
  \/ \E f \in Timers : Restore(f)
  \/ \E f \in Timers : LeaveFlush(f)
  \/ BeginStop
  \/ EndStop

WatchSpec == WatchInit /\ [][WatchNext]_watchVars

\* Armed timers fire, timer threads run, events are delivered and the lane
\* dispatches; a job may fail, but only finitely often, and nobody is obliged
\* to stop the watch.
Fairness ==
  /\ \A p \in Paths : WF_watchVars(Enqueue(p))
  /\ \A f \in Timers : WF_watchVars(Fire(f)) /\ WF_watchVars(FlushStep(f))
  /\ WF_watchVars(EndStop)

FairSpec == WatchSpec /\ Fairness

-----------------------------------------------------------------------------
(* Properties.                                                             *)

\* Every variable has the type the code gives it.
TypeOK ==
  /\ dirty \subseteq Paths /\ events \subseteq Paths /\ pending \subseteq Paths
  /\ changes \in 0..MaxChanges /\ failures \in 0..MaxFailures
  /\ generation \in 0..MaxChanges
  /\ timer \in Timers \cup {NoTimer}
  /\ state \in [Timers -> {"free", "armed", "started", "calling", "queued", "running",
                           "following", "succeeded", "failed", "leaving"}]
  /\ batch \in [Timers -> SUBSET Paths]
  /\ gen \in [Timers -> 0..MaxChanges]
  /\ leader \in [Timers -> Timers \cup {NoTimer}]
  /\ lane \in Seq(Timers)
  /\ unread \subseteq Paths
  /\ flushing \in 0..Cardinality(Timers)
  /\ flushDone \in BOOLEAN /\ stopping \in BOOLEAN /\ stopped \in BOOLEAN

\* After stop() has returned no flush is inside a job or can enter one, so the
\* daemon may give up its instance lock.
DrainedStop ==
  stopped => Flushing = {} /\ \A f \in Timers : state[f] # "armed"

\* The files with an event on its way, pending, or in the batch of a flush
\* whose job has not ended.
Tracked == events \cup pending
             \cup UNION {batch[f] : f \in {g \in Flushing : state[g] # "succeeded"}}

\* Two ways to lose sight of a file that differs from the index: a flush followed
\* another flush's job, and that job's success ended its own batch; or the job could
\* not index the file, which had not changed since, and returned normally.
LostOnlyByKnownGaps ==
  [][\A p \in dirty' : p \in Tracked /\ p \notin Tracked' /\ ~stopping'
       => \E f \in Timers : /\ p \in batch[f] /\ state'[f] = "succeeded"
                            /\ \/ state[f] = "following"
                               \/ state[f] = "running" /\ p \in unread]_watchVars

\* Every change is indexed in the end, through refusals, failures and retries, unless
\* the watch is stopped or has lost sight of the file by one of those two ways.
EventuallyIndexed ==
  \A p \in Paths : (p \in dirty) ~> (p \notin dirty \/ stopping \/ p \notin Tracked)
=============================================================================
