# CodeSextant in TLA+

CodeSextant is a local code index: a daemon that several clients (an editor's
MCP server, a command line, a dashboard) ask for maps, references and reviews of
a project. The index is a SQLite file per project. The daemon keeps it current
with file watchers and runs expensive requests through a scheduler, in worker
processes. This directory holds TLA+ models of the program, the TLC runs that
check them on small instances, and TLAPS proofs of what holds for every instance.

All paths below are relative to `src/codesextant/`.

1. The system  2. Modules  3. Model and code  4. Runs  5. Fairness
6. What the violations show  7. Known exceptions  8. Proofs  9. Plan  10. Not modelled

## 1. The system

| Component | State | Operations | Hard behaviour |
|---|---|---|---|
| Global priority gate, `_PriorityGate` (`work_coordinator.py`) | waiters with priority, ticket and age; slots in use | `acquire`, `release` | a condition variable with `notify_all` and timeouts, priorities raised with age, partitioned slots, deadlines a token extends while its owner sleeps |
| Heavy lane, `HeavyWorkCoordinator` (`work_coordinator.py`) | queued, in-flight and active jobs, followers, tokens | `run`, `_finish` | single flight per key, deadlines of owner and followers that differ, admission limits, failing work |
| Sharded heavy work, `ShardedHeavyWork` (`work_coordinator.py`) | a lane per project and kind, its leases; one global gate; hard timers | `run`, `_acquire_lane`, `_release_lane` | a lane is dropped while another call may lease it |
| Route worker (`worker_process.py`) | child process, pipe, reader thread, deadline | `run_route` | kill against answer, a deadline that moves, a crash |
| Project watch, `_ProjectWatch` (`watcher.py`) | pending paths, generation, debounce timer, running flushes | `_enqueue_path`, `_flush`, `stop` | stale timer callbacks, failed batches, files that fail singly, overlapping flushes, a stop that must drain |
| Watch manager (`watcher.py`), recovery threads (`daemon.py`) | watches, recovery states and attempts | `ensure_watch`, `ensure_ready`, `mark_ready`, `evict_idle`, `stop_all` | one recovery for many callers; eviction against events and recovery |
| Requests and idle shutdown (`daemon.py`) | handler slots, open requests, timer generation, drain stage | `request_started`, `request_finished`, `_on_timeout`, `serve` | a timer that fires while a request arrives; the order of draining |
| Daemon lifecycle (`daemon.py`, `supervisor.py`, `client.py`) | instance and startup lock, draining marker, port | `serve`, `ensure_running`, `stop_running`, client retry | processes that start, stop, probe and die at the same time |
| Local authentication (`local_auth.py`) | secret file, proofs used, codes, sessions | publish, verify, exchange | publication by several processes, and its failure half way; replay, expiry, limits |
| Cache leases (`cache_lease.py`) | a gate file and marker files per project, system locks | `acquire_shared`, `try_acquire_exclusive`, `close` | several processes, a death between any two steps |
| Cache collection (`cache_gc.py`) | the artifacts of each project, access records | `inventory`, `prune`, `forget_project` | change between look and deletion, partial deletion, snapshots written late |
| Index store (`storage.py`, `engine.py`) | file rows, reference edges, marks of resolved symbols, generation, fingerprints | `store_file_index`, `replace_refs_for_symbol`, `_ensure_blast_radius`, `_derive_one_file` | work computed from a snapshot and written after the index moved |
| Co-change mining (`engine.py`, `cochange.py`) | mined head, counts | `_ensure_cochange`, `_ensure_symbol_cochange` | read, compute and write in separate steps while HEAD moves |
| Map cache and snapshots (`engine.py`, `storage.py`) | maps in memory and on disk under a key, symbol snapshots | `get_map`, snapshot writers | keys that do not change when the data does |
| Reviews (`engine.py`, `references.py`, `diffscan.py`) | sections with a budget | `preflight`, `check`, `guards` | what is cut, failed or unknown must be said |
| Clone detection (`engine.py`, `clones.py`) | fingerprints computed on demand | `find_duplicates` | a question about one file against a question about all |
| Command line and tool server (`__main__.py`, `client.py`, `mcp_server.py`) | backend, fallback, notes | one command, method or tool for each operation | the same question asked in three spellings; degradation that must be told |
| Ranking, language analysis, rendering | none that outlives a call | functions of their input | numeric edges only |

How they meet. A client finds or starts a daemon and sends a request with a
proof. The daemon admits it to a handler slot, tells the idle timer, attaches a
watch, makes the index ready (one recovery for all who ask) and runs the
operation through `ShardedHeavyWork.run`: that leases the lane of the project
and kind, submits the work under its key, and the work the lane runs first takes
a slot of the global gate, then a worker process. A follower that joins a job
extends the job's token, and with it the deadline that gate and worker compare
with. The work opens the project's index under a cache lease; the watch's
flushes use the same lanes. Pruning takes the lease exclusively. The daemon may
give up its instance lock only after handlers, recoveries and watches have been
drained.

What makes each component correct is the last column turned round; the hazards,
each at its line, are the `hazards` of `PROJECT.json` with the properties that
cover them.

## 2. Modules

| Module | Models |
|---|---|
| `PriorityGate` | `_PriorityGate`: registration, evaluation of the wait condition, sleep, wakeup, withdrawal, claim, release |
| `HeavyLane` | `HeavyWorkCoordinator.run` for owners and followers, dispatch, work, `_finish`, token extension |
| `CoalescedCalls` | the abstract promise of a lane: overlapping calls with one key share one computation and its outcome |
| `ShardedWork` | the lane table with its leases, and calls from lease to return; lane and gate by what their modules show of them |
| `RouteWorker` | `run_route` and its child: spawn, poll, answer, crash, kill, reap |
| `HeavyRequests` | a heavy request: `ShardedWork` with a `RouteWorker` in each job, or a handler that runs inline |
| `ProjectWatch` | `_ProjectWatch`: events, debounce timer, flush, retry, stop, on the lane as `HeavyLane` specifies it |
| `WatchRecovery` | the watch manager: attaching, recovery with leader and followers, eviction |
| `DaemonRequests` | one daemon from its first request to the release of its lock: handler slots, idle timer, recovery thread, drain; extends `WatchRecovery` |
| `DaemonProcesses` | the processes around one port: daemons that own, serve, drain and die, clients that look, start, ask and stop |
| `CacheLease`, `ProjectLock` | the lease of one project's cache, one file operation at a time; and the abstract lock it implements |
| `CacheCollection` | pruning and forgetting caches, on `ProjectLock`'s lock |
| `ReferenceEdges` | file rows, generation, reference edges and resolution marks, written by an indexer and by preflight calls |
| `CoChange` | which files history says change together, while HEAD moves |
| `MapCache` | `get_map` with its memory, its file and the symbol snapshot, under commits and checkpoints |
| `Review` | the sections of `preflight`, `check` and `guards`: found, shown, said |
| `Duplicates` | `find_duplicates` and the fingerprints it computes on demand |
| `Surfaces` | the parameters of every operation from a command, a tool or a client method to the engine |
| `ToolCalls` | the tool server with its backend, its fallback and the notes of its answers |
| `LocalAuth` | the shared secret, request proofs and their replay cache, codes and sessions |
| `PriorityGateProofs`, `HeavyLaneProofs`, `HeavyRequestsProofs`, `CacheLeaseProofs`, `CacheCollectionProofs`, `DaemonRequestsProofs` | the theorems about the module they are named for |
| `ProcessAndWatchProofs` | the theorems about `DaemonProcesses` and `ProjectWatch` |
| `AnswersProofs` | the theorems about `LocalAuth`, `ReferenceEdges`, `Duplicates`, `Surfaces` with `ToolCalls`, `CoChange`, `MapCache` and `Review` |
| `MC*` | constants and symmetry for TLC; `MCAnswers` puts six parts beside each other that share no state, `MCDaemonProcesses` two; `MCHistory`, `MCReview` and `MCDuplicates` hold the values of theirs |

`HeavyRequests` composes `ShardedWork` and `RouteWorker`; `DaemonRequests`
composes request admission with `WatchRecovery`; `HeavyLane` and `ShardedWork`
both implement `CoalescedCalls`; `CacheLease` implements `ProjectLock`, which
`CacheCollection` uses.

### Conventions

*Condition variables.* `Condition.wait(timeout)` splits a method in two atomic
parts. A thread that sleeps is in `asleep` and has a `timer`; `notify_all`
empties `asleep`; a timer that reaches 0 lets `TimeoutWake` take the thread
out. A woken thread still has to get the lock, and then evaluates its loop
condition again. The lock is a variable (`lock`) because a call registers and
evaluates for the first time under one hold of it, while the clock may advance
in between. Python's `Condition` has no spurious wakeups, and neither has the
model.

*Time.* In gate and lane a budget is the number of ticks left until a deadline,
`0` when it has passed and `NoDeadline` when there is none. Python evaluates
`timeout=remaining` when it goes to sleep, so a timer does not follow a deadline
that is extended later; the models keep `timer` and `rem`/`token` apart for that
reason. Elsewhere a deadline passes at any time. In `DaemonRequests` time is the
number of ticks since the last activity.

*Tickets.* `created_at` and sequence numbers are only ever compared. They are
kept as `ahead[x]`, the set of waiters that were registered before `x`.

*Errors.* A call that is refused raises and changes nothing but telemetry; the
models have no action for it where the refusal has no effect in the caller: it
is where the guards of `Register`, `Join` and `Submit` are false. `Refuse` of
`ProjectWatch` and of `ShardedWork` exists because there it has one.

*Choices.* `CASE` may take any alternative whose guard is true, so its guards
exclude one another here; where the code tries conditions in order the model has
`IF ... ELSE IF`.

*Database.* A transaction is one step. A file's content, a version, a commit is
a member of a small set; a digest is the set it was computed from, so collisions
are not modelled.

*History variables* (`untold`, `made`, `spoiled`, `overtaken`, `missed`, `late`,
`accepted`, `gaps`, `orphaned`, `withdrawn`) record what a property has to compare
with, or a known exception of section 7 when it happens. The code has no such state.

*Mutants.* A definition whose comment begins with "Mutant" is not part of the
model: it is a plausible mistake in the code next to it, with which a property
of the runs fails.

## 3. Model and code

### PriorityGate

| Model | Code |
|---|---|
| `Eligible`, `Level`, `IsNext` | `_eligible_locked`, `rank` and `_next_waiter_locked` |
| `Register` | the head of `acquire`, up to the loop |
| `Sleep`, `Claim`, `Withdraw` | one evaluation of the loop: wait, leave with a slot, leave because the deadline has passed |
| `Release` | `release` |
| `ExtendDeadline` | `CancellationToken.extend_deadline`, called by a lane while the owner waits here |

### HeavyLane

| Model | Code |
|---|---|
| `Join` | `run` finds `_inflight[key]`, counts the follower and extends the token |
| `Submit` | `run` creates and queues a job, after the reentrancy and capacity checks |
| `OwnerWait`, `OwnerAbandon`, `Dispatch` | one evaluation of the owner's loop, and what follows it |
| `BeginWork`, `EndWork`, `Finish` | `raise_if_cancelled`, `work()`, `_finish` |
| `FollowerWait`, `FollowerExpire`, `FollowerReceive` | the follower's loop |

A finished job is kept as long as a follower still has to read its outcome
(`Settled`), then its number is free again. `MayNest` tells whether work may
call back into its own lane. `Stage`, `Members` and `Answer` say what the lane is to
`CoalescedCalls`: where its calls of a key are, who they are, and what they got.

### ShardedWork, RouteWorker, HeavyRequests

`AcquireLane` and `ReleaseLane` are `_acquire_lane` and `_release_lane`. An entry
is an object; a new one is any that no lane and no call refers to. A call is at
one of `Places`; `Join`, `Submit`, `Refuse`, `Dispatch`, `Withdraw`,
`FollowerExpire`, `Finish` are the lane, `EnterGate` and `GateExpire` the gate,
`HardTimeout` the hard timer that ends the process. A token is not stored: it is
live while somebody who waits for the job is (`TokenLive`).

In `RouteWorker` the parent polls (`Receive`, `SeeDead`, `Doom`) until it can
give up the child; then `Terminate` and `Reap`, and `Return`. The reader thread
is `Read`; the child is `Answer` and `Exit`, at any time, or never. Which check
of a poll comes first matters, because the child may write and exit between
two of them.

`Owners`, `Stage`, `Members` and `Answer` map the calls of one lane and key to
`CoalescedCalls`.

`LaneStep` is a step of `ShardedWork` with what it does to the rest of a request
(`Aside`): nothing to the workers, and a follower that joins a doomed job is
`late`. `HeavyRequests` starts a worker when the gate is entered (`BeginWork`) and ends
the job when the worker has returned (`FinishWork`). The calls in `Inline` have
no worker and no deadline: those of a watch, or all when worker processes are
switched off (`CallHandler`, `HandlerReturns`).

### ProjectWatch

`Enqueue` is `_enqueue_path` with `_arm_timer_locked`; `Fire`, `SkipFlush`,
`TakeBatch` are the start of `_flush`; `Submit`, `Refuse`, `Start`, `Succeed`,
`JobFails` the call of the coordinator and the job; `Restore` its `except` branch
and `LeaveFlush` its `finally`; `BeginStop` and `EndStop` are `stop`. A timer is a
thread: `cancel()` frees one that waits and does nothing to one whose callback
has started. Delays, backoff and jitter are dropped: an armed timer may fire at
any time, which includes every delay the code can compute. `dirty` and `unread`
say what the index should hold: a file is dirty until a job that read it after
its last change has indexed it. `Succeed` is a job that returned: `index_paths`
returns normally when files failed singly, so any part of the batch may have been
left out.

### WatchRecovery, DaemonRequests

| Model | Code |
|---|---|
| `EnsureWatch`, `Start`, `StartFails`, `Register` | `ensure_watch`: the watch is started outside the manager's lock, and the first to register it keeps it |
| `NotIndexed`, `AlreadyReady`, `Lead`, `Follow`, `FollowerExpires` | `ensure_ready`, from its look at the state |
| `RunJob`, `JobRefused`, `JobEnds` | `recover` and the reindexing handler: one job of the lane, which all who ask meanwhile share |
| `Settle`, `SettleFailed`, `Mark` | the leader's end of an attempt, and `mark_ready`, which takes it over |
| `EvictFinds`, `EvictTakes`, `EvictStops`, `FlushEvicted` | `evict_idle`: the look at the project and its removal under one hold of the manager's lock (`Unlocked` is what other threads need for theirs), the `stop` after it, and what the taken watch does until then |
| `StopAll` | `stop_all`, which knows the registered watches only |
| `IndexPaths` | `index_paths` for a flush |
| `Touch`, `Arm`, `Cancel`, `Fire`, `OnTimeout` | `_IdleShutdownController`: generations, a timer that has begun and can no longer be cancelled |
| `Accept`, `Reject`, `Dispatch`, `EndRequest`, `FreeSlot` | `process_request`, `_dispatch`, `process_request_thread` |
| `Schedule`, `Answer`, `RecoveryEnds` | the interactive request that leaves a recovery in the background, and may build a small index itself |
| `Shutdown`, `LoopEnds`, `JoinHandlers`, `JoinRecoveries`, `StopWatches`, `Leave` | the end of `serve`, in its order |

The files of the project are one version number; an edit that a live watch has
seen waits in it, and what the watch does with it is `ProjectWatch`. `missed` says
that the index may lack something no watch will ever tell: a file failed inside
`index_paths` or `index_project`, a watch could not be attached, or eviction took
the watch from a thread that relies on it (`Busied`: it has asked for the watch and
its reindex has not ended; with the default time to live of three hours and
requests of an hour at most that does not happen, but nothing compares the two).
It ends with a whole index run that lost nothing and was watched from beginning to
end. The time to live itself is not modelled: eviction may come at any time.
`Pending` is what `ReadyIsCurrent` allows to be behind: a watch that will index, or
a watch manager that has stopped.

### DaemonProcesses

A daemon goes from `spawned` over `guarding`, `owning`, `serving`, `closing`,
`draining`, `pruning` to `gone`: `Guard` to `Release` are `serve`. A client's
place names the step of `ensure_running`, `stop_running` or the retrying
`_open_json` it is at; `first` to `fourth` are the four pings of
`ensure_running`. `Look` and `Unlook` are `_instance_owner_result`, which takes
the guard, tries the very lock it asks about, and puts both back. A ping of a
busy daemon may miss it. `Crash` ends a daemon anywhere: its locks go, its
draining marker stays.

### CacheLease

| Model | Code |
|---|---|
| `AcquireShared`, `TryAcquireExclusive`, `Close` | a call begins |
| `Open`, `Size`, `Write` | `_open_lock_file`: create or open the gate, give it a first byte if it has none |
| `Fstat`, `Unchanged`, `Changed` | `_validate_open_path`, before the first byte and again under the lock |
| `TakeGate`, `GiveUp` | `_acquire`: a user waits for its timeout, a collector does not wait |
| `Scan`, `ProbeUnlocked`, `ProbeLocked`, `Unlink` | `_project_entries`, `_unlocked_holder_identity`, `_unlink_verified`: a user reaps one marker after another, a collector looks at all of them before it removes the first |
| `Create`, `Mark`, `Leave`, `Abort` | the rest of `acquire_shared` and its `except` branches |
| `AllProbed`, `Exclusive`, `CloseExclusive` | the rest of `try_acquire_exclusive`, and the end of its lease |
| `Unlock`, `Remove` | `ProjectLease.close`: the lock of the marker first, then its file, the latter only under the gate |
| `Crash` | the system ends a process: its locks go, its files stay |

The gate's identity (size and modification time of its file) is one number,
`stamp`. A user may always give up waiting and any file operation may fail, so
timeouts and error codes need no state of their own. A marker's name has a
random part; `Fresh` says that a new name is not that of a file, or of one that
a process still remembers. The path checks against links and foreign files
(`_validate_directory`, `_validate_lock_info`) are left out.

### CacheCollection

`Scan` is `_inventory_records`, one group of files after the other; `Plan`,
`Candidates`, `Take` are the passes of `prune` (missing, idle, quota) and of
`forget_project`; `Check` is `_freshness_errors`; `Unlink` is one step of
`_delete_record` in the order of `deletion_rank`. A file is the time of its last
write, which stands for its identity and its age. `Touch` is `touch_project`,
throttled by `_TOUCH_TIMES`, which a `Restart` empties. `Open`, `Store`, `Close` are
a `ProjectStore`, which has a database as long as its lease; the snapshots of
symbols and maps are written after it is closed, under a lease of their own
(`due`, `WriteSnapshot`), whether there is a database or not.

### ReferenceEdges

| Model | Code |
|---|---|
| `Edit` | an editor or Git |
| `ReadSource`, `StoreFile`, `RemoveFile`, `GiveUpFile` | `_index_source_file` and the loops of `index_paths` and `index_project`, one file at a time, with the transactions `store_file_index` and `remove_file` |
| `Ask`, `SweepNames`, `AnswerWithoutResolving` | `preflight` reads the edges, `_ensure_blast_radius` sweeps the names and compares the mark |
| `PinGeneration`, `Resolve` | `find_references` |
| `StoreEdges`, `SkipEdges` | `_persist_reference_edges`, one `replace_refs_for_symbol` for each source |
| `MarkResolved`, `AnswerUnmarked` | the end of `_ensure_blast_radius` |

One defining file is the target of every call; a content is the set of symbols
a file defines and calls. The digest of a sweep is the set of swept files with
their contents. Calls of a symbol from its own file are left out; its edges live
and die with the file. An edge carries the rows its call has seen (`seen`), which
the code does not store: `EdgesOfTheseRows` compares it with the rows of today.

### CoChange, MapCache, Review, Duplicates

`CoChange` keeps the counts as how often each commit has been added to them;
`ReadHead` to `Add` are `_ensure_cochange`, whose clearing and adding are two
transactions, `ProbeSymbol` to `StoreSymbol` are `_ensure_symbol_cochange`, whose
two readings of Git are two steps, `Companions` is the answer. `Log` is `git log`
with its cap (`MaxRead`, `max_commits`), without merges, newest first; `First` is
the limit of a query or of `rank_companions` on a longer list.

In `MapCache` a commit is a pair of revisions, of the symbols and of the
references. `AskMap`, `FromMemory`, `FromDisk`, `Compute` and `Store` are
`get_map`. The memory is an ordered dictionary (`Places`, `Remember`); the key is
the commit the *main* file holds, which in WAL mode is an older one until
`Checkpoint`. `WriteSymbols` is the delayed snapshot writer.

`Review` fills one section after the other, each from a source that may fail, be
too wide or not be asked, then trims them to the budget (`Trim`, `Fits`). It
keeps how much there was to say (`found`), how much is listed (`shown`) and
whether a note, count, status or flag lets the reader know of the rest (`said`).
The limits that cut a list without a word are `CheckMaxSymbols`, `RulesShown`,
`MatchesShown` and `GuardsScan`. `BlastRadius` is `_ensure_blast_radius` with the
reading of its rows and the leads beside them; it may find callers and not be able
to store their edges, and then reads none. `Removed` is `_removed_guards` over all pairs of guard lists:
`Match` pairs the two images of a file off (`Unmatched`), `Judge` decides of what
is left whether it was loosened, moved or is gone (`Reported`). `Guards` counts
`_guards_in_reach` file by file (`ByName`, `Take`).

`Duplicates` is `find_duplicates` over contents that differ in shape, tokens,
calls and fingerprints: `Groups` with the stages one, two and call pattern,
`Missing`, `ReadText` and `StoreRows` the derivation on demand, `Flood`, `Seed`
and `Loaded` the reduced loading when the question is about one file. The `SELECT`s
of one answer (`GiveGroups`) are one step: an index transaction between them would
give an answer of two indexes, which the models do not show.

### Surfaces, ToolCalls, LocalAuth

`Surfaces` is a table: what each client method sends (`Client`), which routes there
are (`RoutesGet`, `RoutesPost`), what each endpoint reads (`Endpoint`), what each
command parses (`Commands`), with the conversions on the way (what is sent when it
is zero, empty or false; what counts as true; where commas split). Paths are written
without their slash, and the tables of the parts are put `Beside` one another.
`ToolCalls` runs tools, commands and methods through it. What callers may give an
operation is its constant `Calls`, which `ToolsAssumption` asks to be `WellFormed`
(flags that are flags, lists of names, texts), and `Settable` what a surface lets
them set of it.
`Connect`, `Answer`, `Fail`, `Lose`, `Unindexed`, `Build` are `Backend`, with its
fallback into the process and its building of a missing index; `Reply` takes the
notes. `LocalAuth` is `get_or_create_token` (`ReadSecret`, `Publish`, and, where links
are not supported, `CreateDirect`, `WriteDirect`, after which others can read the
secret, `SyncDirect` or `DirectFails`, which takes the file away again), the checks of
`do_POST` in their order (`Response`), `verify_request` with `_ReplayCache`
(`Examine`, `Accept`) and `BrowserSessionStore` (`Issued`, `Consume`, `Page`).

## 4. Runs

| Run | Question | Properties | Bounds |
|---|---|---|---|
| `gate_partitioned` | Is equal priority first come first served, and no wakeup lost? | `NextWaiterAwake`, `FifoWithinPriority` | 3 threads, 2 slots, 1 of them interactive, deadlines of one tick or none |
| `lane_serial` | Single flight, wakeups, followers that outlive owners; and does the lane implement `CoalescedCalls`? | `SingleFlight`, `NextOwnerAwake`, `LiveFollowerServed`, `SharedOutcome` | 3 threads, 2 keys, 1 slot, queue of 1 + 1, results and errors |
| `heavy_requests` | Do leases, slots, jobs and worker processes stay in step, and does every call end? | `LeasesExact`, `ReapedBeforeRelease`, `SingleFlightAcrossLanes`, `LentTimeIsUsed`, `EveryCallEnds` | 2 calls with a deadline, 1 inline without; 1 project with both kinds, 1 key, 2 entries, 1 slot and 1 job per lane, queue 1, 1 follower |
| `worker_answer` | Is a worker's answer ever lost? It can be. | `NoLostAnswer` | as `heavy_requests` |
| `watch_failures` | Does `stop` drain; in which ways can a change be lost; is every other one indexed? | `DrainedStop`, `LostOnlyByKnownGaps`, `EventuallyIndexed` | 2 files, 3 changes, 3 timers, 1 job that is refused, fails or leaves out files, fair |
| `daemon_requests` | Is a project called ready current, is everybody released, does the daemon drain in order, exit only when idle, and exit? | `ReadyIsCurrent`, `FollowersReleased`, `DrainInOrder`, `IdleLongEnough`, `DaemonStops` | an interactive request, a query, reindexing or health check (`MCAsks`) and the recovery thread, 2 slots, 2 edits, the second before both requests are sent (`FewEdits`), 1 follower, timeout of 1 tick, fair |
| `evicted_watch` | Does the instance lock outlive every flush, as the code says? Not one of a watch under eviction. | `LockOutlivesWrites` | the same, with two edits at any time |
| `first_call` | Does the recovery a first call schedules index the project? It does not. | `FirstCallIndexes` | as `evicted_watch` |
| `daemon_processes` | Is a probe ever mistaken for a daemon, do two daemons work, does a query run twice, is "stopped" true? And, in other behaviours: do all who have a secret have the same, and are good proofs refused only for want of room? | `LookFindsDaemon`, `OneWorks`, `NoDuplicateQuery`, `StoppedMeansGone`; `OneSecret`, `RefusedOnlyWhenFull` | 2 daemons, 2 clients, any number of probes and tasks; 2 processes, 2 secrets, 2 handlers, 2 proofs, a replay cache of 1, 3 times |
| `cache_lease` | Is a live holder's marker never reaped; do the files implement `ProjectLock`? | `HolderProtected`, `ImplementsProjectLock` | 2 users, 1 collector, 3 marker names, any number of calls and deaths |
| `cache_collection` | Is what a stopped deletion leaves found again, and nothing deleted that is in use, changed or kept by the policy? | `LeftoversFound`, `InUseKept`, `JudgedAsFound`, `RightfulDeletion` | 2 projects, 1 user, 4 times, quota of 2 files down to 1 |
| `answers` | Is the question the caller's, the answer that of the index or history it names, and what it lacks said? | the nine below | below |

`answers` has six subjects that share no state; each behaviour exercises one.

| Subject | Properties | Bounds |
|---|---|---|
| tool calls | `SameQuestion`, `DegradationIsSaid` | every operation on every surface; in each call (`MCCalls`) at most two arguments differ from the usual, over the values that conversions treat differently |
| history | `CompanionsOfThisHistory` | 3 commits on 2 branches and their merge, readings of 2 commits, 3 files, 1 rule or companion listed, 2 preflights, 2 moves of a HEAD that begins at the first commit |
| maps | `MapOfTheIndex` | 2 processes, 2 questions, 2 commits, 3 maps, memory for 1 |
| reviews | `SilenceIsSaid` | 3 other files, each limit 1 or 2, guard lists of up to 2 out of 8 guards, two of them alike but for the rule |
| edges | `EdgesOfTheseRows`, `CallersLostOnlyByKnownGaps` | 2 calls, 2 symbols, 1 caller, 1 edit, 2 index transactions |
| duplicates | `ScopeMissesNothing`, `RowsOfTheIndex` | 3 files with 4 functions, 1 edit, 2 questions |

What the properties say is in the comments above them. Two need a word here.
`LentTimeIsUsed` allows for the followers in `late`: those that joined when the
worker had been given up already, and those of a job that a call without a
deadline left to the limit of its child. `CallersLostOnlyByKnownGaps` names the
three ways in which a mark can outlive a caller's edge (section 7).

Why the bounds are enough. Three threads are one that runs, one that is next and
one that overtakes, joins or expires; every rule of gate and lane compares two
waiters or one waiter with a counter. Two keys let a call join and a call not
join at the same time. With deadlines of one tick a deadline can pass before,
during and after each step of any other thread. Age is bounded by `AgeBound`,
which both runs keep below `AgingPeriod`: no waiter changes rank by waiting,
because that is the one thing that breaks wakeups (section 7).

In `heavy_requests` two calls of one lane are an owner and a follower, or one in
the lane and one that leases it while it is being returned; the inline call
follows them, or uses the other lane. Two lanes are in the table at most,
each under one entry, so two entries are never too few; the theorems of section 8
hold for any number.

Three changes give the watch a batch, an event during its run, and one more
against the retry; a timer is needed for the armed one, a stale one and each
overlapping flush. In `daemon_requests` two requests are a leader and a
follower, or a recovery in the background and a reindexing that overtakes it;
one of them ends while the timer fires and the other starts. A second edit and a
second request exclude one another there (`FewEdits`), for the sake of the liveness
property; the theorems hold for any number of both in any order, and the two runs
beside it do without. A request for the status differs from a query that is told at
once in nothing that is checked.

In `daemon_processes` the second daemon is the one that is started while the
first dies or drains, the second client the one that probes, starts or stops in
between; all four properties are proved for any number of both, the two of the secret
for any number of processes and proofs.

For the leases, two users are one that registers and one that holds, closes or
dies; a user leaves at most one marker behind, and whoever registers has reaped
the others, so two files can exist at a time and three names are one more than
that. For the collection, two projects are one whose deletion is interrupted and
one that is more or less recently used; the times allow a write, an age of both
graces, and a write after the inventory.

For the edges, two transactions are one that overlaps a call and one after it;
two symbols tell a replacement of one symbol's edges from one of a whole source;
one caller is enough because every step treats sources one by one, and the
theorems hold for any number. In the history, one branch that continues and one
that does not are what `is_ancestor` tells apart; a reading of two commits is capped on the
merge and not before it. A third map meets an entry that
was put out of memory and a snapshot of an earlier commit.

`CHECK_DEADLOCK FALSE` is said where the system really may rest: after the last
change, when nobody calls or after the bounded number of proofs, edits, commits
and requests, and when a daemon is gone.

## 5. Fairness

Only three specifications have fairness; all of it is weak.

- `ProjectWatch!FairSpec`: timers fire, timer threads run (`FlushStep`), the
  observer delivers (`Enqueue`), a `stop` that waits goes on once it can.
  `JobFails` and `Refuse` have none and are bounded: the code retries for ever, and
  a job that always fails indexes nothing. New changes and `BeginStop` have none.
- `HeavyRequests!Spec`: lane and gate move (that they wake whom they must is
  what `NextOwnerAwake` and `NextWaiterAwake` say), deadlines pass, threads that
  can start or end their work do, the parent polls, and inline work that hangs
  meets the hard timer, which ends the daemon. Neither a child nor a handler has
  to finish: the parent kills the child at the deadline.
- `DaemonRequests!Spec`: handlers, recoveries and `serve` run, time passes and
  timers fire, a job ends, and a saved edit is indexed while nothing else runs.
  Nobody has to send a request, save a file or stop the daemon.

The other runs claim safety and use a specification without fairness.

## 6. What the violations show

- `worker_answer`. A thread of the parent reads the pipe into a queue. When the
  queue is empty and the child has exited, the parent looks at the queue once
  more and gives up (`worker_process.py:446-453`), although the thread may still
  be reading what the child sent before it exited. The caller gets the error for
  a worker that "exited without a successful endpoint result". The program does
  this with answers of about 2.5 MB: four of five times.
- `first_call`. For a project without a database `ensure_ready` only marks the
  project ready (`watcher.py:565-567`), so the recovery that a first interactive
  call leaves in the background indexes nothing. The next edit then makes the
  watch create an index of the edited files alone, which `_ensure_indexed` takes
  for the whole. `engine.py:210` says that the daemon does schedule an index.
- `evicted_watch`. `evict_idle` takes a watch out of the table and stops it after
  releasing the lock (`watcher.py:701-711`). A shutdown in between stops the
  registered watches, and `serve` gives up the instance lock while the taken one may
  still be in a flush, until the process has exited. `watcher.py:416` says that the
  daemon must retain its lock until every such callback has left.

## 7. Known exceptions

What the models show the code to do and no property excludes:

- *Rank changes with the clock, and nobody is told.* An owner looks, finds
  another job ahead and sleeps without a timeout; a tick raises its own job; the
  other owner looks, finds this one ahead and sleeps too. The lane is free, both
  wait, and only a call from outside wakes them. The gate has the same rule.
  `NextOwnerAwake` and `NextWaiterAwake` are checked, and proved, for waits
  shorter than an aging period.
- *A nested call may follow before it is refused.* `run` looks for an in-flight
  job of the key before it checks that the calling thread already works in this
  lane; such a call may wait for a job that is queued behind the caller's own.
  No caller in the repository nests; the runs have `MayNest = FALSE`.
- *A batch that is put back keeps its generation.* Its retry may meet a flush
  with the same key, follow it, and be dropped with that job's success.
- *A file that fails alone.* `index_paths` returns normally when single files could
  not be read, parsed or stored, a locked database included (`engine.py:374-409`,
  `595-609`), and the flush does not look at the number of errors
  (`watcher.py:351-363`): such a file leaves the batch and is not tried again until
  it changes, although the comment of the `except` branch says that an index failure
  must not consume the dirty batch (`watcher.py:368`). This and the way before it are
  two ways to lose a change; `LostOnlyByKnownGaps` says that there is no third.
- *A mark without its edges.* `find_references` reports
  `references_persisted: False` when the generation has moved or the database is
  locked, and `_ensure_blast_radius` marks the symbol all the same; or the
  indexer, a moment later, indexes a caller and deletes its edges while the mark,
  which belongs to the defining file, stays. An edit that is undone can have the
  same effect. Until a file that names the symbol changes, every call answers
  "cached" without that caller. The call itself, when it could not store what it had
  found, reads the stored edges again, finds none (`engine.py:2088-2090`) and says
  "That is a measured absence, not an unasked question" (`engine.py:3218`). A call that reads the edges before another stores
  and marks them (`engine.py:2081`) is not in the model.
- *Two first users of a lease.* The first byte of a new gate file is written
  before anyone has locked it; a process that looks at the file before and after
  raises `LeaseUnsafeError` for a file that is in order (`Changed`). Nothing is
  damaged.
- *A project whose watch could not be attached is called ready* (`missed`,
  `watcher.py:564`); what is saved until the next attempt stays unseen. The same
  goes for files that failed singly in an index run, and for a project whose watch
  was evicted under a thread that relied on it, which the time to live and the
  longest request, both set by the environment, do not exclude.
- *Mining that overlaps, or meets a moving HEAD, or stops between clearing and
  adding* (`spoiled`, `engine.py:1693-1710`) leaves wrong counts until the next
  rebuild: two preflights that have read the same record and the same new commits
  both add them (`storage.py:761-780`), where `cochange.py:202` says that nothing
  already read is read again. So does an update of a history longer than `max_commits`
  (`cochange.py:200`): the counts keep commits that a fresh reading would no longer
  reach, and an update by more commits than that never gets the older ones of them.
- *The key of a map* is the main database file: a commit that is still in the
  write-ahead log does not change it. `MapOfTheIndex` says which commits a map
  may come from.
- *Silence in reviews* (`gaps`): the list of reusable functions is cut without a
  word; importers are known for Python alone, and their absence is not explained;
  a check does not pass on the status of a sweep; a list of dependents has no
  total; a failed sweep or an unavailable history is not mentioned by `guards`.
  Four limits cut without a word: 20 rules of a file's history (`storage.py:788`),
  4 structural matches (`engine.py:2301`), the changed symbols `guards` and `check`
  look at (`engine.py:2449`), 10 files of history for `guards` (`engine.py:2421`).
  Without a database `guards` knows no changed symbols and does not say so
  (`engine.py:2761`). Callers whose edges could not be stored are lost to the
  section.
- *A guard that leaves while one like it is copied* (`engine.py:2932-2943`). A file
  raises one exception twice, with different rules; a change removes the first
  raise and copies the second. The copy has no like in the earlier image, so the
  removed raise is taken for one that was reworded, and of kinds that are not in
  `_WEAKENABLE` a rewording is not reported. `Gone` therefore counts the copies of
  each rule: it speaks of a guard only where no other of its kind and name has
  come. The exception was found when the proof of `GoneIsReported` did not go
  through without that count.
- *Fingerprints of a file that is indexed or removed while they are computed* are
  stale until the next question (`overtaken`). A file that cannot be read then is
  left out silently.
- *Similarity in one file's scope.* Asked about one file, `find_duplicates` loads of
  every other function only those fingerprints that the file has too
  (`engine.py:3979-3990`). The union in the quotient is then too small, and a short
  function that is part of a long one has similarity 1 with it; asked about the whole
  project it does not report the pair. `engine.py:4006` calls the quotient exact.
  `ScopeMissesNothing` is true because this only adds pairs. Two functions that are in different groups of exact copies
  are not compared as a near pair.
- *Surfaces.* A comma in a focus name splits it on the way through the daemon;
  to the tool server a limit of 0 is no argument, so
  the engine's own limit applies, where the command line's 0 becomes 1
  (`mcp_server.py:364`, `engine.py:2736`): `SameQuestion` compares with the arguments
  as the tool has read them, so it says nothing of this; it remembers a project as
  indexed before it has indexed it; only `impact` and `find_duplicates` raise
  when there is no index, the others answer with nothing.
- *A snapshot that is due when its project is dropped* (`orphaned`). The snapshots of
  symbols and maps are written after their store is closed, under a lease of their own
  and with no look at the database (`storage.py:180`, `engine.py:106-109`,
  `1376-1388`). Such a one stays, and no inventory finds it, because that starts from
  databases (`cache_gc.py:284-306`); `SECURITY.md:52` says that `--forget` drops the
  project.
- *Deletion* may be interrupted after the access record and before the database;
  the project then looks as old as its database.
- *The secret without links.* A crash between creating the file and writing it
  leaves an incomplete secret, which later processes refuse; a failure after
  writing it takes away a secret that others may have read
  (`local_auth.py:88-98`), where `local_auth.py:135` promises "the stable 256-bit
  local secret". `OneSecret` leaves out who has such a one (`withdrawn`).
- *A snapshot that cannot be written* stays in `due` for ever in the model; the
  code prints a warning and forgets it. It only allows more.

## 8. Proofs

Each theorem holds for every value of the constants that satisfies the named
assumption of the module; the bounds that keep runs finite are arbitrary too. A
property no run checks (`CountersMatchHolders`, `PartitionRespected`,
`AdmissionBounded`, `NoStaleWrite`, `ExclusiveAlone` and the type invariants) is
stated in its module for the theorem. Each property without fairness that a passing
run checks is a theorem.

`PriorityGateProofs`, under `GateAssumption`:

- `TypeCorrect`.
- `CountersCorrect`: the counters equal the numbers of holders. Inductive
  together with the types; claim and release change a set by one element and
  the counter by one.
- `PartitionCorrect`: no partition is overcommitted. It follows from the
  counters: a claim needs `Eligible`, which bounds the counter before it.
- `FifoCorrect`: an action property. It needs that `ahead` is a strict order
  of the registered waiters that agrees with age: an older waiter has waited at
  least as long, so it outranks a younger one of its priority at any time.
- `NoLostWakeup`: if no waiter gets as old as an aging period, the waiter that
  may enter is awake. The argument has one lemma, `GateStepKeepsNextAwake`: a
  step that does not wake everyone changes neither the eligibility nor the rank
  of anyone it leaves asleep, except for `Register`, which can only push others
  back, and for aging, which is excluded.

`HeavyLaneProofs`, under `LaneAssumption`:

- `TypeCorrect`.
- `SingleFlightCorrect` and `AdmissionCorrect`, from the inductive invariant
  `LaneInv`. `SingleFlight` speaks of live jobs, but the code decides to join or
  to start a job by looking a key up in `_inflight`; so the invariant has to say
  that this table and the threads agree. `TablesAgree` does, in six parts: an
  entry of `inflight` is a live job of that key, every live job has an entry and
  one thread that owns it, an owner's job is live, a queued job is live and its
  owner waits, active jobs are in the table but no longer queued, and the phase
  of an owner tells where its job is. There is a lemma for each way the tables
  change (`SubmitTables`, `QueueShrinks`, `DispatchTables`, `Leaves`) and one,
  `SameTables`, for the steps that leave them alone. The bounds follow from the
  guards by counting.
- `FollowersAreServed`: `LiveFollowerServed` is about one step, `OwnerAbandon`,
  whose guard reads a counter and a token and no follower. `FollowInv` closes the
  gap: the counter of a live job is the number of its followers (`Counted`), its
  token covers the time of each (`Covered`), and a thread that follows does
  nothing else that could end the job (`FollowPhase`).
- `OwnersAreWoken`: `NextOwnerAwake`, for waits shorter than an aging period.
  `Patient` (`AgeBound < AgingPeriod`) is not a convenience: without it the
  property is false of the code (section 7). Within a period `Level` does not
  change (`LevelStays`), so a sleeper that was blocked when it went to sleep stays
  blocked until a step that wakes everyone.
- `OutcomeIsShared`: the lane implements `CoalescedCalls`, the abstract promise
  that overlapping calls of a key share one computation. `Stage`, `Members` and
  `Answer` map the lane to it, and each action is a step of it or a stutter. The
  hypothesis `~MayNest` is that work does not call back into its own lane; a
  thread that does is in two calls at once, which `CoalescedCalls` has no place for.

`HeavyRequestsProofs`, under `ShardedAssumption` and `InlineAssumption`:

- `TypeCorrect` and `LeasesCorrect`, from `LeaseInv`. Its parts are that the
  lease count of an entry is the number of calls that use it, that whoever uses
  an entry finds it in the table under its lane, that two lanes never share an
  entry, and that an entry in the table is used. The release of a lane is the
  step that needs all of them: it drops the entry when the count is one, and the
  count tells that nobody else is left. Steps that neither lease nor return a
  lane are those of `Frame`, which leave all of this alone.
- `ReapedCorrect`, from `WorkerInv`: a child is alive only while its parent is
  between `Spawn` and `Reap`, and the parent has returned before the job does.
- `FlightsCorrect`: the calls of each lane and key implement `CoalescedCalls`
  although the lane itself comes and goes. `FlightInv` adds to the leases that a
  lane and key has one owner (`OneOwner`), that a follower's leader is an owner of
  its own lane and key (`Led`), and that an outcome is there from the end of a job
  on (`Outs`). `OneOwner` rests on `LeaseInv`: two calls of one lane find the same
  entry, so the second sees the first.
- `LentTimeCorrect`, from `FlightInv`, `WorkerInv` and `LateInv`: of a job whose
  worker has been given up, every follower either has no time left or is in
  `late`. Only the polls that give up (`GivenUp`) and the calls that join after
  them can disturb it; an `Expire` only helps it.

`ProcessAndWatchProofs` holds two components, the processes around one port under
`ProcessAssumption`, and the watch of one project under `WatchAssumption` (finitely
many timers, `NoTimer` not one of them):

- `LooksCorrect` and `OneWorksCorrect`, from `LockInv`: the places of a process
  tell which lock it holds, a daemon that works owns the instance lock, and a
  client that holds it by trying it holds the guard as well. Daemons and other
  probes pass the guard, so none of them meets the lock in a client's hands.
- `StoppedCorrect`, from `StopInv`: a client that saw the port or the lock free
  after its request knows that the daemon it asked has ended, which needs
  `NoReturn`: no step takes a daemon that has listened back to before it did.
- `NoDuplicateCorrect`, from `QueryInv`, which says for each place of a client
  which daemon may still run its query.
- `StopDrains`: `stop` returns on the event `flushDone`, so `CountsFlushes` says
  that the counter is the number of flushes inside and the event tells whether it
  is zero, and `Drained` that after it nobody gets in again. That a stopped watch
  has no armed timer is `ArmedIsTimer` and `StoppingUnarmed`: only the timer on
  record is armed, and a stop has cancelled it.
- `ChangesAreTracked`: `LostOnlyByKnownGaps`. While the watch is not stopping, a step
  other than `Succeed` (lemma `TracksOn`) takes no file out of events, pending
  paths and batches together. For `Succeed` the invariant needs `ChangedAgain`: a file of the
  running batch that changed after it was read is tracked somewhere else, so what
  remains dirty and untracked was in a batch that followed, or in the one that ran
  and was not indexed. `JobInv` keeps the
  lane in order: a flush is queued once, one job runs, who has a leader follows.
- `WatchTypeCorrect`, with the bound that a generation needs: generations and
  undelivered events together are no more than the changes.

`DaemonRequestsProofs`, under `DaemonAssumption` and the `WatchAssumption` of
`WatchRecovery`, for any number of requests, edits and slots and any timeout:

- `ReadyProjectsAreCurrent` and `FollowersAreReleased`, from `WatchInv`. A project
  is called ready by a leader that has finished, by a reindex that takes its
  attempt over (`mark_ready`), or at once; `Current` says what each of them knows
  on its way there: the index is of the files as they are, or the watch holds
  what came later, or something was missed (`missed`). `Attached` says
  that nothing relies on a watch that is not there. `Led` says that a recovering
  project has an attempt and its leader is at work; followers are released because
  no end of an attempt leaves that state without waking them.
- `ServeDrainsInOrder`, from `Joined`: each stage of `serve` says what is over.
- `IdleDaemonsEnd`: an action property, from `Timed`. While a request is active
  there is no timer, and no callback that has started would count; a timer that
  runs started at the last activity, so the callback that counts comes after the
  whole period.

Eviction is why `Current` is not trivially inductive. `evict_idle` looks at the
project and takes its watch under one hold of the manager's lock, so between the
two no thread registers, marks or settles (`Unlocked`); but a thread that has asked
for the watch and not yet marked the project would call one ready that nobody
watches any more. `EvictTakes` therefore sets `missed` when there is such a thread.
A job knows whether it was watched all the time (`watched`), so that a later whole
run may end `missed`. `ServeDrainsInOrder` says "off" of the registered watch; what
eviction has taken is in nobody's table, and `LockOutlivesWrites` fails of it.

`CacheLeaseProofs`, under `LeaseAssumption` (the sets are disjoint):

- `TypeCorrect`.
- `HolderProtectedCorrect` and `ExclusionCorrect`, from the inductive invariant
  `LeaseInv`. What is claimed is about two processes, one that holds and one
  that reaps, but they never look at each other. So the invariant says of each
  process alone what its place in the code entails: who has the gate
  (`GateTells`), which marker is its own (`MarkerTells`), that what it has found
  unlocked while it has the gate is still unlocked (`ScanTells`), that a
  collector has tried every file there is (`CollectorTells`). Together with
  `OwnMarkers`, which keeps markers of two users apart, and `LocksOwned`, a
  step of one process leaves what is said of another alone (`Frame`), or has
  the gate and therefore meets nobody who relies on the files.
- `LeaseImplementsLock`: the refinement of `ProjectLock`. The lock is taken
  when a marker is locked and released when it is unlocked, not when the calls
  return; every other step is a stutter.

`CacheCollectionProofs`, under `CollectionAssumption`, for any projects, users,
graces, quota and clock. One invariant, `Inv`, gives four theorems:

- `ActiveHoldersKept` (`InUseKept`): `Locked` says that an exclusive lock meets no
  holder, and `Judged` that the collector has it from the check to the release.
- `OnlyJudgedFilesGo` (`JudgedAsFound`): `Deleting` says that the files of a group
  that is being deleted are those of its record or gone. It survives a daemon that
  goes on using the project because `Marked` says that a touch it remembers has
  been written.
- `DeletionsAreRightful`: `Judged` keeps from `Check` to the last file why the
  pass took this project, and `Told` ties the ages in the record to the files.
- `LeftoversAreFound`: a part of the invariant itself. A step deletes the database
  only when no other file of the group is there, and nothing but a snapshot that was
  due (`orphaned`) is written without it.

`AnswersProofs` holds the subjects of `answers`, and the local secrets. They share no state; each has a
specification of its own (`AuthSpec`, `Spec` of the edges, `DupSpec`, `ToolsSpec`,
`MineSpec`, `MapSpec`, `ReviewSpec`), and `MCAnswers` runs one of them in each behaviour, all but the secrets.

- `OneSecretCorrect`, from `SecretInv`: whoever created the file without a link
  is alone until it has written and synchronised it; a secret somebody has is the
  one of the file, the one its own creation will write, or one that was withdrawn. For clocks, secrets and proofs
  without bound (`AuthAssumption`).
- `RefusalsCorrect`, from `ReplayInv`: every entry of the replay cache is an
  accepted proof with the expiry it had, and no proof in a handler's hands has
  the nonce of another or of an entry. So a refusal has only one reason, and a
  full cache is an injection into the accepted proofs that are still fresh.
- `TypeCorrect` of the edges, with `RoomToIndex` for the bound of the generation,
  for all sets of files, symbols, contents and calls (`EdgesAssumption`).
- `EdgesAreOfTheseRows` and `FencedWrites`, from the inductive invariant
  `EdgesInv`. Its heart is `Fence`: a pinned generation is not from the future,
  and while it is the current one the rows are those seen when it was pinned.
  An index transaction makes every pinned generation old, so a later
  `StoreEdges` is not enabled; the same transaction deletes the edges of the
  rows it replaces. The model's `seen` is needed to say this at all.
- `CallersLostCorrect`: an action property on top of `EdgesInv`, one lemma for
  each step that writes edges, marks or rows: it leaves the edges of a marked
  symbol as they were (`Kept`) or is one of the known gaps (`Gap`).
- `RowsCorrect` and `ScopeCorrect`, from `DupInv` under `DupAssumption` (finitely
  many functions, fingerprints that are finite sets, a threshold that is a
  quotient of naturals with at least one shared fingerprint). The rows need
  `ReadAsListed`: what is computed is of the content that was listed, or a known
  exception. That a scoped call misses nothing is a statement about the functions
  that load rows for one file; `OfTheseRows` brings it to two calls of one run.
- `DegradationCorrect`, from `ToolsInv`: what no reply has told is in the notes,
  and `Reply` empties both.
- `SameQuestionCorrect`, from `AskInv` under `ToolsAssumption`: for any texts,
  numbers and lists of names, in any number of parameters at once, where the run
  varies two. `Tabled` goes through the tables operation by operation: each
  parameter of the engine arrives under the name it was sent under, on a route
  of its method. The conversions are then compared parameter by parameter and not
  call by call (`DirectAsksTheSame`, `DaemonAsksTheSame`, `CommandAsksTheSame`),
  and `CoercedIsTidy` says what the tools have already done to an argument. That
  joining names without commas and splitting them again gives the names back
  (`JoinedNames`) is induction over a list, as described below for
  `GoneIsReported`. Only the call in hand matters: the fall-backs and the first
  index in between do not change its arguments.
- `CompanionsCorrect`, from `MineInv` under `CoChangeAssumption` (the ancestors of
  a commit are closed and contain it). A preflight reads HEAD, then the log, then
  writes; `ReadAsRecorded` says at each of its places what it holds if HEAD has
  not moved meanwhile, and `CountsInv` that unspoiled totals are the tally of
  the capped log of the recorded commit's history. Where the history is no longer
  than the cap, `Log` leaves nothing out, so that what is new and what was read
  before are together what a fresh reading gives. Adding a list of commits to counts is a fold in
  the code; the model counts how often each commit has been added (`Tally`), so
  the proof needs no induction.
- `MapsCorrect`, from `MapInv` under `MapAssumption`: every remembered map, in
  memory or in the file, is of the question of its key and of a commit no older
  than the key's (`GoodEntries`), a key is no older than the main file was when
  the call began (`WellAsked`), and the commits only go forward (`CommitsInv`).
- `GoneIsReported`: of two images of a file of any length, every guard that
  `Gone` calls gone is in `Reported`. Both operators are folds over sequences, so
  this is induction over data. The library's induction theorems cannot be
  instantiated here, but the least-number principle they rest on is a statement
  about a set and can: `UpTo` takes a *set* of naturals with 0 in it and closed
  under successor, `EverySubset` the same for finite sets, and `FoldExists` and
  `LeftFoldExists` derive from them that the folds of the community modules are
  recursive functions. `UnmatchedRuns` and `ReportedRuns` state the two folds as
  sequences of states; `MatchedOff` is the invariant of the first: what has been
  matched off of a rule in the later image is what has been seen of it in the
  earlier one, as far as there is one. Counting then says that a guard that is
  gone is left, and that no guard of its key is left in the later image to be
  taken for its replacement.
- `SilenceCorrect`, from `ReviewInv` under `ReviewAssumption` (finitely many files,
  limits that are naturals, at least one dependent listed where any is), for
  every set of guards and lists of any length. A section once filled is not
  filled again, so what must be said is said in the step that fills it
  (`CutIsSaid`, and `PreflightTold` for the sections whose emptiness needs a
  word); the budget only makes lists shorter, and says so in the same step.
  `NothingTold` holds from the last step before the budget on: the lists may have
  been empty for five different reasons before it.

Only model-checked, and why:

- `EventuallyIndexed`, `EveryCallEnds` and `DaemonStops` are temporal under
  fairness, which is out of the prover's reach along with `ENABLED`.
- `NoLostAnswer`, `FirstCallIndexes` and `LockOutlivesWrites` are false of the code
  (section 6).

## 9. Plan

Next: the types of the subjects of `answers` that have no theorem of their own; the reading of edges before the
mark (`engine.py:2081`) in `ReferenceEdges`; redelivered proofs in `LocalAuth`;
schema migration of the index store.

## 10. Not modelled

- Language analysis and ranking are functions from text or rows to rows or
  numbers through third-party parsers and one numeric iteration; they keep no
  state. Rendering and panels format; the skill and `init` write files once.
- Telemetry, logging and the wording of answers, everywhere.
- `prune_scratch`, the checks of recorded paths, links and foreign files in cache
  directories; sizes are counted in files.
- Schema migration, `health`, and the fitting of a map to a token budget.
- Two evictions at a time, and what a watch does that was started and lost the race
  to be registered.
- The directory watches of `_ProjectWatch`, which are the operating system's.
- Two versions of the program on one port, and the death of a client.
- Turning a function into fingerprints, comments as a separate table (they take
  the path of the fingerprints), two functions on one line, and similarity
  figures.
- A client that sends one proof twice, and clocks that go back or differ.
