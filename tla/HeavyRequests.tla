---------------------------- MODULE HeavyRequests ----------------------------
(***************************************************************************)
(* Expensive requests in the daemon (_execute_route, _invoke_heavy_handler *)
(* of daemon.py): the work that ShardedWork admits is done by RouteWorker. *)
(* The deadline a worker polls is the token of its job, which calls that   *)
(* join the job move.                                                      *)
(***************************************************************************)
EXTENDS ShardedWork

CONSTANT Inline  \* the calls whose work runs in the calling thread: they have no
                 \* deadline (a watch), or worker processes are off

ASSUME InlineAssumption == Inline \subseteq Threads

VARIABLES parent, child, pipe, inbox,  \* RouteWorker's, one for each owner
          late  \* followers that joined a doomed job, or were left to the limit of its child

tokens == {t \in Threads : TokenLive(t)}
unlimited == {t \in Threads : Followers(t) \cap Inline # {}}
Worker == INSTANCE RouteWorker WITH Jobs <- Threads, token <- tokens, capped <- unlimited

workVars == <<parent, child, pipe, inbox>>
vars == <<shardVars, workVars, late>>

RequestInit == Init /\ Worker!WorkerInit /\ late = {}

\* A job whose worker is beyond help: its outcome is decided.
Doomed(t) == parent[t] \in {"doomed", "deadline"} \/ At(t, "finishing")

\* What a step of the lanes does to the rest.
Aside ==
  /\ late' = {f \in Threads : /\ call'[f].at = "following"
                              /\ f \in late \/ (At(f, "leased") /\ Doomed(call'[f].leader))}
  /\ UNCHANGED workVars

LaneStep == LaneNext /\ Aside

Deadline(t) == t \notin Inline /\ Expire(t) /\ UNCHANGED <<workVars, late>>

-----------------------------------------------------------------------------
(* _invoke_heavy_handler.                                                  *)

CallHandler(t) == t \in Inline /\ EnterGate(t) /\ UNCHANGED <<workVars, late>>

HandlerReturns(t) ==
  /\ t \in Inline /\ UNCHANGED <<workVars, late>>
  /\ \E o \in {"result", "error"} : EndWork(t, o)

BeginWork(t) ==
  /\ t \notin Inline
  /\ EnterGate(t) /\ Worker!Spawn(t)
  /\ UNCHANGED late

WorkStep(t) ==
  /\ up /\ At(t, "working")
  /\ Worker!ParentSteps(t) \/ Worker!Read(t)
  /\ late' = IF Worker!Doom(t) /\ t \in unlimited THEN late \cup Followers(t) ELSE late
  /\ UNCHANGED shardVars

FinishWork(t) ==
  /\ EndWork(t, parent[t]) /\ Worker!Return(t)
  /\ UNCHANGED late

\* The child runs on when the daemon is gone, until its guardian ends it.
ChildStep(t) == Worker!ChildSteps(t) /\ UNCHANGED <<shardVars, late>>

Stuck(t) == HardTimeout(t) /\ UNCHANGED <<workVars, late>>

Next ==
  \/ LaneStep
  \/ \E t \in Threads : Deadline(t)
  \/ \E t \in Threads : CallHandler(t)
  \/ \E t \in Threads : HandlerReturns(t)
  \/ \E t \in Threads : BeginWork(t)
  \/ \E t \in Threads : WorkStep(t)
  \/ \E t \in Threads : FinishWork(t)
  \/ \E t \in Threads : ChildStep(t)
  \/ \E t \in Threads : Stuck(t)

\* Lane and gate move (their own modules), threads are scheduled, deadlines pass,
\* and a call that hangs in the calling thread meets the hard timer.  Neither a
\* child nor a handler has to finish.
Moves(t) ==
  \/ ReleaseLane(t) \/ Join(t) \/ Submit(t) \/ Refuse(t) \/ Dispatch(t) \/ Withdraw(t)
  \/ FollowerExpire(t) \/ Finish(t) \/ GateExpire(t)

Fairness ==
  \A t \in Threads :
    /\ WF_vars(Moves(t) /\ Aside)
    /\ WF_vars(Deadline(t))
    /\ WF_vars(BeginWork(t) \/ CallHandler(t)) /\ WF_vars(FinishWork(t))
    /\ WF_vars(WorkStep(t) /\ Worker!ParentSteps(t))
    /\ WF_vars(t \in Inline /\ Stuck(t))

Spec == RequestInit /\ [][Next]_vars /\ Fairness

-----------------------------------------------------------------------------
(* Properties.                                                             *)

\* A slot of the gate bounds the processes too: while the daemon runs, no child
\* outlives the job whose slot it was started under.
ReapedBeforeRelease == up => \A t \in Threads : Worker!Alive(t) => At(t, "working")

\* A call that joins a job lends it its own time: it is told of a deadline only
\* when its own has passed, when it joined after the worker had been given up, or
\* when a call without deadline had left the job to the limit of its child.
LentTimeIsUsed ==
  [][\A t \in Threads :
       At(t, "following") /\ call'[t].outcome = "deadline"
         => ~call[t].live \/ t \in late]_vars

\* Whatever a child does (hang, die, answer late), every call with a deadline
\* gets an answer, unless the hard timer has ended the daemon or calls keep
\* joining for ever, each lending the job more time.
EveryCallEnds ==
  \/ []<><<\E f \in Threads : Join(f)>>_vars
  \/ \A t \in Threads : ~At(t, "idle") ~> At(t, "idle") \/ ~up

\* "route worker exited without a result" is said only of a child that has sent
\* none (the docstring of RouteWorkerError).
NoLostAnswer ==
  \A t \in Threads :
    parent[t] = "error" /\ inbox[t] = "none" => pipe[t] \notin Worker!Answers
=============================================================================
