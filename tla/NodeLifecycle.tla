--------------------------- MODULE NodeLifecycle ---------------------------
(***************************************************************************)
(* The life of a node: BaseRosNode with its step thread, and the lifecycle *)
(* callbacks of OpenCloseNode or StartStopNode that start and join it.     *)
(*                                                                         *)
(* Three threads meet here.  One performs the lifecycle transitions: the   *)
(* executor, for a service call, or a thread that calls open(), start(),   *)
(* stop(), close(); the state machine of rcl lets one transition run at a  *)
(* time.  The step thread calls _step() again and again.  The task group   *)
(* runs the two tasks of _async_stop(), which _step() may ask for.         *)
(***************************************************************************)
EXTENDS Naturals, FiniteSets

CONSTANTS
  HasOpenClose,   \* OpenCloseNode; otherwise StartStopNode
  BlocksOnInput,  \* enable_blocking_mode: _step() waits for input
  MaxStarts,      \* bound: activations
  MaxAsyncStops   \* bound: calls of _async_stop()

ASSUME KindAssumption == {HasOpenClose, BlocksOnInput} \subseteq BOOLEAN
ASSUME BoundAssumption == {MaxStarts, MaxAsyncStops} \subseteq Nat

VARIABLES
  state,        \* get_current_state()
  phase,        \* how far the callback of the transition in progress is
  caller,       \* who performs that transition
  resource,     \* what _open(), _start(), _stop(), _close() have left
  stepRunning,  \* m_step_running
  thread,       \* m_step_thread: where it is, "none" when it is not joinable
  joiners,      \* who is inside join() of the step thread
  asyncStop,    \* how far the tasks of _async_stop() are
  cancelled,    \* a task of m_async_task_group threw: no later task runs
  terminated,   \* std::terminate was called
  starts, asyncStops  \* history: how often that happened

transitionVars == <<state, phase, caller, resource, starts>>
threadVars == <<stepRunning, thread, joiners, terminated>>
asyncVars == <<asyncStop, cancelled, asyncStops>>
lifeVars == <<transitionVars, threadVars, asyncVars>>

Primary == {"unconfigured", "inactive", "active", "finalized"}
Transitions == {"activating", "deactivating", "shuttingdown"}

LifeInit ==
  /\ state = "unconfigured" /\ phase = "none" /\ caller = "none"
  /\ resource = "closed"
  /\ stepRunning = FALSE /\ thread = "none" /\ joiners = {}
  /\ terminated = FALSE
  /\ asyncStop = "idle" /\ cancelled = FALSE
  /\ starts = 0 /\ asyncStops = 0

-----------------------------------------------------------------------------
(* on_configure, on_cleanup: no thread runs. *)
Stopped == IF HasOpenClose THEN "open" ELSE "closed"

Configure ==
  /\ state = "unconfigured"
  /\ state' = "inactive"
  /\ resource' = Stopped
  /\ UNCHANGED <<phase, caller, starts, threadVars, asyncVars>>

Cleanup ==
  /\ state = "inactive"
  /\ state' = "unconfigured"
  /\ resource' = "closed"
  /\ UNCHANGED <<phase, caller, starts, threadVars, asyncVars>>

-----------------------------------------------------------------------------
(* on_activate: _start(), then the step thread, then the node is ACTIVE.    *)
ActivateBegin ==
  /\ state = "inactive" /\ starts < MaxStarts
  /\ state' = "activating" /\ phase' = "start" /\ caller' = "user"
  /\ resource' = "started"
  /\ starts' = starts + 1
  /\ UNCHANGED <<threadVars, asyncVars>>

(* Mutant: only the first thread is told to run. *)
StartStepThreadUntold ==
  /\ phase = "start"
  /\ phase' = "started"
  /\ thread' = "head"
  /\ stepRunning' = (stepRunning \/ starts = 1)
  /\ terminated' = (terminated \/ thread # "none")
  /\ UNCHANGED <<state, caller, resource, starts, joiners, asyncVars>>

(* Overwriting the handle of a std::thread that is still joinable            *)
(* terminates the process.                                                  *)
StartStepThread ==
  /\ phase = "start"
  /\ phase' = "started"
  /\ stepRunning' = TRUE
  /\ thread' = "head"
  /\ terminated' = (terminated \/ thread # "none")
  /\ UNCHANGED <<state, caller, resource, starts, joiners, asyncVars>>

ActivateEnd ==
  /\ phase = "started"
  /\ state' = "active" /\ phase' = "none" /\ caller' = "none"
  /\ UNCHANGED <<resource, starts, threadVars, asyncVars>>

-----------------------------------------------------------------------------
(* on_deactivate and on_shutdown: the step thread is joined, then _stop(),  *)
(* and _close() when shutting down.                                         *)
LeaveActive(target, who) ==
  /\ state' = target /\ phase' = "stop thread" /\ caller' = who
  /\ stepRunning' = FALSE

DeactivateBegin ==
  /\ state = "active"
  /\ LeaveActive("deactivating", "user")
  /\ UNCHANGED <<resource, starts, thread, joiners, terminated, asyncVars>>

ShutdownBegin ==
  /\ state \in {"unconfigured", "inactive", "active"}
  /\ LeaveActive("shuttingdown", "user")
  /\ UNCHANGED <<resource, starts, thread, joiners, terminated, asyncVars>>

(* The transition is over; stop() returns in the task that called it.       *)
Arrive(target) ==
  /\ state' = target /\ phase' = "none" /\ caller' = "none"
  /\ asyncStop' = IF caller = "async" THEN "resolved" ELSE asyncStop

(* Mutant: a thread that was told to stop is not waited for. *)
JoinNotWaiting ==
  /\ phase = "stop thread"
  /\ phase' = "stop"
  /\ UNCHANGED <<state, caller, resource, starts, threadVars, asyncVars>>

(* join() of a thread that somebody else is joining throws; the error ends  *)
(* the transition in FINALIZED and nothing is stopped.                      *)
Join ==
  /\ phase = "stop thread"
  /\ \/ /\ thread = "none"
        /\ phase' = "stop"
        /\ UNCHANGED <<state, caller, joiners, asyncStop>>
     \/ /\ thread # "none" /\ joiners = {}
        /\ phase' = "join"
        /\ joiners' = {"transition"}
        /\ UNCHANGED <<state, caller, asyncStop>>
     \/ /\ thread # "none" /\ joiners # {}
        /\ Arrive("finalized")
        /\ UNCHANGED joiners
  /\ UNCHANGED <<resource, starts, stepRunning, thread, terminated, cancelled,
                 asyncStops>>

(* Mutant: the thread object stays joinable. *)
JoinedUnjoined ==
  /\ phase = "join" /\ thread = "done"
  /\ joiners' = joiners \ {"transition"}
  /\ phase' = "stop"
  /\ UNCHANGED <<state, caller, resource, starts, stepRunning, thread,
                 terminated, asyncVars>>

Joined ==
  /\ phase = "join" /\ thread = "done"
  /\ thread' = "none"
  /\ joiners' = joiners \ {"transition"}
  /\ phase' = "stop"
  /\ UNCHANGED <<state, caller, resource, starts, stepRunning, terminated,
                 asyncVars>>

StopPorts ==
  /\ phase = "stop"
  /\ \/ /\ state = "deactivating"
        /\ Arrive("inactive")
        /\ resource' = IF resource = "started" THEN Stopped ELSE resource
     \/ /\ state = "shuttingdown"
        /\ Arrive("finalized")
        /\ resource' = "closed"
  /\ UNCHANGED <<starts, threadVars, cancelled, asyncStops>>

-----------------------------------------------------------------------------
(* The step thread. *)
(* Mutant: the loop does not look at the flag. *)
LoopHeadUnchecked ==
  /\ thread = "head"
  /\ thread' = "step"
  /\ UNCHANGED <<transitionVars, stepRunning, joiners, terminated, asyncVars>>

LoopHead ==
  /\ thread = "head"
  /\ thread' = IF stepRunning THEN "step" ELSE "done"
  /\ UNCHANGED <<transitionVars, stepRunning, joiners, terminated, asyncVars>>

StepEnds ==
  /\ thread = "step"
  /\ thread' = "head"
  /\ UNCHANGED <<transitionVars, stepRunning, joiners, terminated, asyncVars>>

(* pop_source_data() on an empty queue: only a goal, or the abort() inside  *)
(* stop() of the port, would end it.                                        *)
StepWaits ==
  /\ BlocksOnInput /\ thread = "step"
  /\ thread' = "blocked"
  /\ UNCHANGED <<transitionVars, stepRunning, joiners, terminated, asyncVars>>

InputArrives ==
  /\ thread = "blocked"
  /\ thread' = "head"
  /\ UNCHANGED <<transitionVars, stepRunning, joiners, terminated, asyncVars>>

(* _step() asks for a stop; it does so only in a node it saw ACTIVE.  The   *)
(* tasks are never executed once the task group was cancelled.              *)
AsyncStop ==
  /\ thread = "step" /\ state # "activating" /\ asyncStops < MaxAsyncStops
  /\ asyncStop \in {"idle", "resolved", "raised"}
  /\ asyncStop' = IF cancelled THEN "raised" ELSE "posted"
  /\ asyncStops' = asyncStops + 1
  /\ stepRunning' = FALSE
  /\ UNCHANGED <<transitionVars, thread, joiners, terminated, cancelled>>

-----------------------------------------------------------------------------
(* The first task joins the step thread, whichever that is by now.  When    *)
(* join() throws, the task group is cancelled; the second task goes on if   *)
(* it was already waiting, since the broken promise ends its wait.          *)
AsyncJoin ==
  /\ asyncStop = "posted"
  /\ stepRunning' = FALSE
  /\ \/ /\ thread = "none"
        /\ asyncStop' = "joined" /\ UNCHANGED <<joiners, cancelled>>
     \/ /\ thread # "none" /\ joiners = {}
        /\ asyncStop' = "joining" /\ joiners' = {"async"}
        /\ UNCHANGED cancelled
     \/ /\ thread # "none" /\ joiners # {}
        /\ asyncStop' \in {"joined", "raised"} /\ cancelled' = TRUE
        /\ UNCHANGED joiners
  /\ UNCHANGED <<transitionVars, thread, terminated, asyncStops>>

AsyncJoined ==
  /\ asyncStop = "joining" /\ thread = "done"
  /\ thread' = "none"
  /\ joiners' = joiners \ {"async"}
  /\ asyncStop' = "joined"
  /\ UNCHANGED <<transitionVars, stepRunning, terminated, cancelled, asyncStops>>

(* The second task calls stop(), which raises an error unless the node is   *)
(* ACTIVE, ...                                                              *)
AsyncStopCheck ==
  /\ asyncStop = "joined"
  /\ IF state = "active"
     THEN asyncStop' = "checked" /\ UNCHANGED cancelled
     ELSE asyncStop' = "raised" /\ cancelled' = TRUE
  /\ UNCHANGED <<transitionVars, threadVars, asyncStops>>

(* ... and deactivates it.  A refused transition has no effect. *)
AsyncDeactivate ==
  /\ asyncStop = "checked"
  /\ IF state = "active"
     THEN LeaveActive("deactivating", "async") /\ asyncStop' = "stopping"
     ELSE asyncStop' = "resolved" /\ UNCHANGED <<state, phase, caller,
                                                 stepRunning>>
  /\ UNCHANGED <<resource, starts, thread, joiners, terminated, cancelled,
                 asyncStops>>

-----------------------------------------------------------------------------
Transition ==
  \/ StartStepThread \/ ActivateEnd \/ Join \/ Joined \/ StopPorts

AsyncTask == AsyncJoin \/ AsyncJoined \/ AsyncStopCheck \/ AsyncDeactivate

LifeNext ==
  \/ Configure \/ Cleanup \/ ActivateBegin \/ DeactivateBegin \/ ShutdownBegin
  \/ Transition \/ AsyncTask
  \/ LoopHead \/ StepEnds \/ StepWaits \/ InputArrives \/ AsyncStop

LifeSpec == LifeInit /\ [][LifeNext]_lifeVars

(* Threads make progress once they were started; nobody is obliged to ask   *)
(* for a transition, and no goal needs to arrive.                           *)
LifeFairness ==
  /\ WF_lifeVars(Transition) /\ WF_lifeVars(AsyncTask)
  /\ WF_lifeVars(LoopHead) /\ WF_lifeVars(StepEnds)

LifeFairSpec == LifeSpec /\ LifeFairness

-----------------------------------------------------------------------------
(* Every variable stays in its type, and a transition in progress has       *)
(* somebody who performs it.                                                *)
LifeTypeOK ==
  /\ state \in Primary \cup Transitions
  /\ phase \in {"none", "start", "started", "stop thread", "join", "stop"}
  /\ caller \in {"none", "user", "async"}
  /\ resource \in {"closed", "open", "started"}
  /\ stepRunning \in BOOLEAN /\ terminated \in BOOLEAN
  /\ cancelled \in BOOLEAN
  /\ thread \in {"none", "head", "step", "blocked", "done"}
  /\ joiners \subseteq {"transition", "async"}
  /\ asyncStop \in {"idle", "posted", "joining", "joined", "checked",
                    "stopping", "resolved", "raised"}
  /\ state \in Transitions <=> phase # "none"
  /\ state \in Transitions <=> caller # "none"

(* _step() never runs on ports that are not started any more: every way out *)
(* of ACTIVE joins the step thread before it calls _stop(), also when an    *)
(* asynchronous stop is under way.                                          *)
StepsOnlyWhileStarted == thread \in {"step", "blocked"} => resource = "started"

(* A node at rest has no thread and no started port left, whoever stopped   *)
(* it.                                                                      *)
RestsAlone ==
  state \in {"unconfigured", "inactive"} =>
    thread = "none" /\ resource # "started"

(* A restart never overwrites a step thread that was not joined, which      *)
(* would terminate the process.                                             *)
NoThreadIsOverwritten == ~terminated

(* Deactivating and asynchronous stops come to an end, unless the step      *)
(* thread waits for input for ever.                                         *)
StopsUnlessBlocked ==
  \/ <>[](thread = "blocked")
  \/ /\ state = "deactivating" ~> state # "deactivating"
     /\ asyncStop = "posted" ~> asyncStop \in {"resolved", "raised"}

(* NodeStatusCode::STARTED, "step() is running": an ACTIVE node has a step  *)
(* thread or an asynchronous stop that is going to deactivate it, unless    *)
(* such a stop has failed before, be it that of an earlier activation.      *)
StartedIsStepping ==
  state = "active" =>
    \/ stepRunning
    \/ asyncStop \in {"posted", "joining", "joined", "checked"}
    \/ cancelled
=============================================================================
