------------------------------ MODULE Node_proofs ------------------------------
(***************************************************************************)
(* The safety of what every node is built from: of its input port,         *)
(* AsyncActionInputPort, for any set of goals and pings, any capacity of   *)
(* the queue and any number of stops; and of its life, NodeLifecycle, for  *)
(* every bound: how often the node is restarted and how often it asks for  *)
(* an asynchronous stop do not matter.  The two share no variable.         *)
(***************************************************************************)
EXTENDS AsyncActionInputPort, NodeLifecycle, TLAPS

-----------------------------------------------------------------------------
(* AsyncActionInputPort *)
InProgress(g, step) == serving.goal = g /\ serving.step = step

(* What the goal callback has done so far for the goal it is serving. *)
ServingInv ==
  /\ \A g \in Goals :
       /\ InProgress(g, "checked") => goal[g] = "unsent"
       /\ InProgress(g, "enqueued") => goal[g] = "unsent"
       /\ InProgress(g, "accepted") => goal[g] = "executing" /\ g \notin resolved
       /\ goal[g] = "unsent" => g \notin resolved
  /\ sourceDataMap = IF serving.step = "accepted" THEN {serving.goal} ELSE {}

(* What is known of a goal that is in the queue or with a reader. *)
PlaceInv ==
  \A g \in held \cup Queued :
    /\ Alive(g) \/ InProgress(g, "enqueued")
    /\ g \in resolved \/ g = serving.goal

(* No goal is in two places. *)
UniqueInv ==
  /\ \A j, k \in DOMAIN queue : queue[j] = queue[k] => j = k
  /\ Queued \cap held = {}

(* Until somebody calls stop(), what was accepted can be reached. *)
ReachInv ==
  /\ stopper # "idle" => stops > 0
  /\ stops = 0 =>
       \A g \in Goals :
         Alive(g) \/ InProgress(g, "enqueued") => g \in held \cup Queued

IInv == TypeOK /\ ServingInv /\ PlaceInv /\ UniqueInv /\ ReachInv

-----------------------------------------------------------------------------
(* Pushing a goal adds it to those that are queued.                         *)
LEMMA QueuedAppend ==
  ASSUME queue \in Seq(Goals), NEW g \in Goals, queue' = Append(queue, g)
  PROVE  /\ Queued' = Queued \cup {g}
         /\ queue' \in Seq(Goals)
         /\ Len(queue') = Len(queue) + 1
         /\ (\A j, k \in DOMAIN queue : queue[j] = queue[k] => j = k)
              /\ g \notin Queued =>
            (\A j, k \in DOMAIN queue : queue[j] = queue[k] => j = k)'
<1>1. /\ DOMAIN queue' = 1 .. Len(queue) + 1
      /\ DOMAIN queue = 1 .. Len(queue) /\ Len(queue) \in Nat
      /\ \A k \in DOMAIN queue : queue'[k] = queue[k]
      /\ queue'[Len(queue) + 1] = g
      /\ queue' \in Seq(Goals) /\ Len(queue') = Len(queue) + 1
  OBVIOUS
<1>2. Queued' = Queued \cup {g}
  BY <1>1 DEF Queued
<1> QED
  BY <1>1, <1>2 DEF Queued

(* Taking the head leaves the others; nothing that was queued once stays    *)
(* queued when it is taken.                                                 *)
LEMMA QueuedTail ==
  ASSUME queue \in Seq(Goals), queue # <<>>, queue' = Tail(queue)
  PROVE  /\ Queued = Queued' \cup {Head(queue)}
         /\ queue' \in Seq(Goals) /\ Head(queue) \in Goals
         /\ Len(queue') = Len(queue) - 1
         /\ Len(queue) \in Nat
         /\ (\A j, k \in DOMAIN queue : queue[j] = queue[k] => j = k) =>
              /\ (\A j, k \in DOMAIN queue : queue[j] = queue[k] => j = k)'
              /\ Head(queue) \notin Queued'
<1>1. /\ DOMAIN queue' = 1 .. Len(queue) - 1
      /\ DOMAIN queue = 1 .. Len(queue) /\ Len(queue) \in Nat
      /\ Len(queue) >= 1
      /\ \A k \in DOMAIN queue' : k + 1 \in DOMAIN queue /\ queue'[k] = queue[k + 1]
      /\ Head(queue) = queue[1] /\ 1 \in DOMAIN queue
      /\ queue' \in Seq(Goals) /\ Len(queue') = Len(queue) - 1
      /\ Head(queue) \in Goals
  OBVIOUS
<1>2. Queued = Queued' \cup {Head(queue)}
  <2>1. ASSUME NEW k \in DOMAIN queue, k # 1
        PROVE  k - 1 \in DOMAIN queue' /\ queue'[k - 1] = queue[k]
    BY <1>1, <2>1
  <2> QED
    BY <1>1, <2>1 DEF Queued
<1>3. ASSUME \A j, k \in DOMAIN queue : queue[j] = queue[k] => j = k
      PROVE  /\ (\A j, k \in DOMAIN queue : queue[j] = queue[k] => j = k)'
             /\ Head(queue) \notin Queued'
  BY <1>1, <1>3 DEF Queued
<1> QED
  BY <1>1, <1>2, <1>3

(* The port is empty at first.                                              *)
LEMMA InitStep == Init => IInv
<1> SUFFICES ASSUME Init PROVE IInv
  OBVIOUS
<1>1. Queued = {}
  BY DEF Init, Queued
<1>2. TypeOK
  BY CapacityAssumption DEF Init, TypeOK, HasRoom, Bounded, Idle
<1> QED
  BY <1>1, <1>2, GoalAssumption
  DEF Init, IInv, ServingInv, PlaceInv, UniqueInv, ReachInv, Idle, InProgress, Alive

(* No callback of the action server breaks the inductive invariant.         *)
LEMMA CallbackStep ==
  ASSUME IInv,
         \/ Serve
         \/ \E g \in Goals : Receive(g) \/ OnGoalCancelRequest(g)
  PROVE  IInv'
<1> USE GoalAssumption, CapacityAssumption
    DEF IInv, ServingInv, PlaceInv, ReachInv, InProgress, Alive, Idle
<1>a. UNCHANGED queue =>
        Queued' = Queued /\ (UniqueInv /\ held' = held => UniqueInv')
  BY DEF Queued, UniqueInv
<1>1. ASSUME NEW g \in Goals, RejectGoal(g) PROVE IInv'
  <2>1. TypeOK'
    BY <1>1 DEF RejectGoal, Reply, TypeOK, HasRoom, Answered
  <2> QED
    BY <1>1, <1>a, <2>1 DEF RejectGoal, Reply, TypeOK
<1>2. ASSUME NEW g \in Goals, AnswerPing(g) PROVE IInv'
  <2>1. TypeOK'
    BY <1>2 DEF AnswerPing, Reply, TypeOK, HasRoom, Answered
  <2> QED
    BY <1>2, <1>a, <2>1 DEF AnswerPing, Reply, TypeOK
<1>3. ASSUME NEW g \in Goals, ReceiveGoal(g) PROVE IInv'
  <2>1. TypeOK'
    BY <1>3 DEF ReceiveGoal, TypeOK, HasRoom, Answered
  <2>2. held \cup Queued \subseteq Goals
    BY DEF TypeOK, Queued
  <2>3. /\ serving = Idle /\ goal[g] = "unsent"
        /\ serving' = [goal |-> g, step |-> "checked"]
        /\ UNCHANGED <<queue, held, goal, resolved, sourceDataMap, stopper, stops>>
    BY <1>3 DEF ReceiveGoal
  <2>4. Queued' = Queued /\ UniqueInv'
    BY <2>3, <1>a
  <2>5. ServingInv'
    BY <2>3
  <2>6. PlaceInv'
    BY <2>2, <2>3, <2>4
  <2>7. ReachInv'
    BY <2>3, <2>4
  <2> QED
    BY <2>1, <2>4, <2>5, <2>6, <2>7
<1>4. CASE EnqueueGoal
  <2>0. serving.goal \in Goals /\ serving.step = "checked"
    BY <1>4 DEF EnqueueGoal, TypeOK
  <2>1. CASE HasRoom
    <3>1. /\ queue' = Append(queue, serving.goal)
          /\ serving' = [serving EXCEPT !.step = "enqueued"]
          /\ UNCHANGED <<status, sourceDataMap, resolved, goal, stopper, held,
                         stops>>
      BY <1>4, <2>1 DEF EnqueueGoal
    <3>2. serving.goal \notin held \cup Queued
      BY <2>0 DEF TypeOK
    <3>3. /\ Queued' = Queued \cup {serving.goal}
          /\ queue' \in Seq(Goals) /\ Len(queue') = Len(queue) + 1
          /\ UniqueInv => (\A j, k \in DOMAIN queue : queue[j] = queue[k] => j = k)'
      BY <2>0, <3>1, <3>2, QueuedAppend DEF TypeOK, UniqueInv
    <3>4. TypeOK'
      BY <2>0, <2>1, <3>1, <3>3 DEF TypeOK, HasRoom, Bounded, Answered
    <3> QED
      BY <2>0, <3>1, <3>2, <3>3, <3>4 DEF TypeOK, UniqueInv
  <2>2. CASE ~HasRoom
    <3>1. /\ Reply(serving.goal, "rejected")
          /\ UNCHANGED <<queue, status, sourceDataMap, resolved, stopper, held,
                         stops>>
      BY <1>4, <2>2 DEF EnqueueGoal
    <3>2. TypeOK'
      BY <2>0, <3>1 DEF Reply, TypeOK, HasRoom, Answered
    <3> QED
      BY <2>0, <3>1, <3>2, <1>a DEF Reply, TypeOK
  <2> QED
    BY <2>1, <2>2
<1>5. CASE BookkeepGoal
  <2>0. serving.goal \in Goals /\ serving.step = "enqueued"
    BY <1>5 DEF BookkeepGoal, TypeOK
  <2>1. TypeOK'
    BY <1>5, <2>0 DEF BookkeepGoal, TypeOK, HasRoom, Answered
  <2> QED
    BY <1>5, <1>a, <2>0, <2>1 DEF BookkeepGoal, TypeOK
<1>6. CASE OnGoalAccepted
  <2>0. serving.goal \in Goals /\ serving.step = "accepted"
    BY <1>6 DEF OnGoalAccepted, TypeOK
  <2>1. TypeOK'
    BY <1>6, <2>0 DEF OnGoalAccepted, Resolve, TypeOK, HasRoom, Answered
  <2> QED
    BY <1>6, <1>a, <2>0, <2>1 DEF OnGoalAccepted, Resolve, TypeOK
<1>7. ASSUME NEW g \in Goals, OnGoalCancelRequest(g) PROVE IInv'
  <2>1. TypeOK'
    BY <1>7 DEF OnGoalCancelRequest, Resolve, TypeOK, HasRoom, Answered
  <2> QED
    BY <1>7, <1>a, <2>1 DEF OnGoalCancelRequest, Resolve, TypeOK
<1> QED
  BY <1>1, <1>2, <1>3, <1>4, <1>5, <1>6, <1>7 DEF Serve, Receive

(* Neither do start(), stop() and the readers.                              *)
LEMMA OwnerStep ==
  ASSUME IInv,
         \/ Start \/ Stop \/ PopSourceData
         \/ \E g \in Goals : AnswerGoal(g)
  PROVE  IInv'
<1> USE GoalAssumption, CapacityAssumption
    DEF IInv, ServingInv, PlaceInv, ReachInv, InProgress, Alive, Idle
<1>a. UNCHANGED queue =>
        Queued' = Queued /\ (UniqueInv /\ held' \subseteq held => UniqueInv')
  BY DEF Queued, UniqueInv
<1>1. CASE Start
  <2>1. TypeOK'
    BY <1>1 DEF Start, TypeOK, HasRoom
  <2> QED
    BY <1>1, <1>a, <2>1 DEF Start, TypeOK
<1>2. CASE StopBegin
  <2>1. TypeOK'
    BY <1>2 DEF StopBegin, TypeOK, HasRoom
  <2> QED
    BY <1>2, <1>a, <2>1 DEF StopBegin, TypeOK
<1>3. CASE StopDrain
  <2>1. CASE queue # <<>>
    <3>1. /\ Queued = Queued' \cup {Head(queue)}
          /\ queue' \in Seq(Goals) /\ Len(queue') = Len(queue) - 1
          /\ Len(queue) \in Nat
          /\ UniqueInv => (\A j, k \in DOMAIN queue : queue[j] = queue[k] => j = k)'
      BY <1>3, <2>1, QueuedTail DEF StopDrain, TypeOK, UniqueInv
    <3>2. TypeOK'
      BY <1>3, <2>1, <3>1 DEF StopDrain, TypeOK, HasRoom, Bounded
    <3> QED
      BY <1>3, <2>1, <3>1, <3>2 DEF StopDrain, TypeOK, UniqueInv
  <2>2. CASE queue = <<>>
    <3>1. TypeOK'
      BY <1>3, <2>2 DEF StopDrain, TypeOK, HasRoom
    <3> QED
      BY <1>3, <1>a, <2>2, <3>1 DEF StopDrain, TypeOK
  <2> QED
    BY <2>1, <2>2
<1>4. CASE StopEnd
  <2>1. TypeOK'
    BY <1>4 DEF StopEnd, TypeOK, HasRoom
  <2> QED
    BY <1>4, <1>a, <2>1 DEF StopEnd, TypeOK
<1>5. CASE PopSourceData
  <2>1. /\ Queued = Queued' \cup {Head(queue)}
        /\ queue' \in Seq(Goals) /\ Head(queue) \in Goals
        /\ Len(queue') = Len(queue) - 1 /\ Len(queue) \in Nat
        /\ UniqueInv =>
             /\ (\A j, k \in DOMAIN queue : queue[j] = queue[k] => j = k)'
             /\ Head(queue) \notin Queued'
    BY <1>5, QueuedTail DEF PopSourceData, TypeOK, UniqueInv
  <2>2. /\ held' = held \cup {Head(queue)}
        /\ UNCHANGED <<status, sourceDataMap, resolved, goal, serving, stopper,
                       stops>>
    BY <1>5 DEF PopSourceData
  <2>3. TypeOK'
    <3>1. (HasRoom \/ Len(queue) = BufferCapacity)'
      BY <2>1 DEF TypeOK, HasRoom, Bounded
    <3>2. held' \subseteq Goals
      BY <2>1, <2>2 DEF TypeOK
    <3> QED
      BY <2>1, <2>2, <3>1, <3>2 DEF TypeOK
  <2>4. held' \cup Queued' = held \cup Queued
    BY <2>1, <2>2
  <2>5. UniqueInv'
    BY <2>1, <2>2 DEF UniqueInv
  <2>6. ServingInv' /\ PlaceInv' /\ ReachInv'
    BY <2>2, <2>4
  <2> QED
    BY <2>3, <2>5, <2>6
<1>6. ASSUME NEW g \in Goals, AnswerGoal(g) PROVE IInv'
  <2>1. PICK answer \in {"succeeded", "aborted"} :
          goal' = [goal EXCEPT ![g] = answer]
    BY <1>6 DEF AnswerGoal
  <2>2. TypeOK'
    BY <1>6, <2>1 DEF AnswerGoal, portVars, TypeOK, HasRoom, Answered
  <2>3. Queued' = Queued /\ UniqueInv'
    BY <1>6, <1>a DEF AnswerGoal, portVars
  <2>4. g \in held /\ g \notin Queued
    BY <1>6 DEF AnswerGoal, UniqueInv
  <2> QED
    BY <1>6, <2>1, <2>2, <2>3, <2>4 DEF AnswerGoal, portVars, TypeOK
<1> QED
  BY <1>1, <1>2, <1>3, <1>4, <1>5, <1>6 DEF Stop

(* A step that changes nothing changes nothing of the invariant.            *)
LEMMA StutterStep == ASSUME IInv, UNCHANGED vars PROVE IInv'
BY DEF IInv, TypeOK, ServingInv, PlaceInv, UniqueInv, ReachInv, InProgress,
       Alive, HasRoom, Queued, vars, portVars

(* The inductive invariant holds in every reachable state.                  *)
LEMMA Invariant == Spec => []IInv
<1>1. IInv /\ [Next]_vars => IInv'
  BY CallbackStep, OwnerStep, StutterStep DEF Next
<1> QED
  BY InitStep, <1>1, PTL DEF Spec

-----------------------------------------------------------------------------
(* Every variable of the port keeps its type, and the queue its capacity.   *)
THEOREM TypeCorrect == Spec => []TypeOK
<1>1. IInv => TypeOK
  BY DEF IInv
<1> QED
  BY Invariant, <1>1, PTL

(* A reader never waits for a goal handle nobody is going to deliver.       *)
THEOREM HandlesArePromised == Spec => []PromisesAreKept
<1>1. IInv => PromisesAreKept
  BY DEF IInv, PlaceInv, PromisesAreKept
<1> QED
  BY Invariant, <1>1, PTL

(* What a client was told is rejected is neither queued nor worked on.      *)
THEOREM RejectionsAreFinal == Spec => []RejectedIsNeverProcessed
<1>1. IInv => RejectedIsNeverProcessed
  BY DEF IInv, PlaceInv, ServingInv, InProgress, Alive, RejectedIsNeverProcessed
<1> QED
  BY Invariant, <1>1, PTL

(* No goal is in two places, or answered before a reader is done with it.   *)
THEOREM GoalsAreProcessedOnce == Spec => []NoDoubleProcessing
<1>1. IInv => NoDoubleProcessing
  <2> SUFFICES ASSUME IInv PROVE NoDoubleProcessing
    OBVIOUS
  <2>1. ASSUME NEW g \in held \cup Queued
        PROVE  goal[g] \notin {"succeeded", "aborted"}
    <3>1. g \in Goals
      BY DEF IInv, TypeOK, Queued
    <3> QED
      BY <3>1 DEF IInv, PlaceInv, ServingInv, InProgress, Alive
  <2> QED
    BY <2>1 DEF IInv, UniqueInv, NoDoubleProcessing
<1> QED
  BY Invariant, <1>1, PTL

(* m_source_data_map holds at most the goal whose callback is in progress.  *)
THEOREM MapStaysSmall == Spec => []MapIsDrained
<1>1. IInv => MapIsDrained
  BY DEF IInv, ServingInv, MapIsDrained
<1> QED
  BY Invariant, <1>1, PTL

(* As long as nobody calls stop(), every goal the server said yes to is     *)
(* with a reader or on its way to one.                                      *)
THEOREM GoalsAreReachable == Spec => []OnlyStopAbandons
<1>1. IInv => OnlyStopAbandons
  BY DEF IInv, ReachInv, OnlyStopAbandons, NoGoalAbandoned
<1> QED
  BY Invariant, <1>1, PTL

-----------------------------------------------------------------------------
(* NodeLifecycle *)
StoppingPhases == {"stop thread", "join", "stop"}
PendingStop == {"posted", "joining", "joined"}

(* What the transition in progress has done so far. *)
PhaseInv ==
  /\ phase \in {"start", "started"} <=> state = "activating"
  /\ phase \in StoppingPhases <=> state \in {"deactivating", "shuttingdown"}
  /\ caller = "async" <=> asyncStop = "stopping"
  /\ caller = "async" => state = "deactivating"

(* Where the ports are started, and where a step thread may exist. *)
ResourceInv ==
  /\ state \in {"activating", "active", "deactivating"} => resource = "started"
  /\ state \in {"unconfigured", "inactive"} =>
       thread = "none" /\ resource # "started"
  /\ phase \in {"start", "stop"} => thread = "none"
  /\ thread # "none" => resource = "started"

(* A thread is joined by one joiner at most, and only while it exists. *)
JoinInv ==
  /\ "transition" \in joiners <=> phase = "join"
  /\ "async" \in joiners <=> asyncStop = "joining"
  /\ ~({"transition", "async"} \subseteq joiners)
  /\ joiners # {} => thread # "none"

(* A step thread that was told to stop has somebody to blame for it. *)
StepInv ==
  /\ state = "active" =>
       stepRunning \/ asyncStop \in PendingStop \cup {"checked"} \/ cancelled
  /\ phase = "started" =>
       stepRunning \/ asyncStop \in PendingStop \/ cancelled

LifeInv ==
  LifeTypeOK /\ PhaseInv /\ ResourceInv /\ JoinInv /\ StepInv /\ ~terminated

-----------------------------------------------------------------------------
(* The inductive invariant holds at first: nothing has been started.        *)
LEMMA LifeBegins == LifeInit => LifeInv
BY DEF LifeInit, LifeInv, LifeTypeOK, PhaseInv, ResourceInv, JoinInv, StepInv,
       StoppingPhases, PendingStop, Primary, Transitions

(* No step of a lifecycle transition breaks the inductive invariant.        *)
LEMMA TransitionStep ==
  ASSUME LifeInv,
         \/ Configure \/ Cleanup \/ ActivateBegin
         \/ DeactivateBegin \/ ShutdownBegin \/ Transition
  PROVE  LifeInv'
<1> USE DEF LifeInv, LifeTypeOK, PhaseInv, ResourceInv, JoinInv, StepInv,
            StoppingPhases, PendingStop, Primary, Transitions,
            transitionVars, threadVars, asyncVars
<1>1. CASE Configure
  BY <1>1 DEF Configure, Stopped
<1>2. CASE Cleanup
  BY <1>2 DEF Cleanup
<1>3. CASE ActivateBegin
  BY <1>3 DEF ActivateBegin
<1>4. CASE DeactivateBegin
  BY <1>4 DEF DeactivateBegin, LeaveActive
<1>5. CASE ShutdownBegin
  BY <1>5 DEF ShutdownBegin, LeaveActive
<1>6. CASE StartStepThread
  BY <1>6 DEF StartStepThread
<1>7. CASE ActivateEnd
  BY <1>7 DEF ActivateEnd
<1>8. CASE Join
  BY <1>8 DEF Join, Arrive
<1>9. CASE Joined
  BY <1>9 DEF Joined
<1>10. CASE StopPorts
  BY <1>10 DEF StopPorts, Arrive, Stopped
<1> QED
  BY <1>1, <1>2, <1>3, <1>4, <1>5, <1>6, <1>7, <1>8, <1>9, <1>10
  DEF Transition

(* Neither do the step thread and the tasks of an asynchronous stop.        *)
LEMMA ThreadStep ==
  ASSUME LifeInv,
         \/ AsyncTask \/ LoopHead \/ StepEnds \/ StepWaits
         \/ InputArrives
         \/ AsyncStop
  PROVE  LifeInv'
<1> USE DEF LifeInv, LifeTypeOK, PhaseInv, ResourceInv, JoinInv, StepInv,
            StoppingPhases, PendingStop, Primary, Transitions,
            transitionVars, threadVars, asyncVars
<1>1. CASE AsyncJoin
  BY <1>1 DEF AsyncJoin
<1>2. CASE AsyncJoined
  BY <1>2 DEF AsyncJoined
<1>3. CASE AsyncStopCheck
  BY <1>3 DEF AsyncStopCheck
<1>4. CASE AsyncDeactivate
  BY <1>4 DEF AsyncDeactivate, LeaveActive
<1>5. CASE LoopHead
  BY <1>5 DEF LoopHead
<1>6. CASE StepEnds
  BY <1>6 DEF StepEnds
<1>7. CASE StepWaits
  BY <1>7 DEF StepWaits
<1>8. CASE InputArrives
  BY <1>8 DEF InputArrives
<1>9. CASE AsyncStop
  BY <1>9 DEF AsyncStop
<1> QED
  BY <1>1, <1>2, <1>3, <1>4, <1>5, <1>6, <1>7, <1>8, <1>9 DEF AsyncTask

(* A step that changes nothing changes nothing of the invariant.            *)
LEMMA LifeStutter == ASSUME LifeInv, UNCHANGED lifeVars PROVE LifeInv'
<1> USE DEF lifeVars, transitionVars, threadVars, asyncVars
<1>0. LifeTypeOK
  BY DEF LifeInv
<1>1. LifeTypeOK'
  <2>1. /\ state' \in Primary \cup Transitions
        /\ phase' \in {"none", "start", "started", "stop thread", "join", "stop"}
        /\ caller' \in {"none", "user", "async"}
        /\ resource' \in {"closed", "open", "started"}
        /\ thread' \in {"none", "head", "step", "blocked", "done"}
        /\ joiners' \subseteq {"transition", "async"}
        /\ asyncStop' \in {"idle", "posted", "joining", "joined", "checked",
                           "stopping", "resolved", "raised"}
    BY <1>0 DEF LifeTypeOK
  <2>2. stepRunning' \in BOOLEAN
    BY <1>0, Zenon DEF LifeTypeOK
  <2>3. terminated' \in BOOLEAN /\ cancelled' \in BOOLEAN
    BY <1>0, Zenon DEF LifeTypeOK
  <2>4. (state \in Transitions <=> phase # "none")'
    BY <1>0 DEF LifeTypeOK, Transitions
  <2>5. (state \in Transitions <=> caller # "none")'
    BY <1>0 DEF LifeTypeOK, Transitions
  <2> QED
    BY <2>1, <2>2, <2>3, <2>4, <2>5, Zenon
    DEF LifeTypeOK, Transitions, Primary
<1>2. PhaseInv'
  BY DEF LifeInv, PhaseInv, StoppingPhases
<1>3. ResourceInv'
  BY DEF LifeInv, ResourceInv
<1>4. JoinInv'
  BY DEF LifeInv, JoinInv
<1>5. StepInv'
  BY DEF LifeInv, StepInv, PendingStop
<1>6. ~terminated'
  BY DEF LifeInv
<1> QED
  BY <1>1, <1>2, <1>3, <1>4, <1>5, <1>6 DEF LifeInv

(* The inductive invariant holds in every reachable state.                  *)
LEMMA LifeInvariant == LifeSpec => []LifeInv
<1>1. LifeInv /\ [LifeNext]_lifeVars => LifeInv'
  BY TransitionStep, ThreadStep, LifeStutter DEF LifeNext
<1> QED
  BY LifeBegins, <1>1, PTL DEF LifeSpec

-----------------------------------------------------------------------------
(* Every variable of the node's life keeps its type.                        *)
THEOREM LifeTypeCorrect == LifeSpec => []LifeTypeOK
<1>1. LifeInv => LifeTypeOK
  BY DEF LifeInv
<1> QED
  BY LifeInvariant, <1>1, PTL

(* _step() never runs on ports that _stop() has stopped.                    *)
THEOREM StepsAreCovered == LifeSpec => []StepsOnlyWhileStarted
<1>1. LifeInv => StepsOnlyWhileStarted
  BY DEF LifeInv, ResourceInv, StepsOnlyWhileStarted
<1> QED
  BY LifeInvariant, <1>1, PTL

(* A node that is INACTIVE or UNCONFIGURED has no step thread and no        *)
(* started port, whoever stopped it.                                        *)
THEOREM NothingIsLeftBehind == LifeSpec => []RestsAlone
<1>1. LifeInv => RestsAlone
  BY DEF LifeInv, ResourceInv, RestsAlone
<1> QED
  BY LifeInvariant, <1>1, PTL

(* on_activate never overwrites a std::thread that is still joinable.       *)
THEOREM ThreadsAreJoined == LifeSpec => []NoThreadIsOverwritten
<1>1. LifeInv => NoThreadIsOverwritten
  BY DEF LifeInv, NoThreadIsOverwritten
<1> QED
  BY LifeInvariant, <1>1, PTL

(* An ACTIVE node without a step thread is the trace of an asynchronous     *)
(* stop that is still going on or that failed.                              *)
THEOREM ActiveNodesStep == LifeSpec => []StartedIsStepping
<1>1. LifeInv => StartedIsStepping
  BY DEF LifeInv, StepInv, PendingStop, StartedIsStepping
<1> QED
  BY LifeInvariant, <1>1, PTL
=============================================================================
