------------------------ MODULE AsyncActionInputPort ------------------------
(***************************************************************************)
(* The receiving end of a connection: AsyncActionInputPort, an action      *)
(* server whose accepted goals wait in a bounded queue until the node's    *)
(* own threads take them out.                                              *)
(*                                                                         *)
(* Three parties touch the port.  The executor runs the server's callbacks *)
(* one at a time (the default callback group is mutually exclusive).  The  *)
(* owner calls start() and stop() from a thread of its own.  The readers,  *)
(* in port_handlers, pop source data, wait for the goal handle and answer. *)
(***************************************************************************)
EXTENDS Integers, Sequences, FiniteSets

CONSTANTS
  Goals,           \* goals clients may send; each is sent once
  NoGoal,          \* stands for the absence of a goal
  Pings,           \* those that carry ControlSignalCode::Ping
  BufferCapacity,  \* get_buffer_capacity(): not positive means unbounded
  MaxStops         \* bound: calls of stop()

ASSUME GoalAssumption ==
  Pings \subseteq Goals /\ IsFiniteSet(Goals) /\ NoGoal \notin Goals
ASSUME CapacityAssumption == BufferCapacity \in Int /\ MaxStops \in Nat

VARIABLES
  status,         \* m_status
  queue,          \* m_source_data_queue
  sourceDataMap,  \* m_source_data_map: goals whose promise is not resolved
  resolved,       \* goals whose goal handle promise has its value
  goal,           \* what the action server knows of each goal
  serving,        \* the goal callback in progress, and how far it is
  stopper,        \* how far the call of stop() is
  held,           \* goals the readers popped and have not answered
  stops           \* history: number of calls of stop()

portVars == <<status, queue, sourceDataMap, resolved, serving, stopper>>
vars == <<portVars, goal, held, stops>>

Idle == [goal |-> NoGoal, step |-> "idle"]

Bounded == BufferCapacity > 0

(* Mutant: room is looked for after the push has been counted. *)
HasRoomOffByOne == Bounded => Len(queue) <= BufferCapacity

HasRoom == Bounded => Len(queue) < BufferCapacity

Answered == {"rejected", "succeeded", "aborted"}
Alive(g) == goal[g] \in {"executing", "canceling"}

(* The state after init(): the server exists, the port is stopped. *)
Init ==
  /\ status = "STOPPED"
  /\ queue = <<>> /\ sourceDataMap = {} /\ resolved = {}
  /\ goal = [g \in Goals |-> "unsent"]
  /\ serving = Idle /\ stopper = "idle"
  /\ held = {} /\ stops = 0

Start ==
  /\ status = "STOPPED"
  /\ status' = "STARTED"
  /\ UNCHANGED <<queue, sourceDataMap, resolved, goal, serving, stopper,
                 held, stops>>

-----------------------------------------------------------------------------
(* _on_goal_received, step by step: every step may be overtaken by a reader *)
(* or by stop().                                                            *)

Reply(g, answer) ==
  /\ goal' = [goal EXCEPT ![g] = answer]
  /\ serving' = Idle

(* Not started, no room for a ping, or the user's callback refuses. *)
RejectGoal(g) ==
  /\ serving = Idle /\ goal[g] = "unsent"
  /\ (status = "STARTED" /\ g \in Pings) => ~HasRoom
  /\ Reply(g, "rejected")
  /\ UNCHANGED <<status, queue, sourceDataMap, resolved, stopper, held, stops>>

(* A ping only probes for room.  It is accepted, and _on_goal_accepted      *)
(* aborts it at once.                                                       *)
AnswerPing(g) ==
  /\ serving = Idle /\ goal[g] = "unsent"
  /\ status = "STARTED" /\ g \in Pings /\ HasRoom
  /\ Reply(g, "aborted")
  /\ UNCHANGED <<status, queue, sourceDataMap, resolved, stopper, held, stops>>

(* The status was looked at and the user does not object. *)
ReceiveGoal(g) ==
  /\ serving = Idle /\ goal[g] = "unsent"
  /\ status = "STARTED" /\ g \notin Pings
  /\ serving' = [goal |-> g, step |-> "checked"]
  /\ UNCHANGED <<status, queue, sourceDataMap, resolved, goal, stopper, held,
                 stops>>

(* Mutant: what try_push returns is not looked at. *)
EnqueueGoalUnchecked ==
  /\ serving.step = "checked"
  /\ queue' = IF HasRoom THEN Append(queue, serving.goal) ELSE queue
  /\ serving' = [serving EXCEPT !.step = "enqueued"]
  /\ UNCHANGED <<status, sourceDataMap, resolved, goal, stopper, held, stops>>

(* try_push: from now on a reader can take the goal. *)
EnqueueGoal ==
  /\ serving.step = "checked"
  /\ IF HasRoom
     THEN /\ queue' = Append(queue, serving.goal)
          /\ serving' = [serving EXCEPT !.step = "enqueued"]
          /\ UNCHANGED goal
     ELSE Reply(serving.goal, "rejected") /\ UNCHANGED queue
  /\ UNCHANGED <<status, sourceDataMap, resolved, stopper, held, stops>>

(* Mutant: a goal that a reader already took is not entered. *)
BookkeepGoalIfQueued ==
  /\ serving.step = "enqueued"
  /\ sourceDataMap' = sourceDataMap \cup
       {g \in {serving.goal} : \E k \in DOMAIN queue : queue[k] = g}
  /\ goal' = [goal EXCEPT ![serving.goal] = "executing"]
  /\ serving' = [serving EXCEPT !.step = "accepted"]
  /\ UNCHANGED <<status, queue, resolved, stopper, held, stops>>

(* Enter the map and return ACCEPT_AND_EXECUTE to the action server. *)
BookkeepGoal ==
  /\ serving.step = "enqueued"
  /\ sourceDataMap' = sourceDataMap \cup {serving.goal}
  /\ goal' = [goal EXCEPT ![serving.goal] = "executing"]
  /\ serving' = [serving EXCEPT !.step = "accepted"]
  /\ UNCHANGED <<status, queue, resolved, stopper, held, stops>>

(* Mutant: the entry is removed before its promise is looked up. *)
ResolveErasingFirst(g) ==
  /\ sourceDataMap' = sourceDataMap \ {g}
  /\ resolved' = IF g \in sourceDataMap' THEN resolved \cup {g} ELSE resolved

(* _resolve_source_data: a goal that is not in the map is left alone. *)
Resolve(g) ==
  /\ resolved' = IF g \in sourceDataMap THEN resolved \cup {g} ELSE resolved
  /\ sourceDataMap' = sourceDataMap \ {g}

OnGoalAccepted ==
  /\ serving.step = "accepted"
  /\ Resolve(serving.goal)
  /\ serving' = Idle
  /\ UNCHANGED <<status, queue, goal, stopper, held, stops>>

(* Mutant: the goal is finished at once, although it is still queued. *)
OnGoalCancelRequestAtOnce(g) ==
  /\ serving = Idle /\ goal[g] = "executing"
  /\ Resolve(g)
  /\ goal' = [goal EXCEPT ![g] = "aborted"]
  /\ UNCHANGED <<status, queue, serving, stopper, held, stops>>

(* A cancel request the user does not refuse: the goal is only marked, it   *)
(* stays where it is.                                                       *)
OnGoalCancelRequest(g) ==
  /\ serving = Idle /\ goal[g] = "executing"
  /\ Resolve(g)
  /\ goal' = [goal EXCEPT ![g] = "canceling"]
  /\ UNCHANGED <<status, queue, serving, stopper, held, stops>>

-----------------------------------------------------------------------------
(* stop(): abort() wakes blocked readers, then the queue is emptied element *)
(* by element, and only then the port counts as stopped.                    *)
StopBegin ==
  /\ status = "STARTED" /\ stopper = "idle" /\ stops < MaxStops
  /\ stops' = stops + 1
  /\ stopper' = "draining"
  /\ UNCHANGED <<status, queue, sourceDataMap, resolved, goal, serving, held>>

StopDrain ==
  /\ stopper = "draining"
  /\ IF queue # <<>>
     THEN queue' = Tail(queue) /\ UNCHANGED stopper
     ELSE stopper' = "drained" /\ UNCHANGED queue
  /\ UNCHANGED <<status, sourceDataMap, resolved, goal, serving, held, stops>>

StopEnd ==
  /\ stopper = "drained"
  /\ status' = "STOPPED" /\ stopper' = "idle"
  /\ UNCHANGED <<queue, sourceDataMap, resolved, goal, serving, held, stops>>

-----------------------------------------------------------------------------
(* pop_source_data and try_pop_source_data. *)
PopSourceData ==
  /\ queue # <<>>
  /\ held' = held \cup {Head(queue)}
  /\ queue' = Tail(queue)
  /\ UNCHANGED <<status, sourceDataMap, resolved, goal, serving, stopper,
                 stops>>

(* A reader answers once get_goal_handle_future() has delivered the handle. *)
AnswerGoal(g) ==
  /\ g \in held \cap resolved /\ Alive(g)
  /\ held' = held \ {g}
  /\ \E answer \in {"succeeded", "aborted"} :
       goal' = [goal EXCEPT ![g] = answer]
  /\ UNCHANGED <<portVars, stops>>

Serve == EnqueueGoal \/ BookkeepGoal \/ OnGoalAccepted
Stop == StopBegin \/ StopDrain \/ StopEnd
Receive(g) == RejectGoal(g) \/ AnswerPing(g) \/ ReceiveGoal(g)

Next ==
  \/ Start \/ Stop \/ Serve \/ PopSourceData
  \/ \E g \in Goals : Receive(g) \/ OnGoalCancelRequest(g) \/ AnswerGoal(g)

Spec == Init /\ [][Next]_vars

(* The executor finishes a callback it entered, stop() returns, and the     *)
(* readers keep reading.                                                    *)
Fairness ==
  /\ WF_vars(Serve) /\ WF_vars(StopDrain) /\ WF_vars(StopEnd)
  /\ WF_vars(PopSourceData)
  /\ \A g \in Goals : WF_vars(AnswerGoal(g))

FairSpec == Spec /\ Fairness

-----------------------------------------------------------------------------
Queued == {queue[k] : k \in DOMAIN queue}

(* Every variable stays in its type, and the queue within its capacity. *)
TypeOK ==
  /\ HasRoom \/ Len(queue) = BufferCapacity
  /\ status \in {"STOPPED", "STARTED"}
  /\ queue \in Seq(Goals)
  /\ {sourceDataMap, resolved, held} \subseteq SUBSET Goals
  /\ goal \in [Goals -> {"unsent", "executing", "canceling"} \cup Answered]
  /\ \/ serving = Idle
     \/ serving \in [goal : Goals, step : {"checked", "enqueued", "accepted"}]
  /\ stopper \in {"idle", "draining", "drained"}
  /\ stops \in Nat

(* A reader that waits for the handle of a goal waits for a promise that    *)
(* somebody still has to keep: no thread hangs in get_goal_handle_future(). *)
PromisesAreKept ==
  \A g \in held :
    \/ g \in resolved
    \/ g = serving.goal

(* The client was told "rejected" exactly for the goals nobody will work on *)
RejectedIsNeverProcessed ==
  \A g \in Goals : goal[g] = "rejected" => g \notin held \cup Queued

(* One goal is in one place: neither queued twice nor queued and held, and  *)
(* nobody answers it while it is still on its way to a reader.              *)
NoDoubleProcessing ==
  /\ \A j, k \in DOMAIN queue : queue[j] = queue[k] => j = k
  /\ Queued \cap held = {}
  /\ \A g \in held \cup Queued : goal[g] \notin {"succeeded", "aborted"}

(* The map does not grow for ever: between callbacks it is empty. *)
MapIsDrained == sourceDataMap \subseteq {serving.goal}

(* Accepted goals are answered as long as nobody stops the port. *)
AcceptedIsAnswered ==
  \A g \in Goals : Alive(g) ~> goal[g] \in Answered \/ stops > 0

(* "previously accepted goals will still be processed" (stop()): a goal the *)
(* server said yes to is with a reader or on its way to one.                *)
NoGoalAbandoned ==
  \A g \in Goals : Alive(g) => g \in held \cup Queued

(* Nothing but stop() abandons a goal: whatever readers, cancel requests    *)
(* and a full queue do to it, a goal that was accepted stays reachable.     *)
OnlyStopAbandons == stops = 0 => NoGoalAbandoned
=============================================================================
