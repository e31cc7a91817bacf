-------------------------- MODULE CallActionDriver --------------------------
(***************************************************************************)
(* A driver node: CallActionDriverBase with its three ports.  The step     *)
(* thread takes goals from the input port and pushes them to the callee    *)
(* port (PullProcessSendHandler); the delivery callback of the callee port *)
(* waits for the callee's result and pushes it to the output port.         *)
(*                                                                         *)
(* The ports are reduced to what AsyncActionInputPort and                  *)
(* AsyncActionOutputPort promise: a bounded queue, and a bounded FIFO that *)
(* is delivered in order, one request at a time.  Their clients get every  *)
(* answer from one single-threaded executor.                               *)
(***************************************************************************)
EXTENDS Naturals, Sequences

CONSTANTS
  Goals,          \* what upstream sends; each goal is sent once
  NoGoal,         \* stands for the absence of a goal
  Signals,        \* those that carry Flush or Terminate: never dropped
  BadInputs,      \* goals the hook on_process_input_request refuses
  BadResults,     \* goals the hook on_process_callee_result refuses
  InputCapacity,  \* buffer capacity of the input port
  Capacity,       \* items each output port's delivery graph can hold
  MaxStarts,      \* bound: activations of the node
  MaxLosses       \* bound: goals whose answer never comes

ASSUME GoalAssumption ==
  /\ NoGoal \notin Goals
  /\ Signals \cup BadInputs \cup BadResults \subseteq Goals
ASSUME SizeAssumption ==
  /\ {InputCapacity, Capacity} \subseteq Nat \ {0}
  /\ {MaxStarts, MaxLosses} \subseteq Nat

VARIABLES
  phase,     \* the transition of the node in progress, or its state
  caller,    \* who runs on_deactivate: the executor or another thread
  started,   \* ports that are STARTED
  input,     \* queue of the input port
  goal,      \* what upstream knows of each goal
  step,      \* the step thread
  queue,     \* requests each output port accepted and has not begun
  delivery,  \* the delivery each output port is busy with
  accepted,  \* history: goals in the order the input port accepted them
  received,  \* history: goals in the order downstream received them
  failed,    \* history: requests the callee did not succeed with
  starts, losses  \* history: how often that happened

nodeVars == <<phase, caller, started, starts>>
inputVars == <<input, goal, accepted>>
portVars == <<queue, delivery>>
outcomeVars == <<received, failed>>
vars == <<nodeVars, inputVars, step, portVars, outcomeVars, losses>>

OutputPorts == {"callee", "output"}
Nothing == [at |-> "idle", goal |-> NoGoal]
ExecutorIsFree == caller # "executor"

(* Configured and not yet activated. *)
Init ==
  /\ phase = "inactive" /\ caller = "none" /\ started = {} /\ starts = 0
  /\ input = <<>> /\ accepted = <<>>
  /\ goal = [g \in Goals |-> "unsent"]
  /\ step = [at |-> "none", goal |-> NoGoal]
  /\ queue = [p \in OutputPorts |-> <<>>]
  /\ delivery = [p \in OutputPorts |-> Nothing]
  /\ received = <<>> /\ failed = {} /\ losses = 0

-----------------------------------------------------------------------------
(* on_activate: _start() starts the ports, then the step thread starts. *)
Activate ==
  /\ phase = "inactive" /\ starts < MaxStarts
  /\ phase' = "active" /\ starts' = starts + 1
  /\ started' = {"input"} \cup OutputPorts
  /\ step' = [step EXCEPT !.at = "head"]
  /\ UNCHANGED <<caller, inputVars, portVars, outcomeVars, losses>>

(* on_deactivate tells the step thread to end and joins it.  The lifecycle  *)
(* service runs it in the executor, stop() and _async_stop() in a thread.   *)
Deactivate(who) ==
  /\ phase = "active"
  /\ phase' = "joining" /\ caller' = who
  /\ UNCHANGED <<started, starts, inputVars, step, portVars, outcomeVars, losses>>

Joined ==
  /\ phase = "joining" /\ step.at = "none"
  /\ phase' = "stopping"
  /\ UNCHANGED <<caller, started, starts, inputVars, step, portVars, outcomeVars,
                 losses>>

(* Mutant: the output port is stopped before the port that feeds it. *)
StopOrderReversed == <<"input", "output", "callee">>

(* The order in which _stop() stops the ports. *)
StopOrder == <<"input", "callee", "output">>

(* The first port of StopOrder that is still started. *)
Stopping(p) ==
  /\ phase = "stopping" /\ p \in started
  /\ \E k \in DOMAIN StopOrder :
       StopOrder[k] = p /\ \A j \in 1 .. k - 1 : StopOrder[j] \notin started

(* Nobody waits for the goals that are still queued: they are dropped. *)
StopInput ==
  /\ Stopping("input")
  /\ started' = started \ {"input"}
  /\ input' = <<>>
  /\ UNCHANGED <<phase, caller, starts, goal, accepted, step, portVars,
                 outcomeVars, losses>>

(* Mutant: the delivery under way is not waited for. *)
StopOutputPortAtOnce(p) ==
  /\ Stopping(p)
  /\ queue[p] = <<>>
  /\ started' = started \ {p}
  /\ UNCHANGED <<phase, caller, starts, inputVars, step, portVars, outcomeVars,
                 losses>>

(* An output port waits until its delivery graph has nothing left to do. *)
StopOutputPort(p) ==
  /\ Stopping(p)
  /\ queue[p] = <<>> /\ delivery[p].at = "idle"
  /\ started' = started \ {p}
  /\ UNCHANGED <<phase, caller, starts, inputVars, step, portVars, outcomeVars,
                 losses>>

Deactivated ==
  /\ phase = "stopping" /\ started = {}
  /\ phase' = "inactive" /\ caller' = "none"
  /\ UNCHANGED <<started, starts, inputVars, step, portVars, outcomeVars, losses>>

-----------------------------------------------------------------------------
(* The input port's goal callback runs in the executor. *)
ReceiveGoal(g) ==
  /\ ExecutorIsFree /\ goal[g] = "unsent"
  /\ IF "input" \in started /\ Len(input) < InputCapacity
     THEN /\ goal' = [goal EXCEPT ![g] = "executing"]
          /\ input' = Append(input, g)
          /\ accepted' = Append(accepted, g)
     ELSE /\ goal' = [goal EXCEPT ![g] = "rejected"]
          /\ UNCHANGED <<input, accepted>>
  /\ UNCHANGED <<nodeVars, step, portVars, outcomeVars, losses>>

(* The loop of the step thread ends once it is told to. *)
StepEnds ==
  /\ step.at = "head" /\ phase # "active"
  /\ step' = [step EXCEPT !.at = "none"]
  /\ UNCHANGED <<nodeVars, inputVars, portVars, outcomeVars, losses>>

(* process_and_send pops a goal; its handle is there. *)
StepPops ==
  /\ step.at = "head" /\ phase = "active" /\ input # <<>>
  /\ step' = [at |-> "processing", goal |-> Head(input)]
  /\ input' = Tail(input)
  /\ UNCHANGED <<nodeVars, goal, accepted, portVars, outcomeVars, losses>>

Answer(answer) ==
  /\ goal' = [goal EXCEPT ![step.goal] = answer]
  /\ step' = [at |-> "head", goal |-> NoGoal]

StepProcesses ==
  /\ step.at = "processing"
  /\ IF step.goal \in BadInputs
     THEN Answer("aborted")
     ELSE step' = [step EXCEPT !.at = "pushing"] /\ UNCHANGED goal
  /\ UNCHANGED <<nodeVars, input, accepted, portVars, outcomeVars, losses>>

-----------------------------------------------------------------------------
(* push_request and the delivery graph of an output port.                   *)

(* Mutant: the request that is being delivered is not counted. *)
HasRoomOffByOne(p) == Len(queue[p]) < Capacity

HasRoom(p) ==
  Len(queue[p]) + (IF delivery[p].at = "idle" THEN 0 ELSE 1) < Capacity

MayPush(p) == p \in started /\ HasRoom(p)
Enqueue(p, g) == queue' = [queue EXCEPT ![p] = Append(@, g)]

(* A control signal is pushed again until the port takes it (NoDrop).       *)
StepPushes ==
  /\ step.at = "pushing" /\ MayPush("callee")
  /\ Enqueue("callee", step.goal)
  /\ Answer("succeeded")
  /\ UNCHANGED <<nodeVars, input, accepted, delivery, outcomeVars, losses>>

(* The port refuses a frame as often as the enqueue policy tries.  The goal *)
(* is answered as if it had been sent.                                      *)
StepDrops ==
  /\ step.at = "pushing" /\ step.goal \notin Signals
  /\ Answer("succeeded")
  /\ UNCHANGED <<nodeVars, input, accepted, portVars, outcomeVars, losses>>

Delivers(p, at, g) == delivery' = [delivery EXCEPT ![p] = [at |-> at, goal |-> g]]

(* Mutant: the delivery graph has no sequencer. *)
DeliveryBeginAny(p) ==
  /\ delivery[p].at = "idle"
  /\ \E k \in DOMAIN queue[p] :
       /\ Delivers(p, "sending", queue[p][k])
       /\ queue' = [queue EXCEPT ![p] = SubSeq(@, 1, k - 1)
                                          \o SubSeq(@, k + 1, Len(@))]
  /\ UNCHANGED <<nodeVars, inputVars, step, outcomeVars, losses>>

(* With preserve_request_order, the default, one delivery follows another.  *)
DeliveryBegin(p) ==
  /\ delivery[p].at = "idle" /\ queue[p] # <<>>
  /\ Delivers(p, "sending", Head(queue[p]))
  /\ queue' = [queue EXCEPT ![p] = Tail(@)]
  /\ UNCHANGED <<nodeVars, inputVars, step, outcomeVars, losses>>

(* The precondition of a frame fails, or the server rejects it as often as  *)
(* the delivery policy asks.  A control signal is sent again and again.     *)
GiveUp(p) ==
  /\ delivery[p].at = "sending" /\ ExecutorIsFree
  /\ delivery[p].goal \notin Signals
  /\ Delivers(p, "idle", NoGoal)
  /\ UNCHANGED <<nodeVars, inputVars, step, queue, outcomeVars, losses>>

(* The executor hands over the answer ACCEPTED. *)
CalleeAccepts ==
  /\ delivery["callee"].at = "sending" /\ ExecutorIsFree
  /\ Delivers("callee", "waiting", delivery["callee"].goal)
  /\ UNCHANGED <<nodeVars, inputVars, step, queue, outcomeVars, losses>>

DownstreamAccepts ==
  /\ delivery["output"].at = "sending" /\ ExecutorIsFree
  /\ received' = Append(received, delivery["output"].goal)
  /\ Delivers("output", "idle", NoGoal)
  /\ UNCHANGED <<nodeVars, inputVars, step, queue, failed, losses>>

(* A server that crashes, or a callee whose input port is stopped with the  *)
(* goal in its queue, never answers: the sender waits again and again, and  *)
(* async_get_result has no timeout.                                         *)
Lose(p) ==
  /\ delivery[p].at \in {"sending", "waiting"} /\ losses < MaxLosses
  /\ Delivers(p, "lost", delivery[p].goal)
  /\ losses' = losses + 1
  /\ UNCHANGED <<nodeVars, inputVars, step, queue, outcomeVars>>

-----------------------------------------------------------------------------
(* _internal_request_sent_to_callee, the delivery callback.                 *)

(* async_get_result: only a goal that SUCCEEDED has a response. *)
CalleeSucceeds ==
  /\ delivery["callee"].at = "waiting" /\ ExecutorIsFree
  /\ IF delivery["callee"].goal \in BadResults
     THEN Delivers("callee", "idle", NoGoal)
     ELSE Delivers("callee", "responding", delivery["callee"].goal)
  /\ UNCHANGED <<nodeVars, inputVars, step, queue, outcomeVars, losses>>

CalleeAborts ==
  /\ delivery["callee"].at = "waiting" /\ ExecutorIsFree
  /\ failed' = failed \cup {delivery["callee"].goal}
  /\ Delivers("callee", "idle", NoGoal)
  /\ UNCHANGED <<nodeVars, inputVars, step, queue, received, losses>>

PushResponse ==
  /\ delivery["callee"].at = "responding" /\ MayPush("output")
  /\ Enqueue("output", delivery["callee"].goal)
  /\ Delivers("callee", "idle", NoGoal)
  /\ UNCHANGED <<nodeVars, inputVars, step, outcomeVars, losses>>

(* Mutant: the response is not made reliable. *)
DropResponseOfSignals ==
  /\ delivery["callee"].at = "responding"
  /\ Delivers("callee", "idle", NoGoal)
  /\ UNCHANGED <<nodeVars, inputVars, step, queue, outcomeVars, losses>>

(* The output port refuses the response of a frame. *)
DropResponse ==
  /\ delivery["callee"].at = "responding"
  /\ delivery["callee"].goal \notin Signals
  /\ Delivers("callee", "idle", NoGoal)
  /\ UNCHANGED <<nodeVars, inputVars, step, queue, outcomeVars, losses>>

-----------------------------------------------------------------------------
Step == StepEnds \/ StepPops \/ StepProcesses \/ StepPushes \/ StepDrops
Stop == StopInput \/ \E p \in OutputPorts : StopOutputPort(p)
Deactivating == Joined \/ Stop \/ Deactivated
CalleeAnswers == CalleeAccepts \/ GiveUp("callee")
DownstreamAnswers == DownstreamAccepts \/ GiveUp("output")
CalleeReturns == CalleeSucceeds \/ CalleeAborts
Respond == PushResponse \/ DropResponse

Next ==
  \/ Activate \/ Deactivating \/ Step
  \/ \E who \in {"executor", "thread"} : Deactivate(who)
  \/ \E g \in Goals : ReceiveGoal(g)
  \/ \E p \in OutputPorts : DeliveryBegin(p) \/ Lose(p)
  \/ CalleeAnswers \/ CalleeReturns \/ Respond \/ DownstreamAnswers

Spec == Init /\ [][Next]_vars

(* Threads and graphs go on, servers answer what they have not lost, and    *)
(* one that is asked again and again accepts.  Nobody has to send a goal or *)
(* ask for a transition.                                                    *)
Fairness ==
  /\ WF_vars(Step) /\ WF_vars(Deactivating)
  /\ \A p \in OutputPorts : WF_vars(DeliveryBegin(p))
  /\ WF_vars(CalleeAnswers) /\ WF_vars(CalleeReturns)
  /\ WF_vars(Respond) /\ WF_vars(DownstreamAnswers)

FairSpec == Spec /\ Fairness

-----------------------------------------------------------------------------
(* Every variable stays in its type, and no port above its capacity. *)
TypeOK ==
  /\ phase \in {"inactive", "active", "joining", "stopping"}
  /\ caller \in {"none", "executor", "thread"}
  /\ started \subseteq {"input"} \cup OutputPorts
  /\ {starts, losses} \subseteq Nat
  /\ {input, accepted, received} \subseteq Seq(Goals)
  /\ Len(input) <= InputCapacity
  /\ failed \subseteq Goals
  /\ goal \in [Goals -> {"unsent", "executing", "rejected", "succeeded",
                        "aborted"}]
  /\ step \in [at : {"none", "head"}, goal : {NoGoal}]
       \cup [at : {"processing", "pushing"}, goal : Goals]
  /\ queue \in [OutputPorts -> Seq(Goals)]
  /\ delivery \in [OutputPorts -> {Nothing} \cup
       [at : {"sending", "waiting", "responding", "lost"}, goal : Goals]]
  /\ \A p \in OutputPorts :
       Len(queue[p]) + (IF delivery[p].at = "idle" THEN 0 ELSE 1) <= Capacity

IsBusy(p) == queue[p] # <<>> \/ delivery[p].at # "idle"

(* A port is stopped only when nothing can push to it any more: neither the *)
(* step thread nor a delivery whose response still has to go out.           *)
PortsOutliveTheirUsers ==
  /\ step.at # "none" => "callee" \in started
  /\ IsBusy("callee") => OutputPorts \subseteq started
  /\ IsBusy("output") => "output" \in started

(* Downstream gets responses in the order upstream sent the requests, each  *)
(* once: a Flush overtakes no frame on its way through the three ports.     *)
NothingOvertakes ==
  \A j, k \in DOMAIN received : j < k =>
    \E m, n \in DOMAIN accepted :
      m < n /\ accepted[m] = received[j] /\ accepted[n] = received[k]

(* A delivery that cannot end: its answer is lost, or the executor that had *)
(* to hand it over is deactivating the node.                                *)
IsHeldUp ==
  \E p \in OutputPorts :
    \/ delivery[p].at = "lost"
    \/ caller = "executor" /\ delivery[p].at \in {"sending", "waiting"}

(* "Abnormal signal must be delivered reliably": a control signal that the  *)
(* step thread took reaches downstream, also when the node is stopped right *)
(* then, unless the callee fails on it or a delivery is held up.            *)
SignalsAreForwarded ==
  \A s \in Signals \ (BadInputs \cup BadResults) :
    step.goal = s ~>
      \/ \E k \in DOMAIN received : received[k] = s
      \/ s \in failed
      \/ IsHeldUp

(* Deactivating the node comes to an end unless a delivery is held up.      *)
StopsUnlessHeldUp ==
  phase \in {"joining", "stopping"} ~> phase = "inactive" \/ IsHeldUp
=============================================================================
