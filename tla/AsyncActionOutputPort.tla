----------------------- MODULE AsyncActionOutputPort -----------------------
(***************************************************************************)
(* The sending end of a connection: AsyncActionOutputPort and the          *)
(* SyncActionSender it sends goals with.                                   *)
(*                                                                         *)
(* Any thread may push a request; the flow graph of SingleBufferExecNode   *)
(* (modelled here by the FIFO it implements) runs _do_task_delivery_main   *)
(* for one request after the other, and the owner stops the port meanwhile *)
(* Downstream nodes are external: they accept or reject a goal they were   *)
(* sent, they come online, and they may crash with goals in their hands.   *)
(***************************************************************************)
EXTENDS Integers, Sequences, FiniteSets

CONSTANTS
  Requests,         \* requests; each is pushed once, by a thread of its own
  NumDownstreams,   \* length of m_downstreams
  PipelineCapacity, \* items the delivery graph can hold
  Configs,          \* the configurations of a port and what it may live through
  MaxStops, MaxTimeouts  \* bounds

Downstreams == 1 .. NumDownstreams

(* number_of_retry may be unset, and has a fallback then; of the times only *)
(* the sign of wait_time_retry_response matters.                            *)
Unset == -1
RetryPolicies ==
  [retries : Nat \cup {Unset}, fallback : Nat,
   wait : {"zero", "positive", "negative"}]

Preconditions ==
  {"DontCare", "NoPrecondition", "AnyDownstreamReady", "AllDownstreamsReady"}
Policies ==
  [strategy : {"NoDrop", "DropAsNeeded", "DontCare"},
   precondition : Preconditions, retry : RetryPolicies]

NumberOfRetry(policy) ==
  IF policy.retry.retries = Unset THEN policy.retry.fallback
                                  ELSE policy.retry.retries

(* A policy that was not changed: nothing is dropped, and it does not ask   *)
(* whether the downstreams are ready.                                       *)
DefaultPolicy ==
  [strategy |-> "NoDrop", precondition |-> "DontCare",
   retry |-> [retries |-> Unset, fallback |-> 3, wait |-> "positive"]]

(* A request's own policy is optional: a set of one or none.  make_reliable *)
(* leaves its times and numbers alone.                                      *)
MakeReliable(own) ==
  {[policy EXCEPT !.precondition = "NoPrecondition", !.strategy = "NoDrop"] :
     policy \in IF own = {} THEN {DefaultPolicy} ELSE own}

ASSUME SizeAssumption ==
  NumDownstreams \in Nat \ {0} /\ PipelineCapacity \in Nat \ {0}

(* The policies of the downstreams, the precondition of requests that have  *)
(* no policy, get_preserve_request_order(), and the execution tokens of the *)
(* delivery graph.                                                          *)
IsInitConfig(c) ==
  /\ c.downstream \in [Downstreams -> Policies]
  /\ c.fallback \in Preconditions
  /\ c.order \in BOOLEAN /\ c.workers \in Nat \ {0}

(* Besides, what the port is used for and lives through.  enqueue: the      *)
(* policy that push_request is called with; own: that of the request, if it *)
(* has one; shutdowns: what may go down; crashes: a bound.                  *)
ASSUME ConfigAssumption ==
  \A c \in Configs :
    /\ IsInitConfig(c)
    /\ c.enqueue \in [Requests -> Policies]
    /\ \A r \in Requests :
         c.own[r] \subseteq Policies /\ Cardinality(c.own[r]) <= 1
    /\ c.shutdowns \subseteq {"node", "ros"} /\ c.crashes \in Nat
ASSUME BoundAssumption == {MaxStops, MaxTimeouts} \subseteq Nat

VARIABLES
  config,      \* m_init_config, and the bounds of what may happen
  status,      \* m_status
  checked,     \* m_checked_downstreams_online
  stopper,     \* how far the call of stop() is
  down,        \* what went down: the node's lifecycle, or ROS itself
  pushing,     \* each call of push_request: step and attempts made
  queue,       \* requests the delivery graph accepted and has not begun
  delivery,    \* each request's run of _do_task_delivery_main
  result,      \* its DeliveryResultCode
  goals,       \* goals sent and not yet answered, or answered unseen
  raised,      \* what RDX_RAISE_ERROR was called for
  online,      \* downstreams whose action server is up
  enqueued,    \* history: requests in the order put_data took them
  acceptedBy,  \* history: requests each downstream accepted, in order
  tries,       \* history: attempts made per request and downstream
  due,         \* history: requests stop() has to wait for
  stops, crashes  \* history: how often that happened

portVars == <<config, status, checked, stopper, down>>
pushVars == <<pushing, enqueued>>
deliveryVars == <<delivery, result, goals, raised, tries>>
downstreamVars == <<online, acceptedBy, crashes>>
vars == <<portVars, pushVars, queue, deliveryVars, downstreamVars, due, stops>>

PreserveOrder == config.order
NumWorkers == config.workers
Shutdowns == config.shutdowns

(* A request is known by its policy, a downstream by its number and policy. *)
OwnPolicy(r) == config.own[r]
DownstreamPolicy(d) == config.downstream[d]

(* The request's own policy is used throughout if it has one.               *)
PolicyFor(r, d) ==
  CHOOSE policy \in IF OwnPolicy(r) = {} THEN {DownstreamPolicy(d)}
                    ELSE OwnPolicy(r) : TRUE
PreconditionOf(r) ==
  IF OwnPolicy(r) = {} THEN config.fallback ELSE PolicyFor(r, 1).precondition

MaxAttempts(r, d) == NumberOfRetry(PolicyFor(r, d)) + 1
MaxEnqueueAttempts(r) == NumberOfRetry(config.enqueue[r]) + 1
IsShuttingDown == down # {}

NotBegun == [step |-> "idle", ds |-> 1, attempt |-> 0, timeouts |-> 0,
             ready |-> 0, delivered |-> FALSE]
Running == {r \in Requests : delivery[r].step \notin {"idle", "done"}}
Goal(r) == [request |-> r, ds |-> delivery[r].ds,
            attempt |-> delivery[r].attempt]

(* The state after init(). *)
Init ==
  /\ config \in Configs
  /\ status = "STOPPED" /\ checked = FALSE /\ stopper = "idle" /\ down = {}
  /\ pushing = [r \in Requests |-> [step |-> "idle", attempt |-> 0]]
  /\ queue = <<>>
  /\ delivery = [r \in Requests |-> NotBegun]
  /\ result = [r \in Requests |-> "none"]
  /\ goals = {} /\ raised = {} /\ online = {}
  /\ enqueued = <<>>
  /\ acceptedBy = [d \in Downstreams |-> <<>>]
  /\ tries = [r \in Requests |-> [d \in Downstreams |-> 0]]
  /\ due = {} /\ stops = 0 /\ crashes = 0

-----------------------------------------------------------------------------
(* start(), stop() and what brings the process down. *)
Start ==
  /\ status = "STOPPED"
  /\ status' = "STARTED"
  /\ UNCHANGED <<config, checked, stopper, down, pushVars, queue, deliveryVars,
                 downstreamVars, due, stops>>

StopBegin ==
  /\ status = "STARTED" /\ stopper = "idle" /\ stops < MaxStops
  /\ stops' = stops + 1
  /\ stopper' = "waiting"
  /\ due' = Running \cup {queue[k] : k \in DOMAIN queue}
  /\ UNCHANGED <<config, status, checked, down, pushVars, queue, deliveryVars,
                 downstreamVars>>

(* Mutant: stop() does not wait for the delivery that is running. *)
GraphIsIdleExceptRunning == queue = <<>> /\ raised = {}

(* wait_for_all returns when the graph has nothing left to do; an error      *)
(* raised inside the graph comes out of it as an exception: stop() is over   *)
(* without an effect.                                                        *)
GraphIsIdle == queue = <<>> /\ Running = {} /\ raised = {}

StopWaited ==
  /\ stopper = "waiting" /\ GraphIsIdle
  /\ stopper' = "waited"
  /\ UNCHANGED <<config, status, checked, down, pushVars, queue, deliveryVars,
                 downstreamVars, due, stops>>

StopEnd ==
  /\ stopper = "waited"
  /\ stopper' = "idle"
  /\ checked' = FALSE
  /\ status' = "STOPPED"
  /\ UNCHANGED <<config, down, pushVars, queue, deliveryVars, downstreamVars,
                 due, stops>>

GoDown(what) ==
  /\ what \in Shutdowns \ down
  /\ down' = down \cup {what}
  /\ UNCHANGED <<config, status, checked, stopper, pushVars, queue,
                 deliveryVars, downstreamVars, due, stops>>

-----------------------------------------------------------------------------
(* push_request.  An attempt is one call of try_push_request: look at the   *)
(* status, wait once for the downstreams to come online, put the data.  The *)
(* wait has no limit but the end of ROS, which raises an error out of       *)
(* push_request.                                                            *)
Pushed(r, step, attempt) ==
  pushing' = [pushing EXCEPT ![r] = [step |-> step, attempt |-> attempt]]

PushBegin(r) ==
  /\ pushing[r].step = "idle" /\ status = "STARTED"
  /\ Pushed(r, "trying", 0)
  /\ UNCHANGED <<portVars, enqueued, queue, deliveryVars, downstreamVars, due,
                 stops>>

PushCheck(r) ==
  /\ pushing[r].step = "trying"
  /\ status = "STARTED" /\ ~IsShuttingDown
  /\ Pushed(r, IF checked THEN "checked" ELSE "connecting", pushing[r].attempt)
  /\ UNCHANGED <<portVars, enqueued, queue, deliveryVars, downstreamVars, due,
                 stops>>

PushConnected(r) ==
  /\ pushing[r].step = "connecting" /\ online = Downstreams
  /\ checked' = TRUE
  /\ Pushed(r, "checked", pushing[r].attempt)
  /\ UNCHANGED <<config, status, stopper, down, enqueued, queue, deliveryVars,
                 downstreamVars, due, stops>>

PushRaises(r) ==
  /\ pushing[r].step = "connecting" /\ "ros" \in down
  /\ Pushed(r, "raised", pushing[r].attempt)
  /\ UNCHANGED <<portVars, enqueued, queue, deliveryVars, downstreamVars, due,
                 stops>>

PushAccepted(r) ==
  /\ pushing[r].step = "checked"
  /\ Len(queue) + Cardinality(Running) < PipelineCapacity
  /\ queue' = Append(queue, r)
  /\ enqueued' = Append(enqueued, r)
  /\ Pushed(r, "enqueued", pushing[r].attempt)
  /\ UNCHANGED <<portVars, deliveryVars, downstreamVars, due, stops>>

(* After a failed attempt the strategy decides whether there is another. *)
PushAgain(r) ==
  CASE config.enqueue[r].strategy = "NoDrop" -> ~IsShuttingDown
    [] config.enqueue[r].strategy = "DropAsNeeded" ->
         pushing[r].attempt + 1 < MaxEnqueueAttempts(r) /\ ~IsShuttingDown
    [] OTHER -> FALSE

(* The port is not started, the node goes down, or put_data refuses: the    *)
(* limiter may refuse as long as decrements are under way.                  *)
PushFailed(r) ==
  /\ \/ /\ pushing[r].step = "trying"
        /\ status # "STARTED" \/ IsShuttingDown
     \/ pushing[r].step = "checked"
  /\ IF PushAgain(r)
     THEN Pushed(r, "trying", IF config.enqueue[r].strategy = "NoDrop" THEN 0
                              ELSE pushing[r].attempt + 1)
     ELSE Pushed(r, "false", pushing[r].attempt)
  /\ UNCHANGED <<portVars, enqueued, queue, deliveryVars, downstreamVars, due,
                 stops>>

(* Mutant: the result of the last attempt is forgotten. *)
PushReturnForgetting(r) ==
  /\ pushing[r].step = "enqueued"
  /\ IF PushAgain(r) THEN Pushed(r, "trying", pushing[r].attempt)
                     ELSE Pushed(r, "true", pushing[r].attempt)
  /\ UNCHANGED <<portVars, enqueued, queue, deliveryVars, downstreamVars, due,
                 stops>>

(* With NoDrop the answer is not what put_data said, but whether the node   *)
(* is shutting down by now.                                                 *)
PushReturn(r) ==
  /\ pushing[r].step = "enqueued"
  /\ Pushed(r, IF config.enqueue[r].strategy = "NoDrop" /\ IsShuttingDown
               THEN "false" ELSE "true", pushing[r].attempt)
  /\ UNCHANGED <<portVars, enqueued, queue, deliveryVars, downstreamVars, due,
                 stops>>

-----------------------------------------------------------------------------
(* _do_task_delivery_main *)
Goes(r, changed) == delivery' = [delivery EXCEPT ![r] = changed]

(* Mutant: the callback node is not serial, so that two requests overtake   *)
(* each other while one of them is retried.                                 *)
MayBeginInParallel(k) == k <= NumWorkers /\ Cardinality(Running) < NumWorkers

(* Behind a sequencer the output callbacks run one by one, in order. *)
MayBegin(k) ==
  IF PreserveOrder THEN k = 1 /\ Running = {}
  ELSE k <= NumWorkers /\ Cardinality(Running) < NumWorkers

DeliveryBegin(k) ==
  /\ k \in DOMAIN queue /\ raised = {} /\ MayBegin(k)
  /\ Goes(queue[k], [NotBegun EXCEPT
       !.step = IF PreconditionOf(queue[k]) \in {"DontCare", "NoPrecondition"}
                THEN "attempt" ELSE "ping"])
  /\ queue' = SubSeq(queue, 1, k - 1) \o SubSeq(queue, k + 1, Len(queue))
  /\ UNCHANGED <<portVars, pushVars, result, goals, raised, tries,
                 downstreamVars, due, stops>>

Satisfied(r, ready) ==
  CASE PreconditionOf(r) = "AnyDownstreamReady" -> ready > 0
    [] PreconditionOf(r) = "AllDownstreamsReady" ->
         ready = NumDownstreams
    [] OTHER -> TRUE

Finish(r, code) ==
  /\ Goes(r, [delivery[r] EXCEPT !.step = "done"])
  /\ result' = [result EXCEPT ![r] = code]

(* _ping: without waiting, or with nobody there, a downstream is not ready. *)
Ping(r) ==
  LET d == delivery[r] IN
  /\ d.step = "ping" /\ raised = {}
  /\ \E isReady \in BOOLEAN :
       /\ isReady => d.ds \in online /\ DownstreamPolicy(d.ds).retry.wait # "zero"
       /\ LET ready == IF isReady THEN d.ready + 1 ELSE d.ready IN
          \/ /\ Satisfied(r, ready)
             /\ Goes(r, [NotBegun EXCEPT !.step = "attempt"])
             /\ UNCHANGED result
          \/ /\ ~Satisfied(r, ready) /\ d.ds < NumDownstreams
             /\ Goes(r, [d EXCEPT !.ready = ready, !.ds = d.ds + 1])
             /\ UNCHANGED result
          \/ /\ ~Satisfied(r, ready) /\ d.ds = NumDownstreams
             /\ Finish(r, "NotTried")
  /\ UNCHANGED <<portVars, pushVars, queue, goals, raised, tries,
                 downstreamVars, due, stops>>

(* Mutant: one downstream's answer stands for all of them. *)
DeliveredToLastDecides(r, success) ==
  LET d == delivery[r]
  IN IF d.ds < NumDownstreams
     THEN /\ Goes(r, [NotBegun EXCEPT !.step = "attempt", !.ds = d.ds + 1])
          /\ UNCHANGED result
     ELSE Finish(r, IF success THEN "Success" ELSE "TriedButFailed")

(* _deliver_data_with_retry returned: on to the next downstream. *)
DeliveredTo(r, success) ==
  LET d == delivery[r]
      any == d.delivered \/ success
  IN IF d.ds < NumDownstreams
     THEN /\ Goes(r, [NotBegun EXCEPT !.step = "attempt", !.ds = d.ds + 1,
                                      !.delivered = any])
          /\ UNCHANGED result
     ELSE Finish(r, IF any THEN "Success" ELSE "TriedButFailed")

(* Mutant: the strategy is not asked. *)
AnotherAttemptCounting(r) ==
  delivery[r].attempt < MaxAttempts(r, delivery[r].ds)

AnotherAttempt(r) ==
  \/ delivery[r].attempt < MaxAttempts(r, delivery[r].ds)
  \/ PolicyFor(r, delivery[r].ds).strategy = "NoDrop"

(* The loop ends: attempts used up, or shutting down. *)
GiveUp(r) ==
  /\ delivery[r].step = "attempt" /\ raised = {}
  /\ ~AnotherAttempt(r) \/ IsShuttingDown
  /\ DeliveredTo(r, FALSE)
  /\ UNCHANGED <<portVars, pushVars, queue, goals, raised, tries,
                 downstreamVars, due, stops>>

(* Attempts are counted up to the last one only: NoDrop counts no further. *)
NextAttempt(r) ==
  LET d == delivery[r] IN
  [d EXCEPT !.step = "attempt", !.timeouts = 0,
            !.attempt = IF d.attempt < MaxAttempts(r, d.ds)
                        THEN d.attempt + 1 ELSE d.attempt]

Tried(r) ==
  tries' = [tries EXCEPT ![r][delivery[r].ds] =
              IF @ <= MaxAttempts(r, delivery[r].ds) THEN @ + 1 ELSE @]

(* SyncActionSender::send: nobody there, so nothing is sent. *)
AttemptNobodyThere(r) ==
  LET d == delivery[r] IN
  /\ d.step = "attempt" /\ raised = {} /\ AnotherAttempt(r) /\ ~IsShuttingDown
  /\ d.ds \notin online /\ PolicyFor(r, d.ds).retry.wait = "positive"
  /\ Goes(r, NextAttempt(r)) /\ Tried(r)
  /\ UNCHANGED <<portVars, pushVars, queue, result, goals, raised,
                 downstreamVars, due, stops>>

AttemptSend(r) ==
  LET d == delivery[r] IN
  /\ d.step = "attempt" /\ raised = {} /\ AnotherAttempt(r) /\ ~IsShuttingDown
  /\ d.ds \in online \/ PolicyFor(r, d.ds).retry.wait = "zero"
  /\ goals' = IF d.ds \in online
              THEN goals \cup {[goal |-> Goal(r), answer |-> "none"]}
              ELSE goals
  /\ Tried(r)
  /\ Goes(r, [d EXCEPT !.step =
       CASE PolicyFor(r, d.ds).retry.wait = "positive" -> "sent"
         [] PolicyFor(r, d.ds).retry.wait = "negative" -> "waiting"
         [] PolicyFor(r, d.ds).retry.wait = "zero" -> "unanswered"])
  /\ UNCHANGED <<portVars, pushVars, queue, result, raised, downstreamVars,
                 due, stops>>

(* RDX_RAISE_ERROR in the callback node cancels the whole graph. *)
Raise(r, what) ==
  /\ raised' = raised \cup {what}
  /\ Goes(r, [delivery[r] EXCEPT !.step = "done"])

(* The head of the waiting loop asks rclcpp::ok() before every wait. *)
WaitLoop(r) ==
  LET d == delivery[r] IN
  /\ d.step = "sent" /\ raised = {}
  /\ IF "ros" \in down
     THEN Raise(r, IF d.timeouts > 0 THEN "timeout" ELSE "no response code")
     ELSE Goes(r, [d EXCEPT !.step = "waiting"]) /\ UNCHANGED raised
  /\ UNCHANGED <<portVars, pushVars, queue, result, goals, tries,
                 downstreamVars, due, stops>>

(* Mutant: an attempt that timed out is made again. *)
WaitTimeoutResending(r) ==
  LET d == delivery[r] IN
  /\ d.step = "waiting" /\ PolicyFor(r, d.ds).retry.wait = "positive" /\ raised = {}
  /\ Goes(r, NextAttempt(r))
  /\ UNCHANGED <<portVars, pushVars, queue, result, goals, tries, raised,
                 downstreamVars, due, stops>>

(* wait_for timed out, the answer may be under way: the callback says to    *)
(* wait again, unless the node shuts down.                                  *)
WaitTimeout(r) ==
  LET d == delivery[r] IN
  /\ d.step = "waiting" /\ PolicyFor(r, d.ds).retry.wait = "positive" /\ raised = {}
  /\ IF IsShuttingDown THEN Raise(r, "timeout")
     ELSE /\ d.timeouts < MaxTimeouts
          /\ Goes(r, [d EXCEPT !.step = "sent", !.timeouts = d.timeouts + 1])
          /\ UNCHANGED raised
  /\ UNCHANGED <<portVars, pushVars, queue, result, goals, tries,
                 downstreamVars, due, stops>>

(* A wait time of zero brings no response code. *)
NoResponseCode(r) ==
  /\ delivery[r].step = "unanswered" /\ raised = {}
  /\ Raise(r, "no response code")
  /\ UNCHANGED <<portVars, pushVars, queue, result, goals, tries,
                 downstreamVars, due, stops>>

(* Mutant: after a rejection the old goal is waited for again. *)
ReceiveAnswerWaitingOn(r) ==
  /\ delivery[r].step = "waiting" /\ raised = {}
  /\ \E g \in goals :
       /\ g.goal = Goal(r) /\ g.answer # "none"
       /\ goals' = goals \ {g}
       /\ IF g.answer = "accept" THEN DeliveredTo(r, TRUE)
          ELSE UNCHANGED <<delivery, result>>
  /\ UNCHANGED <<portVars, pushVars, queue, raised, tries, downstreamVars,
                 due, stops>>

(* The answer arrived. *)
ReceiveAnswer(r) ==
  /\ delivery[r].step = "waiting" /\ raised = {}
  /\ \E g \in goals :
       /\ g.goal = Goal(r) /\ g.answer # "none"
       /\ goals' = goals \ {g}
       /\ IF g.answer = "accept" THEN DeliveredTo(r, TRUE)
          ELSE Goes(r, NextAttempt(r)) /\ UNCHANGED result
  /\ UNCHANGED <<portVars, pushVars, queue, raised, tries, downstreamVars,
                 due, stops>>

-----------------------------------------------------------------------------
(* The downstream nodes. *)
ComeOnline(d) ==
  /\ d \in Downstreams \ online
  /\ online' = online \cup {d}
  /\ UNCHANGED <<portVars, pushVars, queue, deliveryVars, acceptedBy, crashes,
                 due, stops>>

(* Goals that were not answered are lost. *)
Crash(d) ==
  /\ d \in online /\ crashes < config.crashes
  /\ crashes' = crashes + 1
  /\ online' = online \ {d}
  /\ goals' = {g \in goals : g.goal.ds = d => g.answer # "none"}
  /\ UNCHANGED <<portVars, pushVars, queue, delivery, result, raised, tries,
                 acceptedBy, due, stops>>

Answer(g, answer) ==
  /\ g.answer = "none" /\ g.goal.ds \in online
  /\ goals' = (goals \ {g}) \cup {[g EXCEPT !.answer = answer]}
  /\ acceptedBy' = IF answer = "accept"
                   THEN [acceptedBy EXCEPT ![g.goal.ds] =
                           Append(@, g.goal.request)]
                   ELSE acceptedBy
  /\ UNCHANGED <<portVars, pushVars, queue, delivery, result, raised, tries,
                 online, crashes, due, stops>>

Accept(r, d) ==
  \E g \in goals : g.goal.request = r /\ g.goal.ds = d /\ Answer(g, "accept")
Reject(r, d) ==
  \E g \in goals : g.goal.request = r /\ g.goal.ds = d /\ Answer(g, "reject")

-----------------------------------------------------------------------------
Push(r) ==
  \/ PushBegin(r) \/ PushCheck(r) \/ PushConnected(r) \/ PushRaises(r)
  \/ PushAccepted(r) \/ PushFailed(r) \/ PushReturn(r)

Deliver(r) ==
  \/ Ping(r) \/ GiveUp(r) \/ AttemptNobodyThere(r) \/ AttemptSend(r)
  \/ WaitLoop(r) \/ WaitTimeout(r) \/ NoResponseCode(r) \/ ReceiveAnswer(r)

Next ==
  \/ Start \/ StopBegin \/ StopWaited \/ StopEnd
  \/ \E what \in Shutdowns : GoDown(what)
  \/ \E r \in Requests : Push(r) \/ Deliver(r)
  \/ \E k \in 1 .. PipelineCapacity : DeliveryBegin(k)
  \/ \E d \in Downstreams : ComeOnline(d) \/ Crash(d)
  \/ \E r \in Requests, d \in Downstreams : Accept(r, d) \/ Reject(r, d)

Spec == Init /\ [][Next]_vars

(* The threads of the flow graph and of stop() make progress, servers come  *)
(* up, answer what they are sent, and one that is asked again and again     *)
(* does not refuse for ever: its readers empty its queue.  Nothing is       *)
(* assumed of the threads that push.                                        *)
Fairness ==
  /\ WF_vars(StopWaited) /\ WF_vars(StopEnd) /\ WF_vars(DeliveryBegin(1))
  /\ \A d \in Downstreams : WF_vars(ComeOnline(d))
  /\ \A r \in Requests :
       /\ WF_vars(Deliver(r))
       /\ \A d \in Downstreams :
            SF_vars(Accept(r, d)) /\ WF_vars(Accept(r, d) \/ Reject(r, d))

FairSpec == Spec /\ Fairness

-----------------------------------------------------------------------------
Steps == {"idle", "ping", "attempt", "sent", "waiting", "unanswered", "done"}

(* Every variable stays in its type. *)
TypeOK ==
  /\ config \in Configs
  /\ status \in {"STOPPED", "STARTED"} /\ checked \in BOOLEAN
  /\ stopper \in {"idle", "waiting", "waited"}
  /\ pushing \in [Requests ->
       [step : {"idle", "trying", "connecting", "checked", "enqueued", "true",
                "false", "raised"},
        attempt : Nat]]
  /\ queue \in Seq(Requests) /\ enqueued \in Seq(Requests)
  /\ delivery \in [Requests ->
       [step : Steps, ds : Downstreams, attempt : Nat, timeouts : Nat,
        ready : Nat, delivered : BOOLEAN]]
  /\ result \in [Requests -> {"none", "NotTried", "Success", "TriedButFailed"}]
  /\ goals \subseteq
       [goal : [request : Requests, ds : Downstreams, attempt : Nat],
        answer : {"none", "accept", "reject"}]
  /\ acceptedBy \in [Downstreams -> Seq(Requests)]
  /\ due \subseteq Requests

Pos(r, s) == CHOOSE k \in DOMAIN s : s[k] = r
Has(s, r) == \E k \in DOMAIN s : s[k] = r
NoDuplicates(s) == \A j, k \in DOMAIN s : s[j] = s[k] => j = k

(* "Should not resend if timeout ... otherwise, downstream may receive      *)
(* overlapping messages": no downstream accepts a request twice, whatever   *)
(* is lost, late or retried.                                                *)
AcceptedAtMostOnce == \A d \in Downstreams : NoDuplicates(acceptedBy[d])

(* preserve_request_order: every downstream accepts requests in the order   *)
(* they were pushed, although each of them is retried on its own.           *)
DeliveredInOrder ==
  PreserveOrder =>
    \A d \in Downstreams : \A j, k \in DOMAIN acceptedBy[d] :
      j < k => Pos(acceptedBy[d][j], enqueued) < Pos(acceptedBy[d][k], enqueued)

(* The result code tells what happened: Success when at least one           *)
(* downstream has the request, NotTried and TriedButFailed when none has.   *)
ResultIsTruthful ==
  \A r \in Requests :
    result[r] # "none" =>
      (result[r] = "Success" <=> \E d \in Downstreams : Has(acceptedBy[d], r))

(* stop() returns only when every request it found in the port has its      *)
(* result.                                                                  *)
StopSettles ==
  stopper = "waited" => \A r \in due : result[r] # "none"

(* push_request says true only when the port took the request, which it     *)
(* does once, however often the call tried; it raises an error, or says     *)
(* false, only when it did not, unless nothing may be dropped and the node  *)
(* goes down: then false may stand for a request that is delivered all the  *)
(* same.                                                                    *)
PushIsTruthful ==
  /\ NoDuplicates(enqueued)
  /\ \A r \in Requests :
       /\ pushing[r].step = "true" => Has(enqueued, r)
       /\ pushing[r].step = "raised" => ~Has(enqueued, r)
       /\ pushing[r].step = "false" =>
            \/ ~Has(enqueued, r)
            \/ config.enqueue[r].strategy = "NoDrop" /\ IsShuttingDown

(* With NoDrop every request the port took reaches every downstream. *)
NoDropDelivers ==
  \A r \in Requests : Has(enqueued, r) ~>
    \A d \in Downstreams : Has(acceptedBy[d], r)

(* stop() returns. *)
StopReturns == (stopper = "waiting") ~> (stopper = "idle")

=============================================================================
