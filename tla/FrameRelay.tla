----------------------------- MODULE FrameRelay -----------------------------
(***************************************************************************)
(* The sample nodes: SimpleActionGenerator sends one frame after the other *)
(* with a bare action client and waits for the response, not the result;   *)
(* a sink receives them.  A sink is a FrameRelayPublisher, which delivers  *)
(* in the accepted callback ("sync") or in a SingleBufferExecNode of its   *)
(* own ("async"), or a FrameRelayNode or DetectionRelayNode ("frames",     *)
(* "detections"), whose step thread pops from an input port.               *)
(*                                                                         *)
(* The callbacks of a sink are in one mutually exclusive callback group: a *)
(* goal is received, responded to and accepted before anything else is     *)
(* handled.  The graph, the step thread and the generator run beside it.   *)
(* The graph keeps the promise of OrderedPipeline; the input port is       *)
(* reduced to what AsyncActionInputPort promises.                          *)
(***************************************************************************)
EXTENDS Naturals, Sequences, FiniteSets

CONSTANTS
  Configs,    \* the sinks
  MaxFrames,  \* bound on the frames of the generator
  None,       \* no goal
  MaxLosses   \* bound on requests and responses that are lost

Publishers == {"sync", "async"}
Nodes == {"frames", "detections"}
Images == {"pixels", "token", "none"}
Frames == 1 .. MaxFrames

(* capacity: goal_buffer_size or the buffer of the input port; visible:     *)
(* enable_visualization; pings: the goals of a publisher's clients that are *)
(* ping requests.                                                           *)
RelayConfigs ==
  [sink : Publishers, capacity : Nat \ {0}, visible : {TRUE}, pings : SUBSET Frames]
  \cup [sink : Nodes, capacity : Nat \ {0}, visible : BOOLEAN, pings : {{}}]
ASSUME ConfigAssumption == Configs \subseteq RelayConfigs
ASSUME BoundAssumption ==
  MaxFrames \in Nat /\ MaxLosses \in Nat /\ None \notin Frames

VARIABLES
  config,     \* of the sink
  stepping,   \* the generator's m_step_running
  generator,  \* where its step thread is: "head", "waiting", "done"
  next,       \* the number of its next frame
  image,      \* what the frames carry
  goal,       \* state of each goal, of the action server and before
  server,     \* the goal the callbacks are at work on, and where they are
  blocking,   \* a token is in m_random_block_signal
  spinning,   \* the executor of the sink runs
  entries,    \* m_goal2payload
  resolved,   \* goals whose promise has its goal handle
  queue,      \* goals that wait in the graph or in the input port
  running,    \* the goal the graph's callback or the step thread is at
  at,         \* how far it is: "payload", "answer", "erase"
  relayed,    \* history: what was published
  lost        \* history: goals whose request or response was lost

generatorVars == <<stepping, generator, next, image>>
serverVars == <<server, blocking, spinning>>
mapVars == <<entries, resolved>>
graphVars == <<queue, running, at>>
vars == <<config, generatorVars, goal, serverVars, mapVars, graphVars, relayed, lost>>

Idle == [goal |-> None, at |-> "idle"]
IsPublisher == config.sink \in Publishers

Init ==
  /\ config \in Configs
  /\ stepping = TRUE /\ generator = "head" /\ next = 1
  /\ image \in [Frames -> Images]
  /\ goal = [n \in Frames |-> "unsent"]
  /\ server = Idle /\ blocking = FALSE /\ spinning = TRUE
  /\ entries = {} /\ resolved = {}
  /\ queue = <<>> /\ running = None /\ at = "payload"
  /\ relayed = <<>> /\ lost = {}

-----------------------------------------------------------------------------
(* SimpleActionGenerator                                                    *)
SendFrame ==
  /\ generator = "head" /\ stepping /\ next <= MaxFrames
  /\ goal' = [goal EXCEPT ![next] = "sent"]
  /\ generator' = "waiting"
  /\ UNCHANGED <<config, stepping, next, image, serverVars, mapVars, graphVars,
                 relayed, lost>>

(* Mutant: the generator does not wait for the response. *)
GetResponseAtOnce ==
  /\ generator = "waiting"
  /\ generator' = "head" /\ next' = next + 1
  /\ UNCHANGED <<config, stepping, image, goal, serverVars, mapVars, graphVars,
                 relayed, lost>>

(* send_result.get(): there is no limit to this wait. *)
GetResponse ==
  /\ generator = "waiting" /\ next \notin lost
  /\ goal[next] \notin {"sent", "received"}
  /\ generator' = "head" /\ next' = next + 1
  /\ UNCHANGED <<config, stepping, image, goal, serverVars, mapVars, graphVars,
                 relayed, lost>>

StopGenerator ==
  /\ stepping /\ stepping' = FALSE
  /\ UNCHANGED <<config, generator, next, image, goal, serverVars, mapVars,
                 graphVars, relayed, lost>>

GeneratorEnds ==
  /\ generator = "head" /\ ~stepping
  /\ generator' = "done"
  /\ UNCHANGED <<config, stepping, next, image, goal, serverVars, mapVars, graphVars,
                 relayed, lost>>

(* The server is not there yet: the request goes nowhere. *)
RequestLost ==
  \E n \in Frames :
    /\ goal[n] = "sent" /\ Cardinality(lost) < MaxLosses
    /\ lost' = lost \cup {n}
    /\ goal' = [goal EXCEPT ![n] = "lost"]
  /\ UNCHANGED <<config, generatorVars, serverVars, mapVars, graphVars, relayed>>
-----------------------------------------------------------------------------
(* The callbacks of the sink. *)
Goes(n, step) == server' = [goal |-> n, at |-> step]
HasRoom == Len(queue) < config.capacity

(* The timer of m_random_block_signal takes its token away. *)
Unblock ==
  /\ blocking /\ spinning /\ server = Idle
  /\ blocking' = FALSE
  /\ UNCHANGED <<config, generatorVars, goal, server, spinning, mapVars, graphVars,
                 relayed, lost>>

(* _on_goal_received: a ping is accepted; a publisher blocks at random, and *)
(* reserves an entry before the graph gets to know the goal.                *)
OnGoalReceived ==
  \E n \in Frames :
    /\ goal[n] = "sent" /\ spinning /\ server = Idle
    /\ goal' = [goal EXCEPT ![n] = "received"]
    /\ IF n \in config.pings
       THEN Goes(n, "accept") /\ UNCHANGED <<blocking, entries>>
       ELSE /\ blocking' \in (IF IsPublisher /\ ~blocking THEN BOOLEAN ELSE {blocking})
            /\ IF blocking'
               THEN Goes(n, "reject") /\ UNCHANGED entries
               ELSE /\ Goes(n, "enqueue")
                    /\ entries' = IF IsPublisher THEN entries \cup {n} ELSE entries
    /\ UNCHANGED <<config, generatorVars, spinning, resolved, graphVars, relayed, lost>>

(* Mutant: a goal that the graph refuses keeps its entry. *)
TryEnqueueGoalForgetting ==
  /\ server.at = "enqueue"
  /\ IF config.sink = "sync" \/ HasRoom THEN Goes(server.goal, "accept") ELSE Goes(server.goal, "reject")
  /\ queue' = IF config.sink # "sync" /\ HasRoom THEN Append(queue, server.goal) ELSE queue
  /\ UNCHANGED <<config, generatorVars, goal, blocking, spinning, mapVars, running, at,
                 relayed, lost>>

(* _try_enqueue_goal, or the push of the input port. *)
TryEnqueueGoal ==
  /\ server.at = "enqueue"
  /\ CASE config.sink = "sync" ->
            Goes(server.goal, "accept") /\ UNCHANGED <<entries, queue>>
       [] config.sink # "sync" /\ HasRoom ->
            /\ Goes(server.goal, "accept") /\ UNCHANGED entries
            /\ queue' = Append(queue, server.goal)
       [] OTHER ->
            /\ Goes(server.goal, "reject") /\ UNCHANGED queue
            /\ entries' = entries \ {server.goal}
  /\ UNCHANGED <<config, generatorVars, goal, blocking, spinning, resolved, running, at,
                 relayed, lost>>

(* The action server sends the response; then it calls _on_goal_accepted.   *)
Respond ==
  /\ server.at \in {"accept", "reject"}
  /\ goal' = [goal EXCEPT ![server.goal] =
                IF server.at = "accept" THEN "executing" ELSE "rejected"]
  /\ IF server.at = "accept" THEN Goes(server.goal, "accepted") ELSE server' = Idle
  /\ UNCHANGED <<config, generatorVars, blocking, spinning, mapVars, graphVars, relayed,
                 lost>>

(* When the response cannot be sent, nobody calls _on_goal_accepted.        *)
ResponseLost ==
  /\ server.at \in {"accept", "reject"} /\ Cardinality(lost) < MaxLosses
  /\ lost' = lost \cup {server.goal}
  /\ goal' = [goal EXCEPT ![server.goal] = "lost"]
  /\ server' = Idle
  /\ UNCHANGED <<config, generatorVars, blocking, spinning, mapVars, graphVars, relayed>>

-----------------------------------------------------------------------------
(* What a sink publishes: a publisher only an image that came with its      *)
(* pixels; a node what it can read, from shared memory if need be, and a    *)
(* DetectionRelayNode only for a visualization.  A frame without an image   *)
(* is read as an empty one, which StampedImagePub does not publish.         *)
MayRelay(n) ==
  CASE image[n] = "none" \/ ~config.visible -> {FALSE}
    [] image[n] = "token" /\ config.visible -> IF IsPublisher THEN {FALSE} ELSE BOOLEAN
    [] OTHER -> {TRUE}

Relay(n) ==
  \E relays \in MayRelay(n) : relayed' = IF relays THEN Append(relayed, n) ELSE relayed

(* Mutant: a canceled goal is not answered. *)
SucceedUnlessCanceled(n) ==
  goal' = IF goal[n] = "canceling" THEN goal ELSE [goal EXCEPT ![n] = "succeeded"]

(* A goal that is canceling succeeds as well. *)
Succeed(n) == goal' = [goal EXCEPT ![n] = "succeeded"]

(* _on_goal_accepted: the promise gets its handle; a ping, and every frame  *)
(* of a synchronous publisher, is done at once.                             *)
OnGoalAccepted ==
  LET n == server.goal IN
  /\ server.at = "accepted"
  /\ server' = Idle
  /\ CASE n \in config.pings ->
            Succeed(n) /\ UNCHANGED <<entries, resolved, relayed>>
       [] n \notin config.pings /\ config.sink = "sync" ->
            /\ Relay(n) /\ Succeed(n)
            /\ resolved' = resolved \cup {n} /\ entries' = entries \ {n}
       [] OTHER ->
            resolved' = resolved \cup {n} /\ UNCHANGED <<goal, entries, relayed>>
  /\ UNCHANGED <<config, generatorVars, blocking, spinning, graphVars, lost>>

(* _on_goal_canceled: the entry goes, the goal is delivered all the same.   *)
OnGoalCanceled ==
  \E n \in Frames :
    /\ goal[n] = "executing" /\ IsPublisher /\ spinning /\ server = Idle
    /\ goal' = [goal EXCEPT ![n] = "canceling"]
    /\ entries' = entries \ {n}
    /\ UNCHANGED <<config, generatorVars, serverVars, resolved, graphVars, relayed, lost>>

-----------------------------------------------------------------------------
(* The output callback of the publisher's graph: one goal at a time, in the *)
(* order they were accepted, each as soon as its payload is there.          *)
Begin ==
  /\ running = None /\ queue # <<>>
  /\ running' = Head(queue) /\ queue' = Tail(queue) /\ at' = "payload"

GraphBegins ==
  /\ config.sink = "async" /\ Begin
  /\ UNCHANGED <<config, generatorVars, goal, serverVars, mapVars, relayed, lost>>

DeliverFrame ==
  /\ config.sink = "async" /\ running \in resolved /\ at = "payload"
  /\ Relay(running) /\ at' = "answer"
  /\ UNCHANGED <<config, generatorVars, goal, serverVars, mapVars, queue, running, lost>>

DeliverResult ==
  /\ config.sink = "async" /\ running # None /\ at = "answer"
  /\ Succeed(running) /\ at' = "erase"
  /\ UNCHANGED <<config, generatorVars, serverVars, mapVars, queue, running, relayed, lost>>

EraseEntry ==
  /\ config.sink = "async" /\ running # None /\ at = "erase"
  /\ entries' = entries \ {running}
  /\ running' = None /\ at' = "payload"
  /\ UNCHANGED <<config, generatorVars, goal, serverVars, resolved, queue, relayed, lost>>

(* _step() of a node: pop, wait for the goal handle, publish, succeed.      *)
NodePops ==
  /\ config.sink \in Nodes /\ Begin
  /\ UNCHANGED <<config, generatorVars, goal, serverVars, mapVars, relayed, lost>>

NodeRelays ==
  /\ config.sink \in Nodes /\ running \in resolved /\ at = "payload"
  /\ Relay(running) /\ at' = "answer"
  /\ UNCHANGED <<config, generatorVars, goal, serverVars, mapVars, queue, running, lost>>

NodeAnswers ==
  /\ config.sink \in Nodes /\ running # None /\ at = "answer"
  /\ Succeed(running)
  /\ running' = None /\ at' = "payload"
  /\ UNCHANGED <<config, generatorVars, serverVars, mapVars, queue, relayed, lost>>

(* The owner of the sink ends its executor. *)
StopSpinning ==
  /\ spinning /\ server = Idle
  /\ spinning' = FALSE
  /\ UNCHANGED <<config, generatorVars, goal, server, blocking, mapVars, graphVars,
                 relayed, lost>>

(* Its destructor waits for the graph. *)
Destroyed == ~spinning /\ server = Idle /\ running = None /\ queue = <<>>

-----------------------------------------------------------------------------
Server ==
  \/ OnGoalReceived \/ TryEnqueueGoal \/ Respond \/ OnGoalAccepted

Next ==
  \/ SendFrame \/ GetResponse \/ StopGenerator \/ GeneratorEnds \/ RequestLost
  \/ OnGoalReceived \/ TryEnqueueGoal \/ Respond \/ ResponseLost \/ OnGoalAccepted
  \/ OnGoalCanceled \/ Unblock \/ StopSpinning
  \/ GraphBegins \/ DeliverFrame \/ DeliverResult \/ EraseEntry
  \/ NodePops \/ NodeRelays \/ NodeAnswers

Spec == Init /\ [][Next]_vars

(* Every thread makes progress: the executor of the sink as long as it      *)
(* spins, the graph, the step threads.  Nobody has to cancel or stop.       *)
Fairness ==
  /\ WF_vars(Server)
  /\ WF_vars(GraphBegins \/ DeliverFrame \/ DeliverResult \/ EraseEntry)
  /\ WF_vars(NodePops \/ NodeRelays \/ NodeAnswers)
  /\ WF_vars(SendFrame \/ GetResponse \/ GeneratorEnds)

FairSpec == Spec /\ Fairness

-----------------------------------------------------------------------------
(* Every variable stays in its type. *)
TypeOK ==
  /\ config \in Configs
  /\ {stepping, blocking, spinning} \subseteq BOOLEAN
  /\ generator \in {"head", "waiting", "done"}
  /\ next \in 1 .. MaxFrames + 1
  /\ image \in [Frames -> Images]
  /\ goal \in [Frames -> {"unsent", "sent", "received", "rejected", "executing",
                         "canceling", "succeeded", "lost"}]
  /\ server \in [goal : Frames \cup {None},
                 at : {"idle", "enqueue", "accept", "reject", "accepted"}]
  /\ entries \subseteq Frames /\ resolved \subseteq Frames /\ lost \subseteq Frames
  /\ queue \in Seq(Frames) /\ Len(queue) <= config.capacity
  /\ running \in Frames \cup {None}
  /\ at \in {"payload", "answer", "erase"}
  /\ relayed \in Seq(Frames)

(* The frames of the generator come out in their order and once, and a goal *)
(* that succeeded was published if the sink could read it: SUCCEEDED is not *)
(* said of a frame that is still to come.                                   *)
RelayedInOrder ==
  /\ \A j, k \in DOMAIN relayed : j < k => relayed[j] < relayed[k]
  /\ \A n \in Frames \ config.pings :
       goal[n] = "succeeded" /\ MayRelay(n) = {TRUE} =>
         \E k \in DOMAIN relayed : relayed[k] = n

(* m_goal2payload holds only goals that are on their way: a goal that was   *)
(* refused, canceled or delivered leaves nothing behind.  The exception is  *)
(* one whose response was lost.                                             *)
NoEntryIsLeft ==
  \A n \in entries \ lost :
    \/ server.goal = n
    \/ running = n
    \/ goal[n] = "executing" /\ \E k \in DOMAIN queue : queue[k] = n

(* Every goal that is executed or canceled is answered, and both ends can   *)
(* be stopped, unless a request or a response is lost: the wait for a goal  *)
(* handle has no limit, on either side.                                     *)
NobodyWaitsForEver ==
  /\ \A n \in Frames :
       goal[n] \in {"executing", "canceling"} ~> goal[n] = "succeeded" \/ lost # {}
  /\ ~stepping ~> generator = "done" \/ lost # {} \/ ~spinning
  /\ ~spinning ~> Destroyed \/ lost # {}
=============================================================================
