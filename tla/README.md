# A TLA+ verification of redoxi_action_flow

`redoxi_action_flow` is a ROS 2 framework for dataflow graphs of nodes (video
readers, detectors, trackers) that are linked by *actions*: every edge of the
graph is an action client at the sending node, the **output port**, and an action
server at the receiving one, the **input port**.  A frame is a goal; back pressure
is a rejected goal.  This directory models the machinery underneath (the flow
graphs that schedule deliveries, both ends of a link, the life cycle of the nodes
that own them, shared memory for the frames) and what is built on it: the video
readers, the detection and tracking nodes, a driver, the sample nodes.
`PROJECT.json` maps every definition to the lines it stands for.

Run a check with `tlc -config X.cfg MCModule.tla`, a proof with
`tlapm Module_proofs.tla`.

## 1. Inventory

All paths are below `src/src/redoxi_action_flow/` unless they begin with `model/`,
which stands for `src/src/redoxi_model_nodes/`.

| Component | Source | State it keeps | Operations | Status |
|---|---|---|---|---|
| Execution node | `redoxi_common_cpp/.../async_processor/SingleBufferExecNode.hpp` | limiter count, data and token queues, sequence number, items in each TBB node | `build`, `prepare`, `put_data` (with and without bypass), the node bodies | modelled |
| Overwriting execution node | `.../SingleOverwriteExecNode.hpp` | newest datum, gate and execution tokens, sequence number | `put_data`, `fire`, `prepare`, the node bodies | modelled but for its asynchronous mode |
| Input port | `redoxi_common_nodes/.../AsyncActionInputPort.hpp` | status, bounded queue, map of unresolved goal-handle promises | goal, cancel and accepted callbacks, `start`, `stop`, `pop_source_data`, `try_pop_source_data` | modelled, user callbacks as choices |
| Output port | `.../AsyncActionOutputPort.hpp` | status, "downstreams checked" flag, delivery graph, request results | `push_request`, `try_push_request`, `_do_task_delivery_main`, `_deliver_data_with_retry`, `_ping`, `start`, `stop` | modelled without the debug topics |
| Synchronous sender | `redoxi_common_cpp/.../ros_utils/SyncActionSender.hpp` | none between calls | `send` with its wait loop | modelled inside the output port |
| Retry and delivery policies | `.../IDeliveryRetryPolicy.hpp`, `AsyncActionOutputTypes.hpp` | optional fields | which policy of request, downstream and default counts for what | modelled inside the output port |
| Node life cycle | `redoxi_common_nodes/src/base_nodes/*.cpp` | life-cycle state, step thread, task group | `on_configure` .. `on_shutdown`, `_async_stop`, the step loop | modelled |
| Pull-process handlers | `.../port_handlers/PullProcess{Reply,Send}Handler.hpp` | resource tokens | pop, take a token, process, send, answer, give back | modelled inside the driver and the detector |
| Call-action driver | `.../driver_nodes/CallActionDriverBase.hpp` | three ports | forward a request, wait for its result, send it on | modelled over abstract ports |
| Video reader | `redoxi_video_reader/src/base/VideoReaderBase.cpp` | frame number, time tokens | `open`, `start`, `stop`, `close`, `_step`, end of video | modelled |
| URL and ffmpeg sources | `.../VideoSourceFromUrl.cpp`, `FFmpegVideoReader.cpp` | position, queue of one frame, replay setting | `_read_frame`, `_on_stopped`, the thread of the pipe | modelled, decoding is external |
| Time tokens | `redoxi_common_cpp/.../RosTimeToken.hpp`, `RosTimeUnsetToken.hpp` | queue of one token, timer | `start`, `try_pop_token`, timer callback | modelled inside reader and relay |
| Detection nodes | `model/yolo8_series/.../Yolo8BaseNode.hpp` | two input ports, one output port, a pool of models with their tensors | `_step` with two handlers, inference hooks, stop and start | modelled, inference is external |
| Tracker node | `model/universal_mot_trackers/src/UniversalMotTrackerNode.cpp` | tracker, frame number | frame handler, end of track, reopening | modelled, tracking mathematics is external |
| Detection pipelines | `.../driver_nodes/DetectionDriver.cpp`, `src/src/examples/redoxi_example_cpp` | none of their own | wiring of source, detector, tracker and clients | modelled as a composition |
| Expiration cache, client factory | `redoxi_shared_memory/src/*.cpp` | blocks by expiry, eviction thread, clients by configuration | add, evict, flush, shutdown callbacks | modelled |
| Vineyard client | `redoxi_shm_v6d/src/VineyardShmClient.cpp` | connection, its cache | connect, put, get, delete, destruction | modelled over an external store |
| Frame mediator | `redoxi_common_cpp/src/image_proc/FrameMediator.cpp` | none | `to_frame_msg`, `to_cv_image_copy` | modelled without conversions of colour |
| Sample nodes | `redoxi_samples_nodes/src` | goals of the generator, payloads of the sinks | generator, relay publisher (two modes), two relay nodes | modelled |
| Inference back ends | `redoxi_inference_*` | external | adapters | not modelled |
| Messages, Python, CMake, scripts | | none of their own | | not modelled |

### How they interact

* A thread of the node calls `push_request` of its **output port**.  The port puts a
  delivery task into its **execution node** (`put_data` may refuse: the limiter is
  full) and the graph's output callback runs `_do_task_delivery_main`, which sends
  the goal to every downstream with the **synchronous sender** and waits for the
  answer, retrying as the **policy** says.
* The executor of the receiving node runs `_on_goal_received` of the **input port**
  (room, user's veto, queue, map), later `_on_goal_accepted`, which resolves the
  promise of the goal handle.  The **handlers** pop goals on the node's *step
  thread*, wait for that promise, process, and push to their own output port.
* The **life cycle** starts and stops the ports from the executor (service calls),
  from a user thread (`open`, `start`, `stop`, `close`), or from a task group
  (`_async_stop`, with which a **video reader** stops itself behind the last frame),
  and joins the step thread.
* A frame travels as pixels or as the token of a block in **shared memory**, which
  the sender's **mediator** puts and the sender's **cache** deletes when its time is over,
  whether the receiver has read it or not.
* Plays of a video number their frames from 0.  What separates them, for detector and
  **tracker**, is the flush signal that the reader sends behind the last frame.

### What is hard, and what correctness means

* *Execution nodes*: limiter, token loop and sequencer each count on their own, in
  parallel tasks.  Correct: tokens are conserved, no limiter slot leaks, callbacks keep
  the order or never go back to older data, everything accepted comes out.
* *Input port*: four parties (executor, readers, `stop()`, clients that cancel)
  interleave at every step of the goal callback.  Correct: a reader always gets the
  handle it waits for, a goal is processed once, nothing but `stop()` abandons an accepted goal.
* *Output port and sender*: timeouts race with late answers, downstreams crash,
  the node goes down in the middle of a retry, and four policies decide about one delivery.
  Correct: at most one acceptance per downstream, order, truthful results, and `stop()`
  waits for what it found.
* *Life cycle*: three threads start and join one `std::thread`.  Correct: no step on
  stopped ports, no thread left over, transitions end.
* *Driver*: three ports feed each other and are stopped one after the other, while the
  answers all deliveries wait for come through one executor.  Correct: no port is stopped
  before the last push to it, nothing overtakes, control signals get through, and only a
  delivery whose answer cannot come keeps the node from stopping.
* *Video reader*: step thread, timer, ffmpeg's thread, tasks of an earlier play and the
  owner's calls.  Correct: numbers grow, a play ends with one signal and nothing behind it, and
  receivers are told before numbers start over.
* *Detector and tracker*: two handlers share a step thread and a pool of models with state;
  signals must get through where frames may be dropped.  Correct: detections belong to their
  image, tracks to one play, requests are disposed of.
* *Shared memory*: threads race for the client of the process, eviction overtakes readers,
  and shutdown callbacks overtake both; connecting, putting, reading and deleting may each fail.  Correct:
  no block stays in the store without an attempt to delete it, what is extracted is what was published.
* *Sample nodes*: callbacks, graph and step thread all erase the same map entries, and both
  sides wait for answers without a limit.  Correct: order, no entry left, nobody waits for
  ever unless a message was lost.

`PROJECT.json` lists the hazards line by line, with the properties that cover each.
One has none: the first push waits without a limit for its downstreams, by design.  Where the code
*has* the failure a hazard describes, a property says where it may happen and excludes it everywhere else: its
note then says that the failure is bounded, not caught.

## 2. The modules

### `SingleBufferExecNode`

One variable per TBB node or queue; one action per arrow of the graph built in
`build()`: `PutData`/`PutBypass` (limiter or not), `Join` (data with token), `Stamp`,
`Decrement` (the continue message to the limiter), `WorkDone`, `Sequence`,
`CallbackStart`/`CallbackEnd`, `Finalize`, and `ResetAndPrepare`.  Items are named by
the position at which they were accepted, which is all the properties distinguish.
The modes of the constructor (`PreserveOrder`, `IsSerial`, `UseAsync`, missing user
functions) are constants.  Assumed: an asynchronous user function does put its
output, and the graph is reset only while no body runs (the code resets after
`wait_for_all`).

### `OrderedPipeline`

The abstract promise of a synchronous, ordered execution node: a bounded FIFO that
hands over every item in order, or is discarded as a whole.  `SingleBufferExecNode`
implements it: `ImplementsPipeline` is `Pipeline!FairSpec` with `pending` computed from
the item emitted last.  The output port and the relay publisher are modelled on top of this
FIFO instead of the graph.

### `SingleOverwriteExecNode`

`PutData` writes the overwrite node, `Fire` sends a token through the limiter whose threshold
is one; `Join` takes what the overwrite node holds *then*, `Stamp`, `Decrement`, `WorkDone`,
`Callback`, `Finalize` and `ResetAndPrepare` as above.  Data is its version: the n-th `put_data` puts n.
The asynchronous work node is left out; no code of the repository uses it.

### `AsyncActionInputPort`

The goal callback is cut where another thread may overtake it: `ReceiveGoal` (status
and veto), `EnqueueGoal` (`try_push`, from here a reader may take the goal),
`BookkeepGoal` (map entry, answer ACCEPT), `OnGoalAccepted` (promise resolved).  `serving`
holds the callback in progress: the callbacks belong to one mutually exclusive group.
`StopBegin`, `StopDrain`, `StopEnd` are `stop()`: abort, pop element by element, set the status.
Readers are `PopSourceData` and `AnswerGoal`.  Pings, cancel requests and a full queue are
actions of their own.

### `AsyncActionOutputPort`

`Push*` actions are the calls of `push_request` (each request is pushed by a thread of
its own): begin, look at the status (`PushCheck`), wait for the downstreams (`PushConnected`, or
`PushRaises` when ROS goes down meanwhile and the call ends with an error), put, retry, return.
`DeliveryBegin`, `Ping`, `AttemptSend`, `AttemptNobodyThere`, `WaitLoop`, `WaitTimeout`,
`ReceiveAnswer` and `NoResponseCode` are the delivery with the sender's wait loop
inlined: a goal may be answered long after its wait timed out.  A *configuration* (an element
of `Configs`) says how the port is set up and used: the policy each request is enqueued with,
the policy the request itself may carry (`MakeReliable` is what the port handlers do to control
signals), the policy of each downstream, the precondition of requests that carry no policy,
ordered or parallel deliveries and the number of workers.  `PolicyFor` is the merge the delivery
makes of them, downstream by downstream; `number_of_retry` may be unset and then has its fallback.
Of the times only zero, positive and negative (no limit) are told apart.  Downstream servers
(`ComeOnline`, `Crash`, `Accept`, `Reject`) are external.  The node or ROS may go down.  An error
raised inside the graph (`Raise`) cancels the graph, as TBB does: nothing of it runs any more.

### `NodeLifecycle`

`state` is the ROS life-cycle state, `phase` how far the callback of the transition in
progress is: `ActivateBegin` (`_start`), `StartStepThread`, `ActivateEnd`;
`DeactivateBegin`/`ShutdownBegin`, `Join`, `Joined`, `StopPorts`.  The step thread is `LoopHead`,
`StepEnds`, `StepWaits`, `InputArrives`.  `AsyncStop` posts two tasks, whose steps are
`AsyncJoin`, `AsyncJoined`, `AsyncStopCheck` (the state check of `stop()`) and
`AsyncDeactivate`.  When two threads join the same `std::thread`, the second join throws;
in a transition this ends in FINALIZED, in a task it cancels the task group, after which
`tbb::task_group` executes no further task.  `OpenCloseNode` and `StartStopNode` differ in what a
stopped node keeps (`HasOpenClose`).  The user hooks succeed; `rclcpp::ok()` stays true.

### `CallActionDriver`

A composition: the node with its step thread, input port, callee port and output port.
`Activate`, `Deactivate`, `Joined`, `StopInput`, `StopOutputPort`, `Deactivated` are the transitions;
`StopOrder` is the order of `_stop()`.  `StepPops` .. `StepDrops` are `process_and_send` on the step thread.
`DeliveryBegin`, `CalleeAccepts`, `GiveUp` are the delivery graph of a port; `CalleeSucceeds`, `CalleeAborts`,
`PushResponse`, `DropResponse` are the delivery callback of the callee port, which waits for the
result and pushes it on.  The ports are reduced to what their own modules establish: the
input port to a bounded queue, since every goal popped gets its handle; the output ports to a
bounded FIFO that delivers one request after the other.  How often a frame is tried is a choice
(`StepDrops`, `GiveUp`, `DropResponse`); a control signal is never dropped.  Every answer needs the
executor, which is single-threaded in all the examples, and `Deactivate("executor")` keeps it busy
until the transition ends.  `Lose` is a server that crashes, or a callee whose `stop()` dropped the goal.

### `VideoReader`

`Open`, `Start`, `Close`, `OwnerStops` are the owner's calls and the life-cycle services;
`chain` is what `_on_stopped` and `_on_closed` of a replaying reader have still to call.  The step thread is
`StepBegin` (a time token), `ReadUrl`/`ReadFFmpeg`, `Push`/`PushRefused`, `StepEnd`/`EndOfVideo`; the port's
delivery is `Deliver`/`DeliveryFails`.  The tasks of `_async_stop()` are `AsyncJoin`, `AsyncJoined` and
`AsyncStopCall`; the play they stop may be a later one than the one that asked for it.  One such pair of
tasks is kept: when a second play ends while those of the first are under way, `EndOfVideo` replaces
them, and what the first had left to do (a stop that the second one's repeats) is left out.
`FeedFrame` and `FeedEnd` are the thread that reads ffmpeg's pipe, whose end ends the process.

### `DetectorNode`, `TrackerNode`, `VisionPipeline`

`DetectorNode` is `Yolo8BaseNode`: `turn` says where its `_step()` is, between the handler of detection
requests (`ReplyStep`) and that of images (`SendStep`).  A model is a token of `pool`; `tensor`
is the image its input holds, which an empty image leaves as it was.  `Forget*` is a handler
that finds no token, `*LostImage` and `Abort*` an image that has left the shared memory.
`TrackerNode` is `UniversalMotTrackerNode`: `Track`, `FinishTrack`, `Refuse` (a frame out of order, or one whose
image cannot be read any more), `Reopen`.  `VisionPipeline` extends both
and adds the source (as `VideoReader` shows it to its receivers), the clients, and what may be dropped on the
way.  `setup` chooses the number of models, blocking mode, and whether ports drop anything.

### `FrameTransport`

A *task* is one call of `to_frame_msg` or `to_cv_image_copy` on a thread of its own: it asks the
factory for the client (`FindClient`, `CreateClient`, `Register`: nothing guards the map), chooses the
storage, puts and registers a block (`Put`, `AddBlock`), or reads and copies one (`GetData`, `Copy`).
`Release` gives up the client, which may run its destructor here.  `EvictBegin`, `EvictOne`, `EvictEnd`
and `Flush` are the cache under its mutex; `ShutDown`, `ClearFactory`, `ResetCache` the callbacks of
`rclcpp::shutdown`.  The object store is external, and in the plans of `Failing` any call to it may fail.  `EvictOne`
tries to delete a block once (`DeleteObject`); the client's callback answers 0 however that ends, so that `EvictEnd` erases
the entry in either case.  `undeleted` remembers the blocks whose deletion has failed.

### `FrameRelay`

`SimpleActionGenerator` (`SendFrame`, `GetResponse`) and a sink: `FrameRelayPublisher`, delivering in the
accepted callback or in an execution node of its own, or a relay node that pops from an input
port.  The callbacks of a sink form one mutually exclusive group (`Server`), the graph or step
thread runs beside it.  Requests and responses may get lost, goals canceled, refused and pinged,
and a token may block the publisher at random, as its test mode does.

### Modules for TLC and for TLAPS

The `MC` modules extend the component they check and name its configurations.  The
`_proofs` modules hold the theorems, most for one component each.  Two of them extend two components that
share no variable: `Node_proofs` the input port and the life cycle, `Frames_proofs` frame transport and video
reader, which is why `NodeLifecycle` names its specification `LifeSpec` and `VideoReader` its own `ReaderSpec`.  Operators commented "Mutant" change one definition the
way a bug would; each property a run checks is known to fail for one of them.

## 3. The runs

| Run | Configuration | What it shows |
|---|---|---|
| `exec_ordered` | 2 tokens, buffer 2, 5 items, 1 bypass, 1 reset | the configuration of every ordered output port loses no token and no limiter slot (`TokensConserved`, `NoSlotLeak`), outputs everything it accepted (`AcceptedIsOutput`) and implements `OrderedPipeline` |
| `overwrite` | 2 tokens, ordered, 3 puts, 4 fires, 1 reset | no token is lost, what a fire processes is as new as the data at that fire and callbacks never go back, every accepted fire is processed |
| `input_port` | 3 goals and a ping, capacity 1, 2 stops | every interleaving of callback, cancel, readers, `stop()` and restart: promises kept, no double processing, only `stop()` abandons, everything else is answered |
| `output` | a frame and a control signal, 2 downstreams, 1 timeout, 1 stop; an ordered port with a crash, a parallel one with both shutdowns, a lossless one whose node goes down | accepted at most once, in order, truthful results, `stop()` settles what it found, `push_request` says what happened |
| `output_no_drop` | two undroppable requests, fair downstreams | everything reaches every downstream and `stop()` returns |
| `lifecycle` | 3 activations, 2 asynchronous stops, blocking input | no step on stopped ports, nothing left running, ACTIVE means stepping unless an asynchronous stop failed, and everything stops unless the step thread waits for input for ever |
| `driver` | 3 frames, 1 control signal, 2 activations, 1 lost answer, capacities 2 | stopping in mid-flow loses no response of a request under way, nothing overtakes in three stages, signals get through, deactivation hangs only when a delivery is held up |
| `video` | 2 frames, 3 starts, 2 interruptions, 4 kinds of readers | a play ends with one signal, numbers grow, receivers are told before they start over unless a play was interrupted, readers of a URL come to their end |
| `vision` | 2 plays of 2 frames, 1 request, capacities 1, 1 restart, 1 reopening, 4 setups | detections belong to their image, tracks to one play, requests are disposed of, signals get through a lossless pipeline |
| `vision_signals` | expected violation | a detector whose port may drop frames drops flush signals too |
| `frames` | 3 tasks in 7 plans, blocks live 1 tick, with a client in the factory or a race for the first one; in 4 plans the store may fail to connect, put, get or delete | no block is left in the store but one whose deletion has failed, what is extracted was published unless its block is past its time or its client was replaced, the deletion of what has expired is tried and a failure holds up no other block |
| `relay` | 3 frames, 1 lost message, 5 sinks with room for one | frames come out once and in order, no entry stays in the map, nobody waits for ever unless a message was lost |

### Finding

The hook of the detector's image handler assigns a new request to `*output_request`
(`Yolo8BaseNode.hpp:365`) and so throws away the `make_reliable()` that the handler has just applied
to a control signal, against "special control signal must be delivered reliably"
(`PullProcessSendHandler.hpp:148`).  The signal is enqueued reliably but delivered under the policy of the
frames.  The tracker then refuses the next play, or joins it to the last one.

### What else the models show

These follow from the code and are stated as what does hold, by an exception in a property:

* `AsyncActionInputPort::stop()` drops goals it has accepted, and their clients never get a result,
  although its comment says they will be processed (`AsyncActionInputPort.hpp:140`; `OnlyStopAbandons`).
* `push_request` with NoDrop answers from the shutdown flag (`AsyncActionOutputPort.hpp:171`): false may stand for
  a request that is delivered (`PushIsTruthful`).
* Requests that may not be dropped are given up when their precondition fails (the FIXME at
  `AsyncActionOutputPort.hpp:846`); `NoDropDelivers` is checked without preconditions.
* Deactivating a node that blocks on its input joins the step thread before `_stop()` can wake it
  (`OpenCloseNode.cpp:54`; `StopsUnlessBlocked`).
* When a node is deactivated while its `_async_stop` is under way, the late task raises, the task group stays
  cancelled, and later `_async_stop`s leave the node ACTIVE without stepping (`StartedIsStepping`).
* Deactivating a driver from its only executor waits for answers which that executor has to
  hand over (`StopsUnlessHeldUp`).
* The asynchronous stop that the end of a play asked for may stop the next play, which has already been
  started by its owner (`VideoReaderBase.cpp:386`; `FlushBeforeRestart`).
* The end of ffmpeg's output ends the process (`FFmpegVideoReader.cpp:299`); a negative frame interval yields
  one frame and no end (`RosTimeToken.hpp:133`; `PlaysToTheEnd`).
* Without a model in the pool, popped goals are forgotten; in blocking mode the two handlers of a
  detector wait for each other's input (`RequestsAreAnswered`).
* A fire that is refused between join and stamp leaves newer data unprocessed until somebody
  fires again, whatever the comment at `SingleOverwriteExecNode.hpp:160` hopes; `AcceptedIsProcessed` speaks of accepted fires.
* The shutdown callback of a cache keeps `this` after the cache is gone (`ExpirationCache.cpp:90`).  The
  model marks what follows as undefined (`broken`), and `NoBlockIsLost` does not speak of it.
* A block whose deletion fails is left in the store for good: the client's eviction callback drops the error of
  `_delete_object` and answers 0 (`VineyardShmClient.cpp:14`), where `ExpirationCache.hpp:22` asks for -1, and the cache
  erases the entry in any case (`ExpirationCache.cpp:282`), so that nobody tries again.  `NoBlockIsLost` and
  `ExpiredIsDeleted` exempt such a block (`IsAbandoned`) and no other.
* A block may be deleted, and its memory reused, between reading it and copying its pixels
  (`FrameMediator.cpp:195`): past its time, or when two tasks have raced for the first client of the process
  (`SharedMemoryFactory.cpp:113`).  The client that is replaced dies with its user and takes its blocks with it,
  however young they are (`HasLostClient` in `ExtractedIsPublished`).

### Bounds and why they are enough

Every count in the code is compared with a small threshold, so the interesting cases are
"full", "one left" and "empty".  Five items with two tokens and buffer two fill the limiter,
the sequencer and the token loop at once and leave items behind; one reset separates two
lives of the graph; asynchronous user functions, which no node of the repository uses, are
covered by the theorems only.  Three puts and four fires overwrite data before and behind the join while
two items are in work.  Capacity one makes an input queue full with one goal while two others
and a ping arrive; two stops let a goal callback of the first life meet the second.  Two
requests are the fewest that can overtake, two downstreams the fewest whose answers
can differ; one timeout and one crash each happen at every possible moment, and the three
configurations contain each strategy, precondition and kind of wait.  Two
asynchronous stops and three activations let a task outlive its activation and be followed by
another one; three starts of a reader let a late stop meet a replay.  Two plays are the fewest
that can be mixed up, and two models the fewest whose tensors can differ.  Three tasks are the
fewest with which two race for the client while a third uses what one of them put; each may create
two clients, since a call asks for one twice.  In the plan `Crowded` two blocks can be deleted and one is kept: one
deletion can fail while another succeeds in the same round.  Three frames put one in the graph, one in its
queue and one before it.  All 26 invariants checked, and the safety part of the refinement, are also proved for all values (section 4).

`CHECK_DEADLOCK FALSE` is set because every system here may come to rest when nobody sends anything any more.

### Fairness

* *Execution nodes*: TBB runs spawned tasks, and user functions return; nobody has to put data or fire.
* *Input port*: the executor finishes a callback it entered, `stop()` goes on, readers
  keep reading and answering.  Starting, stopping, sending and cancelling are not fair.
* *Output port*: graph and `stop()` go on; servers come up, answer what they got, and one
  that is asked again and again does not refuse for ever (strong fairness of `Accept`): its
  readers empty its queue.  Pushing threads get no fairness.  Only `output_no_drop` uses this.
* *Driver*: the step thread, a transition and the graphs go on; a server answers what is not lost, and
  accepts a control signal it is sent again and again.  Nobody has to send or deactivate.
* *Life cycle*: a transition, the tasks and the step loop go on; no goal has to arrive and
  nobody has to ask for a transition.
* *Video reader*: its threads, the timer, a transition and the tasks go on.  The owner and ffmpeg's pipe
  need not.
* *Vision pipeline*: both step threads and the delivery go on; source, clients and whoever restarts a node need not.
* *Frame transport*: every call and every cache goes on, and time passes.  `AddBlock` is strongly fair: it needs the
  cache's mutex, which eviction takes and gives back.  Nothing is assumed of the store: a deletion may fail every
  time, and it is not tried again.
* *Frame relay*: callbacks, graph, step threads and generator go on; nobody has to cancel or stop.

## 4. What is proved

TLAPS proves the following for every value of the constants that satisfies the assumptions named
in the modules.  The bounds (`MaxItems`, `MaxStarts`, ...) are constants too: no theorem depends on how
large they are.

* `SingleBufferExecNode_proofs`: `TypeCorrect`; `BacklogIsBounded` and `SlotsDoNotLeak` from `LimiterInv`, which
  brackets the limiter's count by the items waiting and the continue messages under way (neither
  bound is inductive without the other's messages); `CallbacksKeepOrder` from `OrderInv`, which says that items
  queue in the order they were accepted up to the stamp, that sequence numbers follow items after it, and
  that what the sequencer let pass is older than what it holds; `TokensAreConserved` from
  `NumberInv`: sequence numbers are unique and below the next one, so that no set loses an element when one moves.
  `GraphIsAPipeline` is the safety part of the refinement, `Spec => Pipeline!Spec` for a synchronous node with
  `preserve_order`: `OutputInv` says that finalize queue, running callback and callback queue form one line that begins
  with the item behind the one emitted last, and that what was stamped and is not in it is in the work node or the sequencer,
  so that each step of the graph is one of the FIFO's or a stutter.
* `SingleOverwriteExecNode_proofs`: `TypeCorrect`, `TokensAreConserved`, `CallbacksNeverGoBack`.  `PlaceInv` says that an item behind the stamp has a number
  of its own and is in one place, `AgeInv` says that data gets no older along the graph, from the callbacks to the gate, and `SequencerInv`
  that what the sequencer holds back is no older than what it let pass.
* `Node_proofs`, of the input port: `TypeCorrect`, `HandlesArePromised`, `RejectionsAreFinal`, `GoalsAreProcessedOnce`,
  `MapStaysSmall`, `GoalsAreReachable`, from one inductive invariant.  A reader may take a goal before the
  callback has answered it, so none of the properties is inductive alone: `PlaceInv` says what is known of a
  goal in the queue or with a reader, `ServingInv` what the callback has done so far, `UniqueInv` that no
  goal is in two places, `ReachInv` that before the first `stop()` every accepted goal is in one.
* `AsyncActionOutputPort_proofs`: `TypeCorrect`, `AcceptedOnce`, `DeliveriesAreInOrder`, `ResultsAreTruthful`,
  `PushesAreTruthful`, `StopsAreSettled`, for any policies, configurations, retries, crashes and timeouts.  `EnqueueInv` says where
  a request is between its push and its result, `GoalInv` that a goal a server may still accept is the only one
  of its request, `AcceptInv` that nobody has a request before its turn comes or is asked again after accepting it, `ResultInv`
  that the delivery knows who accepted, `StopInv` that what `stop()` waits for is in the port.  Order
  follows on top: the queue is the tail of what was enqueued, and what an ordered port delivers is the last it began.
  `LosslessIsDelivered` is the safety half of `NoDropDelivers`: the delivery of a request that no policy may drop comes
  to its end only when every downstream has accepted it, or in a shutdown (`LosslessInv`: so has everybody before the
  downstream in turn, and the loop over its attempts ends with an acceptance).
* `Node_proofs`, of the life cycle: `LifeTypeCorrect`, `StepsAreCovered`, `NothingIsLeftBehind`, `ThreadsAreJoined`, `ActiveNodesStep`.
  `PhaseInv` ties phase, state and caller together, `ResourceInv` says where the ports are
  started and a thread may exist, `JoinInv` that a thread has one joiner at most, `StepInv`
  who told a thread to stop.
* `CallActionDriver_proofs`: `TypeCorrect`, with the capacity of the three ports, and `PortsAreStoppedInOrder`, which is
  inductive only together with `PhaseInv`: which ports are started in each phase, and that
  the step thread lives only while all are.  `ResponsesKeepOrder` adds `OrderInv`: from what was received
  through output port, callee port and step thread to the input port, goals form one line in the order of
  acceptance.  `SignalsAreKept` is the safety half of `SignalsAreForwarded`: no step loses a control signal that the step
  thread took, and upstream is told that it succeeded only while it is on its way, received, or failed by the callee.
* `VisionPipeline_proofs`: `TypeCorrect`, `DetectionsNeverMixUp`, `TracksStayInOnePlay`, for any setups and lengths.  `OrderInv` lines
  up all frames from the source through queues, hand and output port to the track, sorted by play and number; `SignalInv`
  says that, while no signal was dropped, no frame of an ended play is in this line without the flush
  signal that ends it; `PoolInv` that nothing passes a detector without a model.
* `FrameRelay_proofs`: `TypeCorrect`, `FramesKeepOrder`, `EntriesAreErased`, for every sink, capacity and number of frames.
  `GeneratorInv` says that one frame at a time is on its way to the sink, `ServerInv` what the callback in progress has done, `OrderInv`
  that published, running and queued frames form one growing line, `EntryInv` whose entry is still in the map,
  `TruthInv` that what has succeeded was published.
* `Frames_proofs`, of frame transport: `BlocksAreAccountedFor` and `ImagesAreTheirFrames`, for any tasks, plans
  and alive duration.  `ClientInv` says that a client somebody can reach lives or is being reset by the shutdown,
  `BlockInv` where a task is with its block, `EvictionInv` that the last eviction of a cache leaves nothing
  out, and that what it is about to erase is deleted or could not be (`IsAbandoned`).  No theorem assumes that the store
  succeeds.  That images are right rests on `LifeInv` (before the shutdown only clients out of reach die),
  `WarmInv` (a factory that has a client keeps it), `DueInv` (a block is deleted past its time or with a
  lost client) and `ExtractInv` (the message somebody reads is final).
* `Frames_proofs`, of the video reader: `NothingBehindTheFlush`, `FramesAreNumbered`, `RestartsAreAnnounced`, for
  videos of any length and every kind of reader.  `PlayInv` says which threads and tasks a state allows, `FlushInv` that
  a signal is the last of its play wherever it is, `NumberInv` and `ContentInv` that numbers and
  positions grow from what was sent through the port to the frame in hand, `EndInv` how a play came to its end.

Proved without a run of their own, since each follows from an invariant that is: `BacklogBounded`,
`CallbackInOrder`, `NoThreadIsOverwritten`, `RejectedIsNeverProcessed`, `MapIsDrained`, and the type invariants.

Only model-checked: the liveness properties (of two of them the safety half is proved) and the fairness of `OrderedPipeline` in `ImplementsPipeline` (fairness
and ENABLED are beyond TLAPS 1.4.5).

## 5. What is left

* *Compositions*: a chain of two nodes on one executor, in which the `stop()` of the second drops what the first
  waits for; ROS shutting down in the driver.
* *Proofs*: the safety halves of the other liveness properties, first that detector and tracker answer or pass on
  every signal they took (`SignalsGetThrough`), and that a graph or port that is not idle has a step to take.

### Not modelled

* Inference (ONNX Runtime, RKNN), tracking mathematics, decoding, conversions of colour and encoding: computations
  on pixels without protocol state, inside libraries.
* Python packages, message definitions, CMake helpers, scripts: generated or declarative.
* Debug topics, parameters, visualization and logging of the nodes: they change no state the protocols read.
* Resizing the input queue while it is in use, `remove_memory_block`, `_async_open`, `_async_start`,
  `_async_close`, the asynchronous work node of the overwriting execution node, waiting for time tokens: no modelled node
  calls them.
* Exceptions of user hooks: an exception that leaves a step thread ends the process; the detector has it as
  `crashed`, the other models end there.
