----------------------------- MODULE VideoReader -----------------------------
(***************************************************************************)
(* A source of frames: RedoxiVideoReaderBase, whose step thread reads a    *)
(* frame for every token of a RosTimeToken, numbers it, pushes it to its   *)
(* output port, and stops the node behind the last one; and its two kinds, *)
(* VideoSourceFromUrl, which may play again, and FFmpegVideoReader, which  *)
(* is fed by a thread of its own through a queue of one frame.             *)
(*                                                                         *)
(* The step thread, the thread of ffmpeg's pipe, the tasks of              *)
(* _async_stop(), the port's deliveries, the timer and the owner's calls   *)
(* run side by side.  The owner waits for one call before the next one.    *)
(***************************************************************************)
EXTENDS Integers, Sequences

CONSTANTS
  Length,     \* frames of the video
  Configs,    \* the configurations of a reader
  MaxStarts,  \* bound on activations, by the owner or by auto_replay
  MaxCalls    \* bound on the owner's calls that interrupt a play

Kinds == {"url", "ffmpeg"}

(* frame_interval as try_pop_token tells it apart; reliable: neither        *)
(* frame_enqueue_policy nor frame_request_policy lets a frame be dropped.   *)
ReaderConfigs ==
  [kind : Kinds, auto_replay : BOOLEAN, reliable : BOOLEAN,
   interval : {"zero", "positive", "negative"}]
ASSUME ConfigAssumption == Configs \subseteq ReaderConfigs
ASSUME BoundAssumption == {Length, MaxStarts, MaxCalls} \subseteq Nat

VARIABLES
  config,       \* m_init_config and m_runtime_config
  state,        \* get_current_state()
  stopBy,       \* who deactivates: "api" calls _on_stopped, "service" does not
  chain,        \* what _on_stopped and _on_closed have still to call
  stepRunning,  \* m_step_running
  thread,       \* m_step_thread
  joiner,       \* who is inside its join()
  asyncStop,    \* how far the tasks of _async_stop() are
  asyncOf,      \* history: the play whose end asked for it
  cancelled,    \* one of them threw: the task group runs nothing any more
  terminated,   \* an exception left a thread: the process is gone
  tokens,       \* tokens in the RosTimeToken's queue of one
  position,     \* frames read from m_video_capture, or written by ffmpeg
  slot,         \* m_frame_queue: what ffmpeg's thread left for the step thread
  number,       \* m_last_read_frame_number
  request,      \* what the step thread is about to push
  outgoing,     \* what the output port has taken and not yet delivered
  sent,         \* history: deliveries
  starts, opens, calls,  \* history: how often that happened
  interrupted   \* history: the openings in which a play was stopped by the
                \* owner, or by the end of an earlier play

nodeVars == <<state, stopBy, chain, calls, interrupted>>
threadVars == <<stepRunning, thread, joiner, asyncStop, asyncOf, cancelled>>
sourceVars == <<position, slot, number, terminated>>
portVars == <<request, outgoing, sent>>
readerVars == <<config, nodeVars, threadVars, sourceVars, portVars, tokens, starts,
                opens>>

Frame(content, n) == [signal |-> "none", content |-> content, number |-> n,
                      start |-> starts, opening |-> opens]
FlushRequest == [Frame(0, -1) EXCEPT !.signal = "Flush"]  \* an empty frame
NoRequest == [signal |-> "none", content |-> 0, number |-> -1, start |-> 0,
              opening |-> 0]

ReaderInit ==
  /\ config \in Configs
  /\ state = "unconfigured" /\ stopBy = "none" /\ chain = "none"
  /\ stepRunning = FALSE /\ thread = "none" /\ joiner = "none"
  /\ asyncStop = "idle" /\ asyncOf = 0 /\ cancelled = FALSE
  /\ terminated = FALSE
  /\ tokens = 0 /\ position = 0 /\ slot = <<>> /\ number = -1
  /\ request = NoRequest /\ outgoing = <<>> /\ sent = <<>>
  /\ starts = 0 /\ opens = 0 /\ calls = 0 /\ interrupted = {}

-----------------------------------------------------------------------------
(* open(), start() and close(), of the owner or of a reader that replays.   *)
Opened ==
  /\ state' = "inactive"
  /\ number' = -1 /\ opens' = opens + 1
  /\ position' = 0

Open ==
  /\ state = "unconfigured" /\ chain \in {"none", "open"} /\ ~terminated
  /\ opens < MaxStarts
  /\ Opened
  /\ chain' = IF chain = "open" THEN "start" ELSE "none"
  /\ UNCHANGED <<config, stopBy, calls, interrupted, threadVars, slot,
                 terminated, portVars, tokens, starts>>

(* The URL does not open any more: on_configure raises an error, and start()*)
(* then raises another one, in the task that was replaying.                 *)
OpenFails ==
  /\ state = "unconfigured" /\ chain \in {"none", "open"} /\ ~terminated
  /\ state' = "finalized" /\ chain' = "none"
  /\ number' = -1
  /\ cancelled' = (cancelled \/ asyncStop = "stopping")
  /\ asyncStop' = "idle"
  /\ UNCHANGED <<config, asyncOf, stopBy, calls, interrupted, stepRunning, thread,
                 joiner, position, slot, terminated, portVars, tokens, starts,
                 opens>>

Started ==
  /\ state = "inactive" /\ chain \in {"none", "start"} /\ ~terminated
  /\ starts < MaxStarts
  /\ state' = "active" /\ chain' = "none" /\ starts' = starts + 1
  /\ stepRunning' = TRUE /\ thread' = "head"
  /\ tokens' = 1
  /\ asyncStop' = IF asyncStop = "stopping" THEN "idle" ELSE asyncStop
  /\ slot' = <<>>
  /\ position' = IF config.kind = "ffmpeg" THEN 0 ELSE position
  /\ UNCHANGED <<config, asyncOf, stopBy, calls, interrupted, joiner, cancelled,
                 terminated, portVars, opens>>

(* Mutant: the frame number is reset by start(). *)
StartRenumbering == Started /\ number' = -1

(* _start(): the port, the token with its initial token (the queue may hold *)
(* one already), ffmpeg with its thread; then the step thread.              *)
Start == Started /\ UNCHANGED number

Close ==
  /\ state = "inactive" /\ chain \in {"none", "close"} /\ ~terminated
  /\ state' = "unconfigured"
  /\ chain' = IF chain = "close" THEN "open" ELSE "none"
  /\ UNCHANGED <<config, stopBy, calls, interrupted, threadVars, sourceVars,
                 portVars, tokens, starts, opens>>

(* The owner calls stop(), or a service deactivates the node. *)
OwnerStops(by) ==
  /\ state = "active" /\ calls < MaxCalls /\ ~terminated
  /\ calls' = calls + 1 /\ interrupted' = interrupted \cup {opens}
  /\ state' = "deactivating" /\ stopBy' = by
  /\ stepRunning' = FALSE
  /\ UNCHANGED <<config, asyncOf, chain, thread, joiner, asyncStop, cancelled,
                 sourceVars, portVars, tokens, starts, opens>>

-----------------------------------------------------------------------------
(* on_deactivate: join the step thread, unless a task of _async_stop() is   *)
(* inside join() already: then the error ends in FINALIZED, nothing stopped *)
JoinBegin ==
  /\ state = "deactivating" /\ thread # "none" /\ joiner = "none" /\ ~terminated
  /\ joiner' = "transition"
  /\ UNCHANGED <<config, asyncOf, nodeVars, stepRunning, thread, asyncStop, cancelled,
                 sourceVars, portVars, tokens, starts, opens>>

JoinFails ==
  /\ state = "deactivating" /\ joiner = "async" /\ ~terminated
  /\ state' = "finalized"
  /\ UNCHANGED <<config, stopBy, chain, calls, interrupted, threadVars,
                 sourceVars, portVars, tokens, starts, opens>>

JoinEnd ==
  /\ joiner = "transition" /\ thread = "done" /\ ~terminated
  /\ joiner' = "none" /\ thread' = "none"
  /\ UNCHANGED <<config, asyncOf, nodeVars, stepRunning, asyncStop, cancelled,
                 sourceVars, portVars, tokens, starts, opens>>

(* _stop() of the base: the port, which waits for its requests, and the     *)
(* token.                                                                   *)
BaseStops == state = "deactivating" /\ outgoing = <<>>

(* _on_stopped() asks only whether auto_replay is set.                      *)
StopUrl ==
  /\ thread = "none" /\ joiner = "none"
  /\ config.kind = "url" /\ BaseStops
  /\ state' = "inactive" /\ stopBy' = "none"
  /\ chain' = IF config.auto_replay /\ stopBy # "service" THEN "close" ELSE "none"
  /\ asyncStop' = IF asyncStop = "stopping" /\ chain' = "none" THEN "idle"
                  ELSE asyncStop
  /\ UNCHANGED <<config, asyncOf, calls, interrupted, stepRunning, thread, joiner,
                 cancelled, sourceVars, portVars, tokens, starts, opens>>

(* _stop() of the ffmpeg reader begins by ending ffmpeg; then it waits for  *)
(* the thread that reads the pipe, which cannot end but by an exception.    *)
StopFFmpeg ==
  /\ state = "deactivating" /\ thread = "none" /\ joiner = "none"
  /\ config.kind = "ffmpeg" /\ position < Length
  /\ position' = Length /\ slot' = <<>>
  /\ UNCHANGED <<config, nodeVars, threadVars, number, terminated, portVars,
                 tokens, starts, opens>>

-----------------------------------------------------------------------------
(* The tasks of _async_stop(): join the step thread, then stop().           *)
AsyncJoin ==
  /\ asyncStop = "posted" /\ ~terminated
  /\ stepRunning' = FALSE
  /\ asyncStop' = CASE thread = "none" -> "joined"
                    [] thread # "none" /\ joiner = "none" -> "joining"
                    [] OTHER -> "idle"
  /\ joiner' = IF asyncStop' = "joining" THEN "async" ELSE joiner
  /\ cancelled' = (cancelled \/ asyncStop' = "idle")
  /\ UNCHANGED <<config, asyncOf, nodeVars, thread, sourceVars, portVars, tokens, starts,
                 opens>>

AsyncJoined ==
  /\ asyncStop = "joining" /\ thread = "done" /\ ~terminated
  /\ asyncStop' = "joined" /\ joiner' = "none" /\ thread' = "none"
  /\ UNCHANGED <<config, asyncOf, nodeVars, stepRunning, cancelled, sourceVars, portVars,
                 tokens, starts, opens>>

(* What it stops may be another play than the one that came to its end.     *)
AsyncStopCall ==
  /\ asyncStop = "joined" /\ ~terminated
  /\ IF state = "active"
     THEN /\ state' = "deactivating" /\ stopBy' = "api"
          /\ stepRunning' = FALSE
          /\ asyncStop' = "stopping" /\ UNCHANGED cancelled
          /\ interrupted' = IF asyncOf = starts THEN interrupted
                            ELSE interrupted \cup {opens}
     ELSE /\ asyncStop' = "idle" /\ cancelled' = TRUE
          /\ UNCHANGED <<state, stopBy, stepRunning, interrupted>>
  /\ UNCHANGED <<config, asyncOf, chain, calls, thread, joiner, sourceVars,
                 portVars, tokens, starts, opens>>

-----------------------------------------------------------------------------
(* RosTimeToken *)
(* try_pop_token: "if the interval is 0, the token is always available". *)
TokenAvailable == config.interval = "zero" \/ tokens > 0

(* The timer's callback, into a queue of one. *)
TimerTick ==
  /\ state \in {"active", "deactivating"} /\ config.interval = "positive"
  /\ tokens = 0 /\ ~terminated
  /\ tokens' = 1
  /\ UNCHANGED <<config, nodeVars, threadVars, sourceVars, portVars, starts,
                 opens>>

-----------------------------------------------------------------------------
(* The step thread. *)
LoopEnd ==
  /\ thread = "head" /\ ~stepRunning /\ ~terminated
  /\ thread' = "done"
  /\ UNCHANGED <<config, asyncOf, nodeVars, stepRunning, joiner, asyncStop, cancelled,
                 sourceVars, portVars, tokens, starts, opens>>

(* Mutant: an interval of zero is one without a timer, like a negative one. *)
StepBeginPopping ==
  /\ thread = "head" /\ stepRunning /\ state = "active" /\ tokens > 0
  /\ ~terminated
  /\ tokens' = 0
  /\ thread' = "reading"
  /\ UNCHANGED <<config, asyncOf, nodeVars, stepRunning, joiner, asyncStop, cancelled,
                 sourceVars, portVars, starts, opens>>

(* The loop looks at m_step_running, and _step() at the state. *)
StepBegin ==
  /\ thread = "head" /\ stepRunning /\ state = "active" /\ TokenAvailable
  /\ ~terminated
  /\ tokens' = IF config.interval = "zero" THEN tokens ELSE 0
  /\ thread' = "reading"
  /\ UNCHANGED <<config, asyncOf, nodeVars, stepRunning, joiner, asyncStop, cancelled,
                 sourceVars, portVars, starts, opens>>

Read(r) == request' = r /\ thread' = "read"

(* VideoSourceFromUrl::_read_frame *)
ReadUrl ==
  /\ thread = "reading" /\ config.kind = "url"
  /\ IF position < Length
     THEN /\ position' = position + 1 /\ number' = number + 1
          /\ Read(Frame(position', number'))
     ELSE Read(FlushRequest) /\ UNCHANGED <<position, number>>
  /\ UNCHANGED <<config, asyncOf, nodeVars, stepRunning, joiner, asyncStop, cancelled,
                 slot, terminated, outgoing, sent, tokens, starts, opens>>

(* FFmpegVideoReader::_read_frame waits for a frame in the queue.           *)
ReadFFmpeg ==
  /\ thread = "reading" /\ slot # <<>> /\ ~terminated
  /\ slot' = <<>> /\ number' = number + 1
  /\ Read(Frame(Head(slot), number'))
  /\ UNCHANGED <<config, asyncOf, nodeVars, stepRunning, joiner, asyncStop, cancelled,
                 position, terminated, outgoing, sent, tokens, starts, opens>>

(* Mutant: a signal is pushed like a frame. *)
MayDropAnything(r) == ~config.reliable

(* push_request: a signal is made reliable, a frame may be refused or, when *)
(* it is delivered, dropped.                                                *)
MayDrop(r) == ~config.reliable /\ r.signal = "none"

Push ==
  /\ thread = "read" /\ ~terminated
  /\ outgoing' = Append(outgoing, request)
  /\ thread' = "waiting"
  /\ UNCHANGED <<config, asyncOf, nodeVars, stepRunning, joiner, asyncStop, cancelled,
                 sourceVars, request, sent, tokens, starts, opens>>

PushRefused ==
  /\ thread = "read" /\ MayDrop(request) /\ ~terminated
  /\ thread' = "waiting"
  /\ UNCHANGED <<config, asyncOf, nodeVars, stepRunning, joiner, asyncStop, cancelled,
                 sourceVars, portVars, tokens, starts, opens>>

Deliver ==
  /\ outgoing # <<>> /\ ~terminated
  /\ sent' = Append(sent, Head(outgoing)) /\ outgoing' = Tail(outgoing)
  /\ UNCHANGED <<config, nodeVars, threadVars, sourceVars, request, tokens,
                 starts, opens>>

DeliveryFails ==
  /\ outgoing # <<>> /\ MayDrop(Head(outgoing)) /\ ~terminated
  /\ outgoing' = Tail(outgoing)
  /\ UNCHANGED <<config, nodeVars, threadVars, sourceVars, request, sent, tokens,
                 starts, opens>>

(* wait_for_all_requests, and another turn of the loop. *)
StepEnd ==
  /\ thread = "waiting" /\ outgoing = <<>> /\ request.signal = "none"
  /\ ~terminated
  /\ thread' = "head"
  /\ UNCHANGED <<config, asyncOf, nodeVars, stepRunning, joiner, asyncStop, cancelled,
                 sourceVars, portVars, tokens, starts, opens>>

(* Mutant: the loop goes on until the posted task has run. *)
EndOfVideoGoingOn ==
  /\ thread = "waiting" /\ outgoing = <<>> /\ request.signal = "Flush"
  /\ thread' = "head"
  /\ asyncStop' = IF cancelled THEN "idle" ELSE "posted"
  /\ asyncOf' = starts
  /\ UNCHANGED <<config, nodeVars, stepRunning, joiner, cancelled, sourceVars,
                 portVars, tokens, starts, opens>>

(* Behind the last request, _async_stop(): the loop ends at once.  Of two   *)
(* plays' tasks under way at once only the later one is kept: the task      *)
(* group runs both, and what the earlier one has left to do is left out.    *)
EndOfVideo ==
  /\ thread = "waiting" /\ outgoing = <<>> /\ request.signal = "Flush"
  /\ thread' = "head" /\ stepRunning' = FALSE
  /\ asyncStop' = IF cancelled THEN "idle" ELSE "posted"
  /\ asyncOf' = starts
  /\ UNCHANGED <<config, nodeVars, joiner, cancelled, sourceVars, portVars,
                 tokens, starts, opens>>

-----------------------------------------------------------------------------
(* The thread that reads ffmpeg's pipe. *)
Feeding == config.kind = "ffmpeg" /\ state \in {"active", "deactivating"}

(* _read_ffmpeg_data_once: what the queue holds is replaced.                *)
FeedFrame ==
  /\ Feeding /\ position < Length /\ ~terminated
  /\ position' = position + 1 /\ slot' = <<position'>>
  /\ UNCHANGED <<config, nodeVars, threadVars, number, terminated, portVars,
                 tokens, starts, opens>>

(* At the end of the pipe, read throws, and so does what catches it: the    *)
(* exception leaves the thread.                                             *)
FeedEnd ==
  /\ Feeding /\ position = Length /\ ~terminated
  /\ terminated' = TRUE
  /\ UNCHANGED <<config, nodeVars, threadVars, position, slot, number, portVars,
                 tokens, starts, opens>>

-----------------------------------------------------------------------------
ReaderNext ==
  \/ Open \/ OpenFails \/ Start \/ Close
  \/ \E by \in {"api", "service"} : OwnerStops(by)
  \/ JoinBegin \/ JoinFails \/ JoinEnd \/ StopUrl \/ StopFFmpeg
  \/ AsyncJoin \/ AsyncJoined \/ AsyncStopCall
  \/ TimerTick \/ LoopEnd \/ StepBegin \/ ReadUrl \/ ReadFFmpeg
  \/ Push \/ PushRefused \/ Deliver \/ DeliveryFails \/ StepEnd \/ EndOfVideo
  \/ FeedFrame \/ FeedEnd

ReaderSpec == ReaderInit /\ [][ReaderNext]_readerVars

(* The step thread, the deliveries of the port, the timer and the tasks of  *)
(* the task group make progress, and so does a call once it was made.       *)
(* Nothing is assumed of the owner's calls or of ffmpeg.                    *)
ReaderFairness ==
  /\ WF_readerVars(LoopEnd) /\ WF_readerVars(StepBegin) /\ WF_readerVars(ReadUrl)
  /\ WF_readerVars(ReadFFmpeg) /\ WF_readerVars(Push \/ PushRefused)
  /\ WF_readerVars(Deliver \/ DeliveryFails) /\ WF_readerVars(StepEnd)
  /\ WF_readerVars(EndOfVideo) /\ WF_readerVars(TimerTick)
  /\ WF_readerVars(JoinBegin) /\ WF_readerVars(JoinFails) /\ WF_readerVars(JoinEnd)
  /\ WF_readerVars(StopUrl)
  /\ WF_readerVars(AsyncJoin) /\ WF_readerVars(AsyncJoined) /\ WF_readerVars(AsyncStopCall)

ReaderFairSpec == ReaderSpec /\ ReaderFairness

-----------------------------------------------------------------------------
(* "End of video, send this frame and then stop": nothing follows the flush *)
(* signal before the node was stopped and started again, and in particular  *)
(* no second signal.                                                        *)
FlushEndsThePlay ==
  \A m, n \in DOMAIN sent :
    m < n /\ sent[m].start = sent[n].start => sent[m].signal = "none"

(* From open() to close(), frame numbers grow, over every stop and start;   *)
(* and by one if nothing may be dropped.  Within a play a higher number     *)
(* means a newer frame, whatever the queue between the threads dropped.     *)
NumbersGrow ==
  LET frames == {n \in DOMAIN sent : sent[n].signal = "none"} IN
  \A m, n \in frames : m < n /\ sent[m].opening = sent[n].opening =>
    /\ sent[m].number < sent[n].number
    /\ config.reliable => sent[n].number - sent[m].number <= n - m
    /\ sent[m].start = sent[n].start => sent[m].content < sent[n].content

(* "Flush or terminate signal must be sent reliably": receivers see numbers *)
(* start over only behind a flush signal, unless the play before was        *)
(* interrupted, by its owner or by an _async_stop() that the end of a still *)
(* earlier play had left behind: then nothing tells them.                   *)
FlushBeforeRestart ==
  \A n \in DOMAIN sent \ {1} :
    /\ sent[n - 1].signal = "none" /\ sent[n].signal = "none"
    /\ sent[n].number <= sent[n - 1].number
    => sent[n - 1].opening \in interrupted

(* A reader of a URL comes to the end of its video and is stopped there,    *)
(* with every interval that yields tokens, unless an earlier stop broke its *)
(* task group.                                                              *)
PlaysToTheEnd ==
  config.kind = "url" /\ config.interval # "negative" =>
    (state = "active" ~> state # "active" \/ cancelled)

=============================================================================
