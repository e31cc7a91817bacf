--------------------------- MODULE VisionPipeline ---------------------------
(***************************************************************************)
(* A source of frames, a detector and a tracker, as the launch files put   *)
(* them together: the source plays a video again and again, numbering its  *)
(* frames from 0 in every play and ending each with a flush signal without *)
(* an image (VideoReader); the detector sends frames with their detections *)
(* through its output port to the tracker; clients ask the detector for    *)
(* detections of pictures of their own.                                    *)
(***************************************************************************)
EXTENDS DetectorNode, TrackerNode

CONSTANTS
  PlayLength,   \* frames of a play
  MaxPlays,     \* bound on plays
  MaxRequests   \* bound on the clients' requests

ASSUME SourceAssumption == {PlayLength, MaxPlays, MaxRequests} \subseteq Nat

VARIABLES
  play, next,   \* the play, and the number of its next frame
  asked,        \* detection requests made
  dropped       \* history: signals that were dropped

sourceVars == <<play, next, asked>>
vars == <<detectorVars, trackerVars, sourceVars, dropped>>

Init ==
  /\ DetectorInit /\ TrackerInit
  /\ play = 1 /\ next = 0 /\ asked = 0 /\ dropped = {}

ImageOf(p, n) == (p - 1) * PlayLength + n + 1
PictureOf(n) == MaxPlays * PlayLength + n

-----------------------------------------------------------------------------
SendFrame ==
  /\ play <= MaxPlays /\ next < PlayLength
  /\ AcceptImage([play |-> play, number |-> next, image |-> ImageOf(play, next),
                  signal |-> "none"])
  /\ next' = next + 1
  /\ UNCHANGED <<trackerVars, play, asked, dropped>>

(* The source drops a frame, which still gets a number. *)
SkipFrame ==
  /\ play <= MaxPlays /\ next < PlayLength /\ ~setup.reliable
  /\ next' = next + 1
  /\ UNCHANGED <<detectorVars, trackerVars, play, asked, dropped>>

SendFlush ==
  /\ play <= MaxPlays /\ next = PlayLength
  /\ AcceptImage([play |-> play, number |-> PlayLength, image |-> Empty,
                  signal |-> "Flush"])
  /\ play' = play + 1 /\ next' = 0
  /\ UNCHANGED <<trackerVars, asked, dropped>>

(* A client asks, with a picture or with none. *)
AskForDetections ==
  /\ asked < MaxRequests
  /\ \E image \in {Empty, PictureOf(asked + 1)} :
       AcceptRequest([play |-> 0, number |-> asked + 1, image |-> image,
                      signal |-> "none"])
  /\ asked' = asked + 1
  /\ UNCHANGED <<trackerVars, play, next, dropped>>

DetectorReplies ==
  ReplyStep /\ UNCHANGED <<trackerVars, sourceVars, dropped>>

DetectorSends ==
  SendStep /\ UNCHANGED <<trackerVars, sourceVars, dropped>>

DeliverToTracker ==
  /\ Deliver
  /\ AcceptGoal(Head(output))
  /\ UNCHANGED <<sourceVars, dropped>>

DropDetections ==
  /\ Deliver
  /\ MayDrop(Head(output))
  /\ dropped' = dropped \cup ({Head(output).signal} \ {"none"})
  /\ UNCHANGED <<trackerVars, sourceVars>>

(* Signals among the goals that the detector throws away are lost. *)
DetectorRestarts ==
  /\ StopAndStart
  /\ dropped' = dropped \cup
       ({images[k].signal : k \in DOMAIN images} \ {"none"})
  /\ UNCHANGED <<trackerVars, sourceVars>>

TrackerTracks == Track /\ UNCHANGED <<detectorVars, sourceVars, dropped>>
TrackerFinishes == FinishTrack /\ UNCHANGED <<detectorVars, sourceVars, dropped>>
TrackerRefuses == Refuse /\ UNCHANGED <<detectorVars, sourceVars, dropped>>
TrackerReopens == Reopen /\ UNCHANGED <<detectorVars, sourceVars, dropped>>

Next ==
  \/ SendFrame \/ SkipFrame \/ SendFlush \/ AskForDetections
  \/ DetectorReplies \/ DetectorSends \/ DetectorRestarts
  \/ DeliverToTracker \/ DropDetections
  \/ TrackerTracks \/ TrackerFinishes \/ TrackerRefuses \/ TrackerReopens

Spec == Init /\ [][Next]_vars

(* The step threads of the two nodes and the deliveries make progress; the  *)
(* source and the clients need not send anything.                           *)
Fairness ==
  /\ WF_vars(DetectorReplies) /\ WF_vars(DetectorSends)
  /\ WF_vars(DeliverToTracker \/ DropDetections)
  /\ WF_vars(TrackerTracks \/ TrackerFinishes \/ TrackerRefuses)

FairSpec == Spec /\ Fairness

-----------------------------------------------------------------------------
InFlight ==
  {inHand} \cup {output[k] : k \in DOMAIN output} \cup {goals[k] : k \in DOMAIN goals}

(* Detections that leave the detector were made from the image they leave   *)
(* with, whichever model made them and whatever it saw before.  A signal    *)
(* without an image is the exception: it carries those of an older one.     *)
DetectionsAreOfTheirImage ==
  /\ \A m \in InFlight : m.image # Empty => m.detections \subseteq {m.image}
  /\ answer.detections \subseteq {answer.image} \ {Empty}

(* A track never goes on from one play of the video into the next, and its  *)
(* frames are in order, as long as no signal was dropped on its way.        *)
OneTrackPerPlay ==
  dropped = {} => \A j, k \in DOMAIN track : j < k =>
    track[j].play = track[k].play /\ track[j].number < track[k].number

(* Requests are disposed of while frames keep coming (answered, or thrown   *)
(* away for want of a model or by stop()), unless the handlers block: then  *)
(* each of them waits for the other's input.                                *)
RequestsAreAnswered ==
  ~setup.blocking =>
    \A n \in 1 .. MaxRequests : asked = n ~> answered >= n \/ crashed

(* The signal behind a play gets to the tracker, whatever the frames before *)
(* it met, unless a model is missing, the configuration lets it be lost, or *)
(* a node was stopped with the signal in its queue.                         *)
SignalsGetThrough ==
  setup.reliable /\ ~setup.blocking /\ setup.models > 0 =>
    \A p \in 1 .. MaxPlays : play = p + 1 ~>
      \/ p \in finished \/ crashed \/ reopens > 0 \/ dropped # {}

(* "special control signal must be delivered reliably" *)
SignalsAreReliable == dropped = {}
=============================================================================
