----------------------------- MODULE TrackerNode -----------------------------
(***************************************************************************)
(* UniversalMotTrackerNode: it feeds the frames and detections that come   *)
(* in to a tracker which keeps the number of the last frame, ends the      *)
(* track at a flush signal, and answers each goal with the tracks.  The    *)
(* tracker itself is RedoxiTrack's, seen through the calls made here.      *)
(***************************************************************************)
EXTENDS Naturals, Sequences

CONSTANTS
  Initial,       \* rxt::INIT_TRACKING_FRAME: no frame tracked yet
  TrackerCapacity,  \* goals the input port holds
  MaxReopens     \* bound on stop(), close(), open(), start() of the tracker

ASSUME TrackerAssumption ==
  TrackerCapacity \in Nat \ {0} /\ MaxReopens \in Nat /\ Initial \notin Nat

VARIABLES
  goals,     \* queue of m_input_port
  current,   \* get_current_frame_number() of m_tracker
  track,     \* history: the frames of the track that is open
  finished,  \* history: the plays whose signal was handled
  reopens    \* history: how often that happened

trackerVars == <<goals, current, track, finished, reopens>>

TrackerInit ==
  /\ goals = <<>> /\ current = Initial /\ track = <<>>
  /\ finished = {} /\ reopens = 0

AcceptGoal(goal) ==
  /\ Len(goals) < TrackerCapacity
  /\ goals' = Append(goals, goal)
  /\ UNCHANGED <<current, track, finished, reopens>>

(* A frame with an image and a number past that of the last one. *)
IsTrackable(goal) ==
  /\ goal.image # 0
  /\ ~(current # Initial /\ goal.number <= current)

(* Mutant: end_of_tracking looks at Terminate only. *)
IsEndOfTrackingTerminate(goal) == goal.signal = "Terminate"

IsEndOfTracking(goal) == goal.signal \in {"Flush", "Terminate"}

(* The goal is answered: it succeeds or, when it was refused, is aborted.   *)
Handled(goal) ==
  /\ goals' = Tail(goals)
  /\ finished' = IF IsEndOfTracking(goal) THEN finished \cup {goal.play} ELSE finished
  /\ UNCHANGED reopens

(* _handle_input_data: begin_track or track, finish_track, or neither. *)
Track ==
  /\ goals # <<>>
  /\ LET goal == Head(goals) IN
       /\ IsTrackable(goal) /\ ~IsEndOfTracking(goal)
       /\ current' = goal.number
       /\ track' = Append(track, goal)
       /\ Handled(goal)

FinishTrack ==
  /\ goals # <<>>
  /\ LET goal == Head(goals) IN
       /\ IsEndOfTracking(goal)
       /\ current' = Initial
       /\ track' = <<>>
       /\ Handled(goal)

(* The frame is not trackable, or it was once: its image has left the       *)
(* shared memory by now and cannot be read.                                 *)
Refuse ==
  /\ goals # <<>>
  /\ ~IsEndOfTracking(Head(goals))
  /\ Handled(Head(goals))
  /\ UNCHANGED <<current, track>>

(* _stop() throws the queue away, _close() finishes the track, and _open()  *)
(* creates another tracker.                                                 *)
Reopen ==
  /\ reopens < MaxReopens
  /\ reopens' = reopens + 1
  /\ goals' = <<>> /\ current' = Initial /\ track' = <<>>
  /\ UNCHANGED finished
=============================================================================
