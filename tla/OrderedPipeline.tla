--------------------------- MODULE OrderedPipeline ---------------------------
(***************************************************************************)
(* What an ordered exec node promises: it takes items in, holds a bounded  *)
(* number of them, and hands every one over in the order it took them.     *)
(* Items are named by the position at which they were accepted.            *)
(***************************************************************************)
EXTENDS Naturals, Sequences

CONSTANTS
  Capacity  \* items the pipeline may hold: backlog plus items being worked on

VARIABLES
  accepted,   \* number of items taken in
  bypassed,   \* number of those taken in although the pipeline may be full
  pending,    \* items taken in and not handed over
  delivered   \* items handed over

vars == <<accepted, bypassed, pending, delivered>>

Init ==
  /\ accepted = 0 /\ bypassed = 0
  /\ pending = <<>> /\ delivered = <<>>

Take ==
  /\ accepted' = accepted + 1
  /\ pending' = Append(pending, accepted')
  /\ UNCHANGED delivered

Accept == Len(pending) < Capacity + bypassed /\ Take /\ UNCHANGED bypassed

AcceptBypassing == bypassed' = bypassed + 1 /\ Take

Deliver ==
  /\ pending # <<>>
  /\ delivered' = Append(delivered, Head(pending))
  /\ pending' = Tail(pending)
  /\ UNCHANGED <<accepted, bypassed>>

(* The owner resets the pipeline and gives up what it holds. *)
Discard ==
  /\ pending' = <<>>
  /\ UNCHANGED <<accepted, bypassed, delivered>>

Next == Accept \/ AcceptBypassing \/ Deliver \/ Discard

Spec == Init /\ [][Next]_vars

FairSpec == Spec /\ WF_vars(Deliver)
=============================================================================
