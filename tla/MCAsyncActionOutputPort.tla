---------------------- MODULE MCAsyncActionOutputPort ----------------------
(* Small instances of AsyncActionOutputPort: who pushes what under which    *)
(* policies.                                                                *)
EXTENDS AsyncActionOutputPort

CONSTANTS frame, control  \* two requests

Droppable ==
  [DefaultPolicy EXCEPT !.strategy = "DropAsNeeded", !.retry.retries = 1,
                        !.precondition = "AnyDownstreamReady"]

Once == [Droppable EXCEPT !.strategy = "DontCare", !.retry.retries = 0,
                          !.precondition = "NoPrecondition"]

Reliable == [DefaultPolicy EXCEPT !.retry.retries = 0]

(* All requests go by the policies of the downstreams, which drop nothing.  *)
Lossless ==
  [enqueue |-> [r \in Requests |-> Reliable],
   own |-> [r \in Requests |-> {}],
   downstream |-> [d \in Downstreams |-> Reliable], fallback |-> "DontCare",
   order |-> TRUE, workers |-> 4, shutdowns |-> {}, crashes |-> 0]

(* A data frame, which the downstreams' policies may drop, and a control    *)
(* signal made reliable, as the port handlers send them; the signal waits   *)
(* for its answer for ever.                                                 *)
Ordered ==
  [Lossless EXCEPT
    !.enqueue[frame] = Droppable,
    !.own[control] = MakeReliable({[Reliable EXCEPT !.retry.wait = "negative"]}),
    !.downstream = [d \in Downstreams |-> IF d = 1 THEN Droppable ELSE Once],
    !.fallback = "AnyDownstreamReady", !.crashes = 1]

(* One request does not wait for its answer, the other one does; the second *)
(* is tried as often as the fallback says.                                  *)
Unordered ==
  [Lossless EXCEPT
    !.enqueue = [r \in Requests |-> Once],
    !.own[frame] = {[Droppable EXCEPT !.precondition = "AllDownstreamsReady",
                                      !.retry.wait = "zero"]},
    !.own[control] = {[Once EXCEPT !.retry.retries = Unset, !.retry.fallback = 1]},
    !.order = FALSE, !.workers = 2, !.shutdowns = {"node", "ros"}]

GoingDown == [Lossless EXCEPT !.shutdowns = {"node"}]

LossyConfigs == {Ordered, Unordered, GoingDown}
LosslessConfigs == {Lossless}
=============================================================================
