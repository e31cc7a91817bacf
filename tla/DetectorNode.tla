---------------------------- MODULE DetectorNode ----------------------------
(***************************************************************************)
(* Yolo8BaseNode: one step thread that serves in turn a handler which      *)
(* answers detection requests (PullProcessReplyHandler) and one that sends *)
(* the detections of the images it gets (PullProcessSendHandler).  Both    *)
(* take a model from the same pool for an inference.                       *)
(*                                                                         *)
(* An image is a value, 0 for an empty one; the detections of an image are *)
(* represented by that image.                                              *)
(***************************************************************************)
EXTENDS Naturals, Sequences

CONSTANTS
  Setups,          \* the configurations of a detector and its output port
  InputCapacity,   \* goals an input port holds
  OutputCapacity,  \* requests the output port holds
  MaxRestarts      \* bound on stop() and start()

(* models: length of model_configs; blocking: enable_blocking_mode;         *)
(* reliable: the delivery policy that the output port's configuration sets  *)
(* lets nothing be dropped.                                                 *)
DetectorSetups == [models : Nat, blocking : BOOLEAN, reliable : BOOLEAN]
ASSUME SetupAssumption == Setups \subseteq DetectorSetups
ASSUME CapacityAssumption ==
  /\ {InputCapacity, OutputCapacity} \subseteq Nat \ {0}
  /\ MaxRestarts \in Nat

VARIABLES
  setup,     \* m_init_config and m_runtime_config
  requests,  \* queue of m_detection_request_input_port
  images,    \* queue of m_image_request_input_port
  turn,      \* where _step() is
  pool,      \* m_impl->inference_resource_pool: tokens, each with its model
  tensor,    \* the image in the inout_data of each model, 0 for none yet
  inHand,    \* the output request between the inference and its push
  answer,    \* history: what became of the last detection request
  answered,  \* history: how many were disposed of
  output,    \* requests the output port has accepted and not delivered
  crashed,   \* an exception left the step thread
  restarts   \* history: how often the node was stopped and started

portVars == <<requests, images, output>>
modelVars == <<pool, tensor>>
clientVars == <<answer, answered>>
detectorVars == <<setup, portVars, turn, modelVars, inHand, clientVars,
                  crashed, restarts>>

Empty == 0
NoMessage == [play |-> 0, number |-> 0, image |-> Empty, signal |-> "none",
              detections |-> {}, policy |-> "default"]
NoAnswer == [image |-> Empty, code |-> "none", detections |-> {}]

(* _create_all_inference_resources counts the replicas of each model, and   *)
(* _create_inference_resource makes a token with inout_data for each.       *)
Models(s) == 1 .. s.models
FreshPool(s) == [m \in Models(s) |-> m]

DetectorInit ==
  /\ setup \in Setups
  /\ requests = <<>> /\ images = <<>> /\ output = <<>>
  /\ turn = "reply"
  /\ pool = FreshPool(setup)
  /\ tensor = [m \in Models(setup) |-> Empty]
  /\ inHand = NoMessage /\ crashed = FALSE /\ restarts = 0
  /\ answer = NoAnswer /\ answered = 0

-----------------------------------------------------------------------------
(* The input ports accept goals as long as their queues have room. *)
AcceptRequest(goal) ==
  /\ Len(requests) < InputCapacity
  /\ requests' = Append(requests, goal)
  /\ UNCHANGED <<setup, images, output, turn, modelVars, inHand, clientVars,
                 crashed, restarts>>

AcceptImage(goal) ==
  /\ Len(images) < InputCapacity
  /\ images' = Append(images, goal)
  /\ UNCHANGED <<setup, requests, output, turn, modelVars, inHand,
                 clientVars, crashed, restarts>>

-----------------------------------------------------------------------------
(* Mutant: only the first image of a model is preprocessed. *)
SetInputOnce(m, image) ==
  tensor' = IF tensor[m] # Empty THEN tensor ELSE [tensor EXCEPT ![m] = image]

(* set_input_images: an empty image is refused and changes nothing, and the *)
(* caller does not look at what it returned.                                *)
SetInput(m, image) ==
  tensor' = IF image = Empty THEN tensor ELSE [tensor EXCEPT ![m] = image]

(* _do_inference: detections of what the model's inout_data holds by now.   *)
Detections(m) == IF tensor'[m] = Empty THEN {} ELSE {tensor'[m]}

(* The token goes back to the end of the pool, whatever the result is. *)
ReleaseToken == pool' = Append(Tail(pool), Head(pool))

(* process_and_reply of the detection request handler. *)
Answer(code, detections) ==
  /\ answer' = [image |-> Head(requests).image, code |-> code,
                detections |-> detections]
  /\ answered' = answered + 1

NextTurn == turn' = "send" /\ requests' = Tail(requests)

ProcessDetectionRequest ==
  /\ turn = "reply" /\ requests # <<>> /\ pool # <<>> /\ ~crashed
  /\ LET image == Head(requests).image IN
       /\ SetInput(Head(pool), image)
       /\ Answer("succeeded",
                 IF image = Empty THEN {} ELSE Detections(Head(pool)))
  /\ ReleaseToken /\ NextTurn
  /\ UNCHANGED <<setup, images, output, inHand, crashed, restarts>>

(* The image cannot be read: it has left the shared memory. *)
AbortDetectionRequest ==
  /\ turn = "reply" /\ requests # <<>> /\ pool # <<>> /\ ~crashed
  /\ Answer("aborted", {})
  /\ ReleaseToken /\ NextTurn
  /\ UNCHANGED <<setup, images, output, tensor, inHand, crashed, restarts>>

(* Without a token a goal that was popped is forgotten. *)
ForgetDetectionRequest ==
  /\ turn = "reply" /\ requests # <<>> /\ pool = <<>> /\ ~setup.blocking
  /\ Answer("forgotten", {})
  /\ NextTurn
  /\ UNCHANGED <<setup, images, output, modelVars, inHand, crashed, restarts>>

NoDetectionRequest ==
  /\ turn = "reply" /\ requests = <<>> /\ ~setup.blocking /\ ~crashed
  /\ turn' = "send"
  /\ UNCHANGED <<setup, portVars, modelVars, inHand, clientVars, crashed,
                 restarts>>

-----------------------------------------------------------------------------
(* process_and_send of the image request handler.                           *)
Message(goal, detections, policy) ==
  [play |-> goal.play, number |-> goal.number, image |-> goal.image,
   signal |-> goal.signal, detections |-> detections, policy |-> policy]

(* The hook replaces the request that the handler had made reliable for a   *)
(* signal by a request of its own: the delivery policy is the port's.       *)
DeliveryPolicy(signal) == "default"

(* The step ends the process when the model has never had an image: its     *)
(* preprocess info is missing.                                              *)
ProcessImageRequest ==
  /\ turn = "send" /\ images # <<>> /\ pool # <<>> /\ ~crashed
  /\ LET goal == Head(images)
         m == Head(pool)
     IN /\ SetInput(m, goal.image)
        /\ IF tensor'[m] = Empty
           THEN crashed' = TRUE /\ UNCHANGED <<inHand, turn>>
           ELSE /\ inHand' = Message(goal, Detections(m),
                                     DeliveryPolicy(goal.signal))
                /\ turn' = "push" /\ UNCHANGED crashed
  /\ images' = Tail(images)
  /\ ReleaseToken
  /\ UNCHANGED <<setup, requests, output, clientVars, restarts>>

(* The image cannot be read: no detections, and the frame is sent all the   *)
(* same.                                                                    *)
ProcessLostImage ==
  /\ turn = "send" /\ images # <<>> /\ pool # <<>> /\ ~crashed
  /\ Head(images).image # Empty
  /\ inHand' = Message(Head(images), {}, DeliveryPolicy(Head(images).signal))
  /\ turn' = "push" /\ images' = Tail(images)
  /\ ReleaseToken
  /\ UNCHANGED <<setup, requests, output, tensor, clientVars, crashed,
                 restarts>>

ForgetImageRequest ==
  /\ turn = "send" /\ images # <<>> /\ pool = <<>> /\ ~setup.blocking
  /\ turn' = "reply" /\ images' = Tail(images)
  /\ UNCHANGED <<setup, requests, output, modelVars, inHand, clientVars,
                 crashed, restarts>>

(* Mutant: the second handler waits for its input in either mode. *)
NoImageRequestWaiting == FALSE /\ UNCHANGED detectorVars

NoImageRequest ==
  /\ turn = "send" /\ images = <<>> /\ ~setup.blocking /\ ~crashed
  /\ turn' = "reply"
  /\ UNCHANGED <<setup, portVars, modelVars, inHand, clientVars, crashed,
                 restarts>>

(* push_request, with an enqueue policy that is NoDrop for a signal.        *)
Pushed ==
  /\ turn' = "reply"
  /\ inHand' = NoMessage
  /\ UNCHANGED <<setup, requests, images, modelVars, clientVars, crashed,
                 restarts>>

PushDetections ==
  /\ turn = "push" /\ Len(output) < OutputCapacity
  /\ output' = Append(output, inHand)
  /\ Pushed

(* Mutant: a signal is enqueued under the policy of the frames. *)
RefuseAnything ==
  /\ turn = "push" /\ Len(output) = OutputCapacity
  /\ Pushed /\ UNCHANGED output

RefuseDetections ==
  /\ turn = "push" /\ inHand.signal = "none"
  /\ Len(output) = OutputCapacity
  /\ Pushed /\ UNCHANGED output

-----------------------------------------------------------------------------
(* The delivery task gives a message to the downstream, or drops it when    *)
(* its policy says so.                                                      *)
Deliver ==
  /\ output # <<>> /\ ~crashed
  /\ output' = Tail(output)
  /\ UNCHANGED <<setup, requests, images, turn, modelVars, inHand, clientVars,
                 crashed, restarts>>

(* stop(), once the step thread is joined: the input ports throw away the   *)
(* goals they accepted, the output port delivers what it has; then start(). *)
(* The models stay in the pool, with what their tensors hold.               *)
StopAndStart ==
  /\ restarts < MaxRestarts /\ turn = "reply" /\ output = <<>> /\ ~crashed
  /\ restarts' = restarts + 1
  /\ requests' = <<>> /\ images' = <<>>
  /\ answered' = answered + Len(requests)
  /\ UNCHANGED <<setup, output, turn, modelVars, inHand, answer, crashed>>

MayDrop(message) == message.policy # "NoDrop" /\ ~setup.reliable

ReplyStep ==
  \/ ProcessDetectionRequest \/ AbortDetectionRequest \/ ForgetDetectionRequest
  \/ NoDetectionRequest

SendStep ==
  \/ ProcessImageRequest \/ ProcessLostImage \/ ForgetImageRequest
  \/ NoImageRequest \/ PushDetections \/ RefuseDetections
=============================================================================
