--------------------------- MODULE MCFrameTransport ---------------------------
(* Small instances of FrameTransport: which frames are published and read.    *)
EXTENDS FrameTransport

CONSTANTS left, right, user  \* two cameras and who uses the left one

Publish(source, storage) ==
  [job |-> "publish", source |-> source, storage |-> storage]
Extract == [job |-> "extract", source |-> left, storage |-> "Auto"]

Cameras(by) ==
  [t \in Tasks |-> CASE t = left -> Publish("mat", "Auto")
                     [] t = right -> Publish("mat", "SharedMemory")
                     [] t = user -> by]

Viewed == Cameras(Extract)
(* A relay that sends plain messages, and one that passes tokens on. *)
Unpacked == Cameras(Publish(left, "RosSerialized"))
Relayed == Cameras(Publish(left, "Auto"))
Blank == Cameras(Publish("empty", "Auto"))
(* Only one camera puts frames; its client may have to be made again. *)
Dark == [t \in Tasks |-> CASE t = left -> Publish("empty", "RosSerialized")
                           [] t = right -> Publish("mat", "SharedMemory")
                           [] t = user -> Extract]

(* Two blocks that may be deleted, and one that is kept. *)
Crowded == Cameras(Publish("mat", "Auto"))

FailingPlans == {Unpacked, Dark, Crowded, Viewed}
ShuttingPlans == {Viewed, Dark}
(* The cameras may race for the first client of the process, or find one. *)
Fresh == [Viewed EXCEPT ![right].storage = "Auto"]
WarmPlans == {Viewed, Blank, Dark, Crowded}
AllPlans == WarmPlans \cup {Unpacked, Relayed, Fresh}
===============================================================================
