-------------------------- MODULE MCVisionPipeline --------------------------
(* Small instances of VisionPipeline: two models and lossless ports, one     *)
(* model that may lose messages, blocking handlers, and no model at all.     *)
EXTENDS VisionPipeline

Lossless == [models |-> 2, blocking |-> FALSE, reliable |-> TRUE]
Lossy == [models |-> 1, blocking |-> FALSE, reliable |-> FALSE]
Blocking == [models |-> 1, blocking |-> TRUE, reliable |-> TRUE]
NoModel == [models |-> 0, blocking |-> FALSE, reliable |-> FALSE]

AllSetups == {Lossless, Lossy, Blocking, NoModel}
LossyOnly == {Lossy}
=============================================================================
