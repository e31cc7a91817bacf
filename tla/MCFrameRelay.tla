---------------------------- MODULE MCFrameRelay ----------------------------
(* Small instances of FrameRelay: every sink, with room for one goal; one    *)
(* goal of the asynchronous publisher is a ping.                             *)
EXTENDS FrameRelay

Publisher(sink, pings) ==
  [sink |-> sink, capacity |-> 1, visible |-> TRUE, pings |-> pings]
Node(sink, visible) ==
  [sink |-> sink, capacity |-> 1, visible |-> visible, pings |-> {}]

AllSinks ==
  {Publisher("sync", {}), Publisher("async", {}), Publisher("async", {2}),
   Node("frames", TRUE), Node("detections", FALSE)}
=============================================================================
