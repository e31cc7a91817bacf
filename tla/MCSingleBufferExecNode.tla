----------------------- MODULE MCSingleBufferExecNode -----------------------
(* Small instances of SingleBufferExecNode: the constants are sizes, modes  *)
(* and bounds, which the configurations give.                               *)
EXTENDS SingleBufferExecNode
=============================================================================
