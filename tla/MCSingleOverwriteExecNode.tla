---------------------- MODULE MCSingleOverwriteExecNode ----------------------
(* Small instances of SingleOverwriteExecNode for TLC.                        *)
EXTENDS SingleOverwriteExecNode
==============================================================================
