-------------------------- MODULE MCNodeLifecycle --------------------------
(* Small instances of NodeLifecycle: the constants are bounds and switches. *)
EXTENDS NodeLifecycle
=============================================================================
