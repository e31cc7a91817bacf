------------------------ MODULE MCCallActionDriver ------------------------
(* TLC checks the driver with frames and one control signal.                *)
EXTENDS CallActionDriver
=============================================================================
