----------------------- MODULE MCAsyncActionInputPort -----------------------
(* Small instances of AsyncActionInputPort.  Goals that are not pings are   *)
(* interchangeable, where no liveness property is checked.                  *)
EXTENDS AsyncActionInputPort, TLC

Symmetry == Permutations(Goals \ Pings)
=============================================================================
