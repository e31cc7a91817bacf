\* Restarts and asynchronous stops of a node that may wait for input.
CONSTANTS
  HasOpenClose = TRUE
  BlocksOnInput = TRUE
  MaxStarts = 3
  MaxAsyncStops = 2
SPECIFICATION LifeFairSpec
CHECK_DEADLOCK FALSE
INVARIANTS StepsOnlyWhileStarted RestsAlone StartedIsStepping
PROPERTIES StopsUnlessBlocked
