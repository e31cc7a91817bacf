\* Nothing may be dropped: everything arrives everywhere, and stop() returns.
CONSTANTS
  frame = frame
  control = control
  Requests = {frame, control}
  NumDownstreams = 2
  PipelineCapacity = 2
  MaxStops = 1
  MaxTimeouts = 1
  Configs <- LosslessConfigs
SPECIFICATION FairSpec
CHECK_DEADLOCK FALSE
PROPERTIES NoDropDelivers StopReturns
