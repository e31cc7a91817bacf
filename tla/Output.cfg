\* Ordered and parallel deliveries; crashes, timeouts, stop() and shutdowns.
CONSTANTS
  frame = frame
  control = control
  Requests = {frame, control}
  NumDownstreams = 2
  PipelineCapacity = 2
  MaxStops = 1
  MaxTimeouts = 1
  Configs <- LossyConfigs
SPECIFICATION Spec
CHECK_DEADLOCK FALSE
INVARIANTS AcceptedAtMostOnce DeliveredInOrder ResultIsTruthful StopSettles PushIsTruthful
