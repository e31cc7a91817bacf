\* Is a flush signal delivered reliably by a detector with a lossy port?
CONSTANTS
  InputCapacity = 1
  OutputCapacity = 1
  TrackerCapacity = 1
  Initial = Initial
  PlayLength = 1
  MaxPlays = 2
  MaxRequests = 0
  MaxRestarts = 0
  MaxReopens = 0
  Setups <- LossyOnly
SPECIFICATION Spec
CHECK_DEADLOCK FALSE
INVARIANTS SignalsAreReliable
