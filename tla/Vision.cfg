\* Two plays and a client's request, under every setup.
CONSTANTS
  InputCapacity = 1
  OutputCapacity = 1
  TrackerCapacity = 1
  Initial = Initial
  PlayLength = 2
  MaxPlays = 2
  MaxRequests = 1
  MaxRestarts = 1
  MaxReopens = 1
  Setups <- AllSetups
SPECIFICATION FairSpec
CHECK_DEADLOCK FALSE
INVARIANTS DetectionsAreOfTheirImage OneTrackPerPlay
PROPERTIES RequestsAreAnswered SignalsGetThrough
