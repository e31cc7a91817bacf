\* Three frames, two of which one of the hooks refuses, and a control signal.
CONSTANTS
  NoGoal = NoGoal
  Goals = {f1, f2, f3, flush}
  Signals = {flush}
  BadInputs = {f3}
  BadResults = {f2}
  InputCapacity = 2
  Capacity = 2
  MaxStarts = 2
  MaxLosses = 1
SPECIFICATION FairSpec
CHECK_DEADLOCK FALSE
INVARIANTS PortsOutliveTheirUsers NothingOvertakes
PROPERTIES SignalsAreForwarded StopsUnlessHeldUp
