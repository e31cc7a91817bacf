\* Three frames go to every kind of sink, and one message may get lost.
CONSTANTS
  Configs <- AllSinks
  MaxFrames = 3
  MaxLosses = 1
  None = None
SPECIFICATION FairSpec
CHECK_DEADLOCK FALSE
INVARIANTS RelayedInOrder NoEntryIsLeft
PROPERTIES NobodyWaitsForEver
