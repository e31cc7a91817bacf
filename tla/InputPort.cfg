\* Pings, cancels and a full queue; stop() and a restart overtake everything.
CONSTANTS
  g1 = g1
  g2 = g2
  g3 = g3
  p1 = p1
  NoGoal = NoGoal
  Goals = {g1, g2, g3, p1}
  Pings = {p1}
  BufferCapacity = 1
  MaxStops = 2
SPECIFICATION FairSpec
CHECK_DEADLOCK FALSE
INVARIANTS NoDoubleProcessing OnlyStopAbandons PromisesAreKept
PROPERTIES AcceptedIsAnswered
