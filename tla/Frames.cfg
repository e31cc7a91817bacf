\* Frames are published, relayed and extracted, expire, and ROS shuts down.
CONSTANTS
  left = left
  right = right
  user = user
  Tasks = {left, right, user}
  None = None
  Plans <- AllPlans
  Alive = 1
  Kept = {right}
  Warm <- WarmPlans
  Failing <- FailingPlans
  Shutting <- ShuttingPlans
  MaxClock = 1
SPECIFICATION FairSpec
CHECK_DEADLOCK FALSE
INVARIANTS  ExtractedIsPublished
PROPERTIES ExpiredIsDeleted
