SPECIFICATION Spec
CONSTANTS
  QueueMax = 2
  MaxFrames = 3
  MaxFaults = 1
INVARIANT FramesInOrder
CHECK_DEADLOCK FALSE
