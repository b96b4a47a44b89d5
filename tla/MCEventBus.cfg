SPECIFICATION BesideSpec
CONSTANTS
  s1 = s1
  s2 = s2
  Subs <- MCSubs
  MaxSize = 2
  MaxPublish = 4
  StoreQueue = 2
  Kinds = {"typed", "spoken"}
  MaxEvents = 3
  MaxStarts = 2
  MaxEdits = 1
  FrameQueue = 1
  CameraStarts = 2
  CameraStops = 1
  MaxReads = 2
  Signatures = {"a", "b"}
  MaxCalls = 2
  MaxEnds = 1
  MaxItems = 2
INVARIANTS
  TypeOK
  SubscriptionSound
  PendingIsLatest
  SnapshotIsCurrent
  CameraIsHeld
  RecorderIsRight
PROPERTIES
  FeedSpec
  IterationsEnd
CHECK_DEADLOCK FALSE
