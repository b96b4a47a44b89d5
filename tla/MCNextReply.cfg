SPECIFICATION Spec
CONSTANTS
  MaxReplies = 2
INVARIANT NextReplySpeaks
CHECK_DEADLOCK FALSE
