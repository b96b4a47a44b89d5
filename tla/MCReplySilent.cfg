SPECIFICATION Spec
CONSTANTS
  Adapters = {"system"}
  MaxReplies = 1
INVARIANT InterruptionSilences
CHECK_DEADLOCK FALSE
