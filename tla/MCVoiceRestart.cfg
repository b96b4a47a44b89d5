SPECIFICATION Spec
CONSTANTS
  MaxRequests = 2
  MaxRestarts = 1
  Installed = TRUE
INVARIANT RestartIsSafe
CHECK_DEADLOCK FALSE
