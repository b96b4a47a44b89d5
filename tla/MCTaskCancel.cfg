SPECIFICATION Spec
CONSTANTS
  Registered = {"local_shell", "claude_code", "mcp_agent"}
  Default = "mcp_agent"
  QueueMax = 2
  PipeMax = 1
  MaxLines = 3
  MaxCancels = 2
INVARIANT CancelledIsStopped
CHECK_DEADLOCK FALSE
