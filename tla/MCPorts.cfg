SPECIFICATION PortsSpec
CONSTANTS
  QueueMax = 2
  MaxFrames = 4
  MaxFaults = 2
  Registered = {"local_shell", "claude_code", "mcp_agent"}
  Default = "mcp_agent"
  PipeMax = 1
  MaxLines = 3
  MaxCancels = 2
  MaxReplies = 2
  Backends = {"openrouter", "ollama"}
  Primary = "openrouter"
  Fallback = "ollama"
  MemoryBackend = "ollama"
  Attempts = 2
  MaxGenerations = 2
  MaxChunks = 2
  MaxChanges = 1
  MaxRequests = 2
  MaxRestarts = 1
  Installed = FALSE
INVARIANTS
  PortTypes
  LaneSurvives
  OneAnswer
  SettingsAreKept
PROPERTIES
  FramesAreKept
  OutcomeIsTold
  PortsSettle
CHECK_DEADLOCK FALSE
