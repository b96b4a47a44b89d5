SPECIFICATION VoiceSpec
CONSTANTS
  Turn = Turn
  Barge = Barge
  Lifespan = Lifespan
  Users = {User1}
  MaxUtterances = 1
  Setups <- WithBargeIn
  Configs = {"base"}
  MaxCalls = 3
  MaxSayings = 1
  MaxFaults = 1
  Adapters = {"piper", "chatterbox", "system"}
  MaxReplies = 2
PROPERTIES
  VoiceSettles
CHECK_DEADLOCK FALSE
