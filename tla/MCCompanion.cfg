SPECIFICATION CompanionSpec
CONSTANTS
  Turn = Turn
  Barge = Barge
  Lifespan = Lifespan
  Users = {User1}
  MaxUtterances = 2
  Setups <- BothOrders
  Configs = {"base", "small"}
  MaxCalls = 3
  MaxSayings = 1
  MaxFaults = 1
  Adapters = {"piper", "chatterbox", "system"}
  MaxReplies = 2
  Characters <- MCCharacters
  Directives <- MCDirectives
  Clips <- MCClips
  MaxLoads = 2
  Scenes <- MCScenes
  WindowSize = 3
  Interval = 2
  Cooldown = 3
  Amplitude = 2
  Mapped = {"open_palm", "wave_motion", "nodding"}
  Packs = {"octomimic", "guest"}
  Voices = {1, 2}
  Companions = {"c"}
  Looks = {"home", "guest"}
  MaxRequests = 4
  Windows = {"toolbar", "controls"}
  MaxToggles = 2
INVARIANTS
  VoiceTypes
  OneSpeech
  ListeningIsRight
  TranscriptsAreFresh
  OneWorkerHears
  FallsSilent
  PacksAreDrawn
  DetectionsAreRight
  CompanionsAreWorn
PROPERTIES
  EventOrder
  LibraryIsKept
CHECK_DEADLOCK FALSE
