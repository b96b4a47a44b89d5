SPECIFICATION PartsSpec
CONSTANTS
  First = First
  Runtimes = {First, Other}
  MaxEvents = 2
  MaxPackSwaps = 1
  Fails = {"apply", "load"}
  Stops = TRUE
  MaxTurns = 2
  MaxHears = 1
  Setups <- AllSetups
  Windows = {w1, w2}
  Sockets = {c1, c2}
  NoSocket = NoSocket
  MaxStates = 2
  MaxDirectives = 1
  MaxFaults = 1
INVARIANTS
  AvatarTypes
  DirectorIsFollowed
  DisplayIsRight
  TurnsAreShown
PROPERTIES
  WindowsAreServed
  ShowEnds
CHECK_DEADLOCK FALSE
