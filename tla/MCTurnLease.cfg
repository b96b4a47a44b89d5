SPECIFICATION ConversationSpec
CONSTANTS
  MaxTurns = 4
  HistoryTurns = 2
  Facts = {"f", "g"}
  MaxCalls = 3
INVARIANTS
  TypeOK
  LiveHoldsLease
  TurnsAreSerial
  StoppedIsQuiet
  MemoryIsKept
PROPERTIES
  FlightSafety
  TurnsSettle
CHECK_DEADLOCK FALSE
