SPECIFICATION Spec
CONSTANTS
  First = First
  Runtimes = {First}
  MaxEvents = 2
  MaxPackSwaps = 0
  Fails = {}
  Stops = FALSE
PROPERTIES
  NewerCancelsReturn
CHECK_DEADLOCK FALSE
