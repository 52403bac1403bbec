SPECIFICATION Spec
CONSTANTS
  Watches = {w1}
  EventSets <- MCEventSets
  Kinds = {"completed"}
  Limit = 1
  MaxStops = 1
  MaxOps = 1
  MaxPauses = 0
  MaxCrashes = 1
INVARIANT WakeOnce
CHECK_DEADLOCK FALSE
