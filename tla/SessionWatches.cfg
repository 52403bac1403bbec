SPECIFICATION Spec
CONSTANTS
  Watches = {w1}
  EventSets <- MCEventSets
  Kinds = {"completed", "paused"}
  Limit = 1
  MaxStops = 2
  MaxOps = 2
  MaxPauses = 1
  MaxCrashes = 1
INVARIANTS
  TypeOK
  ReportedOnce
  InOrder
  NothingSkipped
PROPERTIES
  TellsTheEnd
  CatchesUp
CHECK_DEADLOCK FALSE
