SPECIFICATION Spec
CONSTANTS
  Procs = {p1, p2}
  Nobody = Nobody
  MaxEvents = 2
  MaxAttempts = 2
  MaxThrows = 1
INVARIANTS
  TypeOK
  PoisonIsBounded
PROPERTIES
  Ordered
  Progress
CHECK_DEADLOCK FALSE
