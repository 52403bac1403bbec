SPECIFICATION Spec
CONSTANTS
  o1 = o1
  o2 = o2
  o3 = o3
  m1 = m1
  m2 = m2
  Ops <- MCOps3
  Msgs <- MCMsgs1
  Initial = Initial
  FilesOnly = {}
  NoOp = NoOp
  NoMsg = NoMsg
  Replayable = {}
  MaxCalls = 1
  Kinds = {"turn-submit", "session-reset"}
  Unfenced = TRUE
  FreshResets = TRUE
SYMMETRY MCOps3Symmetry
INVARIANTS
  OutcomeIsTrue
  NoStaleClaim
  GateOpensSafely
PROPERTIES
  DeliveryKeepsPromise
CHECK_DEADLOCK FALSE
