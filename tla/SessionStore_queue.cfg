SPECIFICATION Spec
CONSTANTS
  o1 = o1
  o2 = o2
  o3 = o3
  m1 = m1
  m2 = m2
  Ops <- MCOps2
  Msgs <- MCMsgs2
  Initial = Initial
  FilesOnly = {m2}
  NoOp = NoOp
  NoMsg = NoMsg
  Replayable = {o2}
  MaxCalls = 2
  Kinds = {"turn-submit", "turn-steer", "session-reset"}
  Unfenced = TRUE
  FreshResets = TRUE
INVARIANTS
  CalledAtMostOnce
  ExecutingHasExecutor
  ReservedIsHead
CHECK_DEADLOCK FALSE
