SPECIFICATION Spec
CONSTANTS
  c1 = c1
  c2 = c2
  c3 = c3
  o1 = o1
  o2 = o2
  o3 = o3
  Callers <- MCCallers
  Ops <- MCOps
  NoOp = NoOp
INVARIANTS
  TypeOK
  OneOperationPerKind
  TurnFollowsCreate
PROPERTIES
  CreateKeepsPromise
  TurnKeepsPromise
  EveryAttemptEnds
