CONSTANTS
  Requests = {r1}
  Ops = {o1}
  Handlers = {h}
  AtChild = {c1}
  AtParent = {p}
  Senders = {}
  Answers = {deny}
  Dismissal = deny
  Proves = FALSE
  NoOp = NoOp
  NoAnswer = NoAnswer
  NoRequest = NoRequest
  Nobody = Nobody
  Recovery = Recovery
SPECIFICATION Spec
CHECK_DEADLOCK FALSE
INVARIANT ResolutionClosesCard
