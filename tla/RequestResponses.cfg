CONSTANTS
  Requests = {r1}
  Ops = {o1, o2, o3}
  Handlers = {h}
  AtChild = {c1}
  AtParent = {p}
  Senders = {s}
  Answers = {allow, deny}
  Dismissal = deny
  Proves = TRUE
  NoOp = NoOp
  NoAnswer = NoAnswer
  NoRequest = NoRequest
  Nobody = Nobody
  Recovery = Recovery
SPECIFICATION Spec
SYMMETRY Symmetry
CHECK_DEADLOCK FALSE
INVARIANTS
  TypeOK
  OneLiveReply
  MissingHeardNoReply
  OpenIsAnswerable
  FencedStaysExpired
PROPERTIES
  RepliesKeepPromise
