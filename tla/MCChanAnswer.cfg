SPECIFICATION Spec
CONSTANTS
  c1 = c1
  c2 = c2
  o1 = o1
  o2 = o2
  NoId = NoId
  Callers = {c1, c2}
  Callees = {o1}
  N = 1
  S0Values = {0}
  Odd = {}
  Losable = {}
  IpcCap = 1
  MaxInvites = 1
INVARIANT AnswerIsAsked
CHECK_DEADLOCK FALSE
