SPECIFICATION Spec
CONSTANTS
  c1 = c1
  c2 = c2
  o1 = o1
  o2 = o2
  NoId = NoId
  Callers = {}
  Callees = {o1, o2}
  N = 2
  S0Values = {0}
  Odd = {}
  Losable = {}
  IpcCap = 1
  MaxInvites = 2
INVARIANT NoLostChannel
CHECK_DEADLOCK FALSE
