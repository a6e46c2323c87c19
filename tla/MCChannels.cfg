SPECIFICATION FairSpec
CONSTANTS
  c1 = c1
  c2 = c2
  o1 = o1
  o2 = o2
  NoId = NoId
  Callers = {c1}
  Callees = {o1}
  N = 1
  S0Values = {0}
  Odd = {c1}
  Losable = {"ACK"}
  IpcCap = 1
  MaxInvites = 3
INVARIANTS TypeOK BusyIsFound TerminalMatchesCall
PROPERTIES RouteKept ByeFreesChannel
CHECK_DEADLOCK FALSE
