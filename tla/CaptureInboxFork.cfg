SPECIFICATION Spec
CONSTANTS
  s1 = s1
  s2 = s2
  a = a
  b = b
  c = c
  e1 = e1
  e2 = e2
  NoCursor = NoCursor
  NoRequest = NoRequest
  Sources = {s1, s2}
  Cursors = {a, b, c}
  Events = {e1, e2}
  Captures <- HostRequests
  ReplayFirst = FALSE
  MaxFaults = 1
INVARIANT NoFork
CHECK_DEADLOCK FALSE
