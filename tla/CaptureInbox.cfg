SPECIFICATION FairSpec
CONSTANTS
  s1 = s1
  s2 = s2
  a = a
  b = b
  c = c
  e1 = e1
  e2 = e2
  NoCursor = NoCursor
  NoRequest = NoRequest
  Sources = {s1, s2}
  Cursors = {a, b, c}
  Events = {e1, e2}
  Captures <- HostRequests
  ReplayFirst = TRUE
  MaxFaults = 3
INVARIANTS
  ChainsAreLinear
  NoFork
PROPERTIES
  CheckpointAdvances
  InterruptedIsFinished
CHECK_DEADLOCK FALSE
