SPECIFICATION FairSpec
CONSTANTS
  r1 = r1
  r2 = r2
  v1 = v1
  v2 = v2
  p1 = p1
  p2 = p2
  a1 = a1
  a2 = a2
  w1 = w1
  w2 = w2
  x1 = x1
  m1 = m1
  t1 = t1
  m2 = m2
  t2 = t2
  m3 = m3
  t3 = t3
  k1 = k1
  d1 = d1
  e1 = e1
  q1 = q1
  h1 = h1
  c1 = c1
  Absent = Absent
  NoRequest = NoRequest
  Nobody = Nobody
  NoPlan = NoPlan
  NoWrite = NoWrite
  Records <- TwoRecords
  Values <- TwoValues
  Legal <- ReferringStores
  Requests <- AllBatches
  DocIds <- AllDocIds
  Contexts = {x1}
  Submissions <- BothLedgers
  Plans = {p1}
  Bodies <- TwoBodies
  Appliers = {a1, a2}
  WriterIds = {w1}
  OtherBatches <- Puts
  MaxFaults = 2
INVARIANTS
  LedgersPassAudit
  TasksAreOrdered
  PlansHaveEvidence
  AppliedIsCommitted
  ForeignResultsHaveAuthors
PROPERTIES
  CommittedIsMarked
CHECK_DEADLOCK FALSE
