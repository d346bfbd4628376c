SPECIFICATION FairSpec
CONSTANTS
  r1 = r1
  r2 = r2
  l1 = l1
  n1 = n1
  v1 = v1
  m1 = m1
  p1 = p1
  Records <- TwoRecords
  Values <- ThreeValues
  Absent = Absent
  Legal <- CurrentStores
  Requests <- ThreeRequests
  NoRequest = NoRequest
  Legacy <- OneLegacy
  Current <- NewForm
  Migrators <- OneMigrator
  Putter = p1
  Nobody = Nobody
  NoBatch = NoBatch
  MaxPuts = 3
  MaxFaults = 3
INVARIANTS
  CompleteStays
  DriftIsExplained
PROPERTIES
  OnlyBatchesChangeMeaning
  MigrationConverges
CHECK_DEADLOCK FALSE
