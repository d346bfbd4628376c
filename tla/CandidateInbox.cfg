SPECIFICATION FairSpec
CONSTANTS
  r1 = r1
  r2 = r2
  v1 = v1
  v2 = v2
  c1 = c1
  c2 = c2
  w1 = w1
  w2 = w2
  Absent = Absent
  NoRequest = NoRequest
  Nothing = Nothing
  Records <- TwoRecords
  Values <- TwoValues
  Legal <- ReferringStores
  Requests <- AllBatches
  Candidates = {c1, c2}
  WriterIds = {w1, w2}
  OtherBatches <- Puts
  Proposals <- TwoProposals
  MaxFaults = 2
INVARIANTS
  PromotedIsCommitted
PROPERTIES
  RejectionIsFinal
  NoLostUpdate
  CommittedIsReconciled
CHECK_DEADLOCK FALSE
