SPECIFICATION FairSpec
CONSTANTS
  f1 = f1
  f2 = f2
  st = st
  old = old
  superseded = superseded
  rival = rival
  successor = successor
  now = now
  k1 = k1
  t1 = t1
  Absent = Absent
  NoRequest = NoRequest
  NoId = NoId
  Records <- ThreeRecords
  Values <- FiveValues
  Legal <- LegalStores
  Requests <- Batches
  Keys = {k1}
  FreshIds = {t1}
  MaxFaults = 2
  Data <- Contained
  KindOf <- Kind
  StateRecord = st
  None = None
  Claims <- TwoClaims
  Today = 5
  TtlDays <- Terms
  NoExpiry = {}
  Classifications = {"internal"}
  Roles = {"lead"}
  MaxStateItems = 1
  EnforceCeiling = TRUE
  FailOnStale = TRUE
  RequireReciprocal = TRUE
  DetectConflicts = TRUE
INVARIANTS
  OpenIsRecoverable
  AckedIsCommitted
  CommittedInPlace
  FactsAgree
  CyclesAreFound
PROPERTIES
  ImplementsAtomicStore
  OpenIsClosed
CHECK_DEADLOCK FALSE
