SPECIFICATION Spec
CONSTANTS
  f1 = f1  f2 = f2  d1 = d1  st = st
  early = early
  rival = rival
  decided = decided
  now = now
  p1 = p1  p2 = p2
  h1 = h1  h2 = h2
  task = task
  manifest = manifest
  worker = worker
  receipt = receipt
  pass = pass
  fail = fail
  Absent = Absent
  NoRequest = NoRequest
  None = None
  NoBatch = NoBatch
  NoIndex = NoIndex
  NoSnapshot = NoSnapshot
  NoBundle = NoBundle
  NoCall = NoCall
  Records <- FourRecords
  Values <- FourValues
  Legal = {}
  Requests = {}
  Data <- Contained
  KindOf <- Kind
  StateRecord = st
  Claims <- TwoClaims
  Today = 1
  TtlDays <- TermsOfClasses
  NoExpiry = {}
  Classifications = {"internal", "restricted"}
  Roles = {"lead"}
  MaxStateItems = 1
  EnforceCeiling = TRUE
  FailOnStale = TRUE
  RequireReciprocal = TRUE
  DetectConflicts = TRUE
  Terms = {"release", "rollback"}
  Objectives = {"ship"}
  Tokens <- TokensOf
  Text <- Texts
  Queries <- ThreeQueries
  WarningDays = 3
  Versions <- TwoVersions
  Configs <- TwoConfigs
  IndexDays = {1}
  MaxChanges = 1
  DocIds <- AllDocuments
  Preparers = {p1, p2}
  SessionAsks <- Asked
  Hosts = {h1, h2}
  Reports <- Sent
  Effects = {"write", "deploy"}
  Approvals = {"change-7"}
  Policy <- Pack
  MaxCrashes = 1
INVARIANTS
  TypeOK
  IndexAgreesWithScan
  ContextsAreCommitted
  BundlesKeepBudget
  RelationsAreFollowed
  BridgeAuditPasses
PROPERTIES
  InterruptedIsObserved
CHECK_DEADLOCK FALSE
