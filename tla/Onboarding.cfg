SPECIFICATION Spec
CONSTANTS
  o1 = o1  o2 = o2  o3 = o3
  i1 = i1  i2 = i2
  h1 = h1
  None = None
  NoPlan = NoPlan
  NoDecision = NoDecision
  Operators = {o1, o2, o3}
  Identities = {i1, i2}
  HostEntries = {h1}
  Roles = {"maintainer", "owner"}
  Identity <- MCIdentity
  Policy <- MCPolicy
  Role <- MCRole
  MaxFaults = 2
  MaxEdits = 1
INVARIANTS AdoptersAreAlone AuditsReportStraysOnly
PROPERTIES ImplementsOnboarding AdoptedIsDecided
CHECK_DEADLOCK FALSE
