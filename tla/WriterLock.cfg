SPECIFICATION FairSpec
CONSTANTS
  p1 = p1
  p2 = p2
  p3 = p3
  r1 = r1
  r2 = r2
  Nobody = Nobody
  Procs <- ThreeProcs
  Recoverers <- OneRecoverer
  Faults <- AllFaults
  MaxStops = 3
INVARIANTS
  ExclusiveUnlessTaken
  RecordedUnlessTaken
  TakenOnlyUnderStrain
PROPERTY LockIsReturned
CHECK_DEADLOCK FALSE
