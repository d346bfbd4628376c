SPECIFICATION Spec
CONSTANTS
  p1 = p1
  p2 = p2
  p3 = p3
  r1 = r1
  r2 = r2
  Nobody = Nobody
  Procs <- ThreeProcs
  Recoverers <- TwoRecoverers
  Faults <- NoFaults
  MaxStops = 1
INVARIANT MutualExclusion
CHECK_DEADLOCK FALSE
