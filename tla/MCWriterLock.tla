---------------------------- MODULE MCWriterLock ----------------------------
EXTENDS WriterLock, TLC

CONSTANTS p1, p2, p3, r1, r2

ThreeProcs == {p1, p2, p3}
OneRecoverer == {r1}
TwoRecoverers == {r1, r2}

AllFaults == FaultKinds
NoFaults == {}
=============================================================================
