--------------------------- MODULE WriterLockProofs ---------------------------
(***************************************************************************)
(* Theorems about WriterLock, for every set of processes and any number of *)
(* stopped ones.  What holds whatever fails and however many recoveries    *)
(* run is that mutual exclusion is lost in one way only, by the removal of *)
(* a live process's directory.  With one recover-lock command at a time    *)
(* (two at once can remove it: the run lock_two_recoverers shows how) that *)
(* takes a mkdir that fails, or a live process over the limit.             *)
(***************************************************************************)
EXTENDS WriterLock, TLAPS

OneRecoverer == \A a, b \in Recoverers : a = b

\* The lock as it should be: one process at work on it, on disk, with its name.
LockInv ==
  /\ \A p, q \in Procs : InLock(p) /\ InLock(q) => p = q
  /\ \A p \in Procs : InLock(p) => dir.present
  /\ \A p \in Procs : pc[p] \in {"created", "aborting", "unlinked"} => dir.owner = Nobody
  /\ \A p \in Procs : InCriticalSection(p) => dir.owner = p

HeldInv == taken \/ LockInv

\* As long as nothing was a strain, a lock over the limit belongs to nobody
\* alive, and what a recovery has inspected is such a lock still.
CalmInv ==
  /\ ~taken
  /\ \A p \in Procs : pc[p] # "failed"
  /\ dir.present /\ dir.old => \A p \in Procs : ~InLock(p)
  /\ \A r \in Recoverers : rpc[r] = "inspected" => dir.present /\ dir.old

StrainInv == strained \/ CalmInv

\* What a step of a process does beside the directory and the history.
ProcEffect(p, from, to) ==
  /\ pc' \in [Procs -> ProcStates] /\ pc[p] = from /\ pc'[p] = to
  /\ \A q \in Procs : q # p => pc'[q] = pc[q]
  /\ UNCHANGED <<quarantine, rpc, confirmed>>

\* A step of a process leaves the program counters of the others alone.
LEMMA ProcStepPc ==
  ASSUME TypeOK, NEW p \in Procs, NEW from, NEW to \in ProcStates, ProcStep(p, from, to)
  PROVE  ProcEffect(p, from, to)
  BY DEF TypeOK, ProcStep, ProcEffect

\* A step of a recovery leaves the others' alone.
LEMMA RecovererStepPc ==
  ASSUME TypeOK, NEW r \in Recoverers, NEW from, NEW to \in RecovererStates,
         RecovererStep(r, from, to)
  PROVE  /\ rpc' \in [Recoverers -> RecovererStates] /\ rpc[r] = from /\ rpc'[r] = to
         /\ \A s \in Recoverers : s # r => rpc'[s] = rpc[s]
         /\ pc' = pc
  BY DEF TypeOK, RecovererStep

\* History is only ever added to.
LEMMA HistoryTypes ==
  ASSUME TypeOK, [Next]_vars
  PROVE  /\ taken' \in BOOLEAN /\ strained' \in BOOLEAN
         /\ taken => taken'
         /\ strained => strained'
<1>1. CASE UNCHANGED history
  BY <1>1 DEF history, TypeOK
<1>2. ASSUME NEW p \in Procs, MakeDirFails(p) PROVE strained' = TRUE /\ taken' = taken
  BY <1>2 DEF MakeDirFails
<1>3. ASSUME NEW p \in Procs, CleanUpFailedAcquire(p)
      PROVE  /\ strained' = strained
             /\ taken' = (taken \/ (IsEmpty(dir) /\ \E q \in Procs \ {p} : InLock(q)))
  BY <1>3 DEF CleanUpFailedAcquire
<1>4. ASSUME NEW r \in Recoverers, Quarantine(r)
      PROVE  /\ strained' = strained
             /\ taken' = (taken \/ (dir.present /\ \E p \in Procs : InLock(p)))
  BY <1>4 DEF Quarantine
<1>5. ASSUME GrowOld
      PROVE  /\ strained' = (strained \/ \E p \in Procs : InLock(p))
             /\ taken' = taken
  BY <1>5 DEF GrowOld
<1>6. \/ \E p \in Procs : MakeDirFails(p) \/ CleanUpFailedAcquire(p)
      \/ \E r \in Recoverers : Quarantine(r)
      \/ GrowOld
      \/ UNCHANGED history
  <2>1. ASSUME NEW p \in Procs, ProcNext(p)
        PROVE  MakeDirFails(p) \/ CleanUpFailedAcquire(p) \/ UNCHANGED history
    BY <2>1 DEF ProcNext, ProcProgress, StartAcquire, MakeDir, TimeOut, WriteOwner,
       WriteOwnerFails, VerifyOwner, UnlinkOwner, RemoveDir, ReleaseDenied, Crash
  <2>2. ASSUME NEW r \in Recoverers, RecovererProgress(r) \/ RecovererCrash(r)
        PROVE  Quarantine(r) \/ UNCHANGED history
    BY <2>2 DEF RecovererProgress, RecovererCrash, Observe, Inspect, Reinspect,
       RemoveQuarantine
  <2>3. CASE UNCHANGED vars
    BY <2>3 DEF vars
  <2>4. QED
    BY <2>1, <2>2, <2>3 DEF Next
<1>7. QED
  BY <1>1, <1>2, <1>3, <1>4, <1>5, <1>6, Zenon DEF TypeOK

\* A step of either kind keeps the types, however many recoveries there are.
LEMMA TypeStep == TypeOK /\ [Next]_vars => TypeOK'
<1> SUFFICES ASSUME TypeOK, [Next]_vars PROVE TypeOK'
  OBVIOUS
<1>1. ASSUME NEW p \in Procs, ProcNext(p) PROVE TypeOK'
  <2>1. PICK from \in ProcStates, to \in ProcStates : ProcStep(p, from, to)
    BY <1>1 DEF ProcNext, ProcProgress, StartAcquire, MakeDir, MakeDirFails, TimeOut, WriteOwner,
                WriteOwnerFails, CleanUpFailedAcquire, VerifyOwner, UnlinkOwner, RemoveDir,
                ReleaseDenied, Crash, ProcStates
  <2>2. dir' \in Dirs
    <3>1. /\ NoDir \in Dirs /\ [NoDir EXCEPT !.present = TRUE] \in Dirs
          /\ [dir EXCEPT !.owner = Nobody, !.old = FALSE] \in Dirs
          /\ \A q \in Owners :
               [dir EXCEPT !.present = TRUE, !.owner = q, !.old = FALSE] \in Dirs
          /\ [dir EXCEPT !.debris = TRUE] \in Dirs /\ dir \in Dirs
      BY DEF TypeOK, Dirs, NoDir, Owners
    <3>2. CASE MakeDir(p) \/ WriteOwner(p) \/ CleanUpFailedAcquire(p) \/ RemoveDir(p)
      BY <3>1, <3>2 DEF MakeDir, WriteOwner, CleanUpFailedAcquire, RemoveDir, Owners
    <3>3. CASE UnlinkOwner(p) \/ Crash(p)
      BY <3>1, <3>3 DEF UnlinkOwner, Crash, Owners
    <3>4. CASE \/ StartAcquire(p) \/ MakeDirFails(p) \/ TimeOut(p) \/ WriteOwnerFails(p)
               \/ VerifyOwner(p) \/ ReleaseDenied(p)
      BY <3>1, <3>4 DEF StartAcquire, MakeDirFails, TimeOut, WriteOwnerFails, VerifyOwner,
                            ReleaseDenied
    <3>5. QED
      BY <1>1, <3>2, <3>3, <3>4 DEF ProcNext, ProcProgress
  <2>3. QED
    BY <1>1, <2>1, <2>2, ProcStepPc, HistoryTypes DEF ProcEffect, TypeOK, Next
<1>2. ASSUME NEW r \in Recoverers, RecovererProgress(r) \/ RecovererCrash(r) PROVE TypeOK'
  <2>1. PICK from \in RecovererStates, to \in RecovererStates : RecovererStep(r, from, to)
    BY <1>2 DEF RecovererProgress, RecovererCrash, Observe, Inspect, Quarantine, Reinspect,
                RemoveQuarantine, RecovererStates
  <2>2. /\ dir' \in Dirs /\ quarantine' \in [Recoverers -> Dirs]
        /\ confirmed' \in [Recoverers -> Owners]
    <3>1. NoDir \in Dirs /\ dir \in Dirs /\ dir.owner \in Owners
      BY DEF TypeOK, Dirs, NoDir, Owners
    <3>2. CASE Observe(r) \/ Inspect(r) \/ Reinspect(r) \/ RecovererCrash(r)
      BY <3>1, <3>2 DEF Observe, Inspect, Reinspect, RecovererCrash, TypeOK
    <3>3. CASE Quarantine(r) \/ RemoveQuarantine(r)
      BY <3>1, <3>3 DEF Quarantine, RemoveQuarantine, TypeOK
    <3>4. QED
      BY <1>2, <3>2, <3>3 DEF RecovererProgress
  <2>3. QED
    BY <1>2, <2>1, <2>2, RecovererStepPc, HistoryTypes DEF TypeOK, Next
<1>3. CASE GrowOld
  BY <1>3 DEF GrowOld, TypeOK, Dirs
<1>4. CASE UNCHANGED vars
  BY <1>4 DEF vars, history, TypeOK
<1>5. QED
  BY <1>1, <1>2, <1>3, <1>4 DEF Next

\* The lock directory, its quarantines and every process keep their types, with
\* any number of recoveries at once.
THEOREM LockTypeCorrect == Spec => []TypeOK
<1>1. Init => TypeOK
  <2>1. NoDir \in Dirs
    BY DEF Dirs, NoDir, Owners
  <2>2. QED
    BY <2>1 DEF Init, TypeOK, Owners, ProcStates, RecovererStates
<1>2. QED
  BY <1>1, TypeStep, PTL DEF Spec
-----------------------------------------------------------------------------
\* Every step that takes no lock from a live process keeps the lock as it should
\* be.
LEMMA HeldStep == TypeOK /\ HeldInv /\ [Next]_vars => HeldInv'
<1> SUFFICES ASSUME TypeOK, HeldInv, [Next]_vars, ~taken' PROVE LockInv'
  BY DEF HeldInv
<1> USE LockAssumption
<1>0. ~taken /\ LockInv
  BY HistoryTypes DEF HeldInv
<1> USE <1>0 DEF LockInv, InLock, InCriticalSection
<1>1. ASSUME NEW p \in Procs, StartAcquire(p) PROVE LockInv'
  <2>1. PICK from \in {"idle"}, to \in {"waiting"} : ProcStep(p, from, to)
    BY <1>1 DEF StartAcquire, ProcStates
  <2>2. ProcEffect(p, from, to)
    BY <2>1, ProcStepPc DEF ProcStates
  <2>3. dir' = dir
    BY <1>1 DEF StartAcquire
  <2>4. QED
    BY <2>1, <2>2, <2>3 DEF ProcEffect
<1>2. ASSUME NEW p \in Procs, MakeDir(p) PROVE LockInv'
  <2>1. PICK from \in {"waiting"}, to \in {"created"} : ProcStep(p, from, to)
    BY <1>2 DEF MakeDir, ProcStates
  <2>2. ProcEffect(p, from, to)
    BY <2>1, ProcStepPc DEF ProcStates
  <2>3. ~dir.present /\ dir'.present /\ dir'.owner = Nobody
    BY <1>2 DEF MakeDir, NoDir
  <2>4. QED
    BY <2>1, <2>2, <2>3 DEF ProcEffect
<1>3. ASSUME NEW p \in Procs, MakeDirFails(p) PROVE LockInv'
  <2>1. PICK from \in {"waiting"}, to \in {"failed"} : ProcStep(p, from, to)
    BY <1>3 DEF MakeDirFails, ProcStates
  <2>2. ProcEffect(p, from, to)
    BY <2>1, ProcStepPc DEF ProcStates
  <2>3. dir' = dir
    BY <1>3 DEF MakeDirFails
  <2>4. QED
    BY <2>1, <2>2, <2>3 DEF ProcEffect
<1>4. ASSUME NEW p \in Procs, TimeOut(p) PROVE LockInv'
  <2>1. PICK from \in {"waiting"}, to \in {"idle"} : ProcStep(p, from, to)
    BY <1>4 DEF TimeOut, ProcStates
  <2>2. ProcEffect(p, from, to)
    BY <2>1, ProcStepPc DEF ProcStates
  <2>3. dir' = dir
    BY <1>4 DEF TimeOut
  <2>4. QED
    BY <2>1, <2>2, <2>3 DEF ProcEffect
<1>5. ASSUME NEW p \in Procs, WriteOwner(p) PROVE LockInv'
  <2>1. PICK from \in {"created"}, to \in {"holding"} : ProcStep(p, from, to)
    BY <1>5 DEF WriteOwner, ProcStates
  <2>2. ProcEffect(p, from, to)
    BY <2>1, ProcStepPc DEF ProcStates
  <2>3. dir'.present /\ dir'.owner = p
    BY <1>5 DEF WriteOwner, TypeOK, Dirs
  <2>4. QED
    BY <2>1, <2>2, <2>3 DEF ProcEffect
<1>6. ASSUME NEW p \in Procs, WriteOwnerFails(p) PROVE LockInv'
  <2>1. PICK from \in {"created"}, to \in {"aborting"} : ProcStep(p, from, to)
    BY <1>6 DEF WriteOwnerFails, ProcStates
  <2>2. ProcEffect(p, from, to)
    BY <2>1, ProcStepPc DEF ProcStates
  <2>3. dir' = dir
    BY <1>6 DEF WriteOwnerFails
  <2>4. QED
    BY <2>1, <2>2, <2>3 DEF ProcEffect
<1>7. ASSUME NEW p \in Procs, CleanUpFailedAcquire(p) PROVE LockInv'
  <2>1. PICK from \in {"failed", "aborting"}, to \in {"idle"} : ProcStep(p, from, to)
    BY <1>7 DEF CleanUpFailedAcquire, ProcStates
  <2>2. ProcEffect(p, from, to)
    BY <2>1, ProcStepPc DEF ProcStates
  <2>3. dir' = dir \/ \A q \in Procs \ {p} : ~InLock(q)
    BY <1>7 DEF CleanUpFailedAcquire
  <2>4. QED
    BY <2>1, <2>2, <2>3 DEF ProcEffect
<1>8. ASSUME NEW p \in Procs, VerifyOwner(p) PROVE LockInv'
  <2>1. PICK from \in {"holding"}, to \in {"verified", "stopped"} : ProcStep(p, from, to)
    BY <1>8 DEF VerifyOwner, ProcStates
  <2>2. ProcEffect(p, from, to)
    BY <2>1, ProcStepPc DEF ProcStates
  <2>3. dir' = dir
    BY <1>8 DEF VerifyOwner
  <2>4. QED
    BY <2>1, <2>2, <2>3 DEF ProcEffect
<1>9. ASSUME NEW p \in Procs, UnlinkOwner(p) PROVE LockInv'
  <2>1. PICK from \in {"verified"}, to \in {"unlinked", "stopped"} : ProcStep(p, from, to)
    BY <1>9 DEF UnlinkOwner, ProcStates
  <2>2. ProcEffect(p, from, to)
    BY <2>1, ProcStepPc DEF ProcStates
  <2>3. dir'.present = dir.present /\ dir'.owner = Nobody
    BY <1>9 DEF UnlinkOwner, TypeOK, Dirs
  <2>4. QED
    BY <2>1, <2>2, <2>3 DEF ProcEffect
<1>10. ASSUME NEW p \in Procs, RemoveDir(p) PROVE LockInv'
  <2>1. PICK from \in {"unlinked"}, to \in {"idle", "stopped"} : ProcStep(p, from, to)
    BY <1>10 DEF RemoveDir, ProcStates
  <2>2. ProcEffect(p, from, to)
    BY <2>1, ProcStepPc DEF ProcStates
  <2>3. QED
    BY <2>1, <2>2 DEF ProcEffect
<1>11. ASSUME NEW p \in Procs, ReleaseDenied(p) PROVE LockInv'
  <2>1. PICK from \in {"verified", "unlinked"}, to \in {"stopped"} : ProcStep(p, from, to)
    BY <1>11 DEF ReleaseDenied, ProcStates
  <2>2. ProcEffect(p, from, to)
    BY <2>1, ProcStepPc DEF ProcStates
  <2>3. dir' = dir
    BY <1>11 DEF ReleaseDenied
  <2>4. QED
    BY <2>1, <2>2, <2>3 DEF ProcEffect
<1>12. ASSUME NEW p \in Procs, Crash(p) PROVE LockInv'
  <2>1. PICK from \in ProcStates \ {"idle", "stopped"}, to \in {"stopped"} : ProcStep(p, from, to)
    BY <1>12 DEF Crash, ProcStates
  <2>2. ProcEffect(p, from, to)
    BY <2>1, ProcStepPc DEF ProcStates
  <2>3. dir'.present = dir.present /\ dir'.owner = dir.owner
    BY <1>12 DEF Crash, TypeOK, Dirs
  <2>4. QED
    BY <2>1, <2>2, <2>3 DEF ProcEffect
<1>13. ASSUME NEW r \in Recoverers, Quarantine(r) PROVE LockInv'
  <2>1. pc' = pc /\ (\A p \in Procs : ~InLock(p))
    BY <1>13 DEF Quarantine, RecovererStep
  <2>2. QED
    BY <2>1
<1>14. ASSUME NEW r \in Recoverers,
              Observe(r) \/ Inspect(r) \/ Reinspect(r) \/ RemoveQuarantine(r) \/ RecovererCrash(r)
       PROVE  LockInv'
  <2>1. pc' = pc /\ dir' = dir
    BY <1>14 DEF Observe, Inspect, Reinspect, RemoveQuarantine, RecovererCrash, RecovererStep
  <2>2. QED
    BY <2>1
<1>15. CASE GrowOld
  <2>1. pc' = pc /\ dir'.present = dir.present /\ dir'.owner = dir.owner
    BY <1>15 DEF GrowOld, TypeOK, Dirs
  <2>2. QED
    BY <2>1
<1>16. CASE UNCHANGED vars
  BY <1>16 DEF vars
<1>17. QED
  BY <1>1, <1>2, <1>3, <1>4, <1>5, <1>6, <1>7, <1>8, <1>9, <1>10, <1>11, <1>12, <1>13,
     <1>14, <1>15, <1>16
     DEF Next, ProcNext, ProcProgress, RecovererProgress

\* With one recovery at a time, a step that is no strain takes nothing.
LEMMA StrainStep ==
  OneRecoverer /\ TypeOK /\ HeldInv /\ StrainInv /\ [Next]_vars => StrainInv'
<1> SUFFICES ASSUME OneRecoverer, TypeOK, HeldInv, StrainInv, [Next]_vars, ~strained'
             PROVE  CalmInv'
  BY DEF StrainInv
<1> USE LockAssumption
<1>0. ~strained /\ CalmInv /\ LockInv
  BY HistoryTypes DEF StrainInv, HeldInv, CalmInv
<1> USE <1>0 DEF LockInv, CalmInv, InLock, InCriticalSection
<1>1. ASSUME NEW p \in Procs, StartAcquire(p) PROVE CalmInv'
  <2>1. PICK from \in {"idle"}, to \in {"waiting"} : ProcStep(p, from, to)
    BY <1>1 DEF StartAcquire, ProcStates
  <2>2. ProcEffect(p, from, to)
    BY <2>1, ProcStepPc DEF ProcStates
  <2>3. dir' = dir /\ taken' = taken
    BY <1>1 DEF StartAcquire, history
  <2>4. QED
    BY <2>1, <2>2, <2>3 DEF ProcEffect
<1>2. ASSUME NEW p \in Procs, MakeDir(p) PROVE CalmInv'
  <2>1. PICK from \in {"waiting"}, to \in {"created"} : ProcStep(p, from, to)
    BY <1>2 DEF MakeDir, ProcStates
  <2>2. ProcEffect(p, from, to)
    BY <2>1, ProcStepPc DEF ProcStates
  <2>3. ~dir.present /\ ~dir'.old /\ taken' = taken
    BY <1>2 DEF MakeDir, NoDir, history
  <2>4. QED
    BY <2>1, <2>2, <2>3 DEF ProcEffect
<1>3. ASSUME NEW p \in Procs, MakeDirFails(p) PROVE CalmInv'
  BY <1>3 DEF MakeDirFails
<1>4. ASSUME NEW p \in Procs, TimeOut(p) PROVE CalmInv'
  <2>1. PICK from \in {"waiting"}, to \in {"idle"} : ProcStep(p, from, to)
    BY <1>4 DEF TimeOut, ProcStates
  <2>2. ProcEffect(p, from, to)
    BY <2>1, ProcStepPc DEF ProcStates
  <2>3. dir' = dir /\ taken' = taken
    BY <1>4 DEF TimeOut, history
  <2>4. QED
    BY <2>1, <2>2, <2>3 DEF ProcEffect
<1>5. ASSUME NEW p \in Procs, WriteOwner(p) PROVE CalmInv'
  <2>1. PICK from \in {"created"}, to \in {"holding"} : ProcStep(p, from, to)
    BY <1>5 DEF WriteOwner, ProcStates
  <2>2. ProcEffect(p, from, to)
    BY <2>1, ProcStepPc DEF ProcStates
  <2>3. ~dir'.old /\ taken' = taken
    BY <1>5 DEF WriteOwner, TypeOK, Dirs, history
  <2>4. QED
    BY <2>1, <2>2, <2>3 DEF ProcEffect
<1>6. ASSUME NEW p \in Procs, WriteOwnerFails(p) PROVE CalmInv'
  <2>1. PICK from \in {"created"}, to \in {"aborting"} : ProcStep(p, from, to)
    BY <1>6 DEF WriteOwnerFails, ProcStates
  <2>2. ProcEffect(p, from, to)
    BY <2>1, ProcStepPc DEF ProcStates
  <2>3. dir' = dir /\ taken' = taken
    BY <1>6 DEF WriteOwnerFails, history
  <2>4. QED
    BY <2>1, <2>2, <2>3 DEF ProcEffect
<1>7. ASSUME NEW p \in Procs, CleanUpFailedAcquire(p) PROVE CalmInv'
  <2>1. PICK from \in {"failed", "aborting"}, to \in {"idle"} : ProcStep(p, from, to)
    BY <1>7 DEF CleanUpFailedAcquire, ProcStates
  <2>2. ProcEffect(p, from, to)
    BY <2>1, ProcStepPc DEF ProcStates
  <2>3. (dir' = dir \/ ~dir'.present) /\ ~taken'
    BY <1>7, <2>1, <2>2 DEF CleanUpFailedAcquire, NoDir, ProcEffect
  <2>4. QED
    BY <2>1, <2>2, <2>3 DEF ProcEffect
<1>8. ASSUME NEW p \in Procs, VerifyOwner(p) PROVE CalmInv'
  <2>1. PICK from \in {"holding"}, to \in {"verified", "stopped"} : ProcStep(p, from, to)
    BY <1>8 DEF VerifyOwner, ProcStates
  <2>2. ProcEffect(p, from, to)
    BY <2>1, ProcStepPc DEF ProcStates
  <2>3. dir' = dir /\ taken' = taken
    BY <1>8 DEF VerifyOwner, history
  <2>4. QED
    BY <2>1, <2>2, <2>3 DEF ProcEffect
<1>9. ASSUME NEW p \in Procs, UnlinkOwner(p) PROVE CalmInv'
  <2>1. PICK from \in {"verified"}, to \in {"unlinked", "stopped"} : ProcStep(p, from, to)
    BY <1>9 DEF UnlinkOwner, ProcStates
  <2>2. ProcEffect(p, from, to)
    BY <2>1, ProcStepPc DEF ProcStates
  <2>3. (dir' = dir \/ ~dir'.old) /\ taken' = taken
    BY <1>9 DEF UnlinkOwner, TypeOK, Dirs, history
  <2>4. QED
    BY <2>1, <2>2, <2>3 DEF ProcEffect
<1>10. ASSUME NEW p \in Procs, RemoveDir(p) PROVE CalmInv'
  <2>1. PICK from \in {"unlinked"}, to \in {"idle", "stopped"} : ProcStep(p, from, to)
    BY <1>10 DEF RemoveDir, ProcStates
  <2>2. ProcEffect(p, from, to)
    BY <2>1, ProcStepPc DEF ProcStates
  <2>3. (dir' = dir \/ ~dir'.present) /\ taken' = taken
    BY <1>10 DEF RemoveDir, NoDir, history
  <2>4. QED
    BY <2>1, <2>2, <2>3 DEF ProcEffect
<1>11. ASSUME NEW p \in Procs, ReleaseDenied(p) PROVE CalmInv'
  <2>1. PICK from \in {"verified", "unlinked"}, to \in {"stopped"} : ProcStep(p, from, to)
    BY <1>11 DEF ReleaseDenied, ProcStates
  <2>2. ProcEffect(p, from, to)
    BY <2>1, ProcStepPc DEF ProcStates
  <2>3. dir' = dir /\ taken' = taken
    BY <1>11 DEF ReleaseDenied, history
  <2>4. QED
    BY <2>1, <2>2, <2>3 DEF ProcEffect
<1>12. ASSUME NEW p \in Procs, Crash(p) PROVE CalmInv'
  <2>1. PICK from \in ProcStates \ {"idle", "stopped"}, to \in {"stopped"} : ProcStep(p, from, to)
    BY <1>12 DEF Crash, ProcStates
  <2>2. ProcEffect(p, from, to)
    BY <2>1, ProcStepPc DEF ProcStates
  <2>3. dir'.present = dir.present /\ dir'.old = dir.old /\ taken' = taken
    BY <1>12 DEF Crash, TypeOK, Dirs, history
  <2>4. QED
    BY <2>1, <2>2, <2>3 DEF ProcEffect
<1>13. ASSUME NEW r \in Recoverers, Inspect(r) PROVE CalmInv'
  <2>1. PICK to \in {"inspected", "idle"} : RecovererStep(r, "confirmed", to)
    BY <1>13 DEF Inspect
  <2>2. rpc'[r] = "inspected" => dir.present /\ dir.old
    BY <1>13 DEF Inspect, RecovererStep, IsStale, TypeOK
  <2>3. QED
    BY <1>13, <2>1, <2>2, RecovererStepPc DEF Inspect, history, RecovererStates
<1>14. ASSUME NEW r \in Recoverers, Quarantine(r) PROVE CalmInv'
  <2>1. PICK to \in {"quarantined", "idle"} : RecovererStep(r, "inspected", to)
    BY <1>14 DEF Quarantine
  <2>2. pc' = pc /\ rpc'[r] # "inspected" /\ (\A s \in Recoverers : s = r)
    BY <2>1, RecovererStepPc DEF OneRecoverer, RecovererStates
  <2>3. (\A p \in Procs : ~InLock(p)) /\ ~dir'.present /\ ~taken'
    BY <1>14, <2>1, RecovererStepPc DEF Quarantine, NoDir, RecovererStep
  <2>4. QED
    BY <2>2, <2>3
<1>15. ASSUME NEW r \in Recoverers,
              Observe(r) \/ Reinspect(r) \/ RemoveQuarantine(r) \/ RecovererCrash(r)
       PROVE  CalmInv'
  <2>1. PICK from \in RecovererStates, to \in RecovererStates \ {"inspected"} :
          RecovererStep(r, from, to)
    BY <1>15 DEF Observe, Reinspect, RemoveQuarantine, RecovererCrash, RecovererStates
  <2>2. dir' = dir /\ taken' = taken
    BY <1>15 DEF Observe, Reinspect, RemoveQuarantine, RecovererCrash, history
  <2>3. QED
    BY <2>1, <2>2, RecovererStepPc
<1>16. CASE GrowOld
  BY <1>16 DEF GrowOld, TypeOK, Dirs
<1>17. CASE UNCHANGED vars
  BY <1>17 DEF vars, history
<1>18. QED
  BY <1>1, <1>2, <1>3, <1>4, <1>5, <1>6, <1>7, <1>8, <1>9, <1>10, <1>11, <1>12, <1>13,
     <1>14, <1>15, <1>16, <1>17
     DEF Next, ProcNext, ProcProgress, RecovererProgress

-----------------------------------------------------------------------------
\* The two invariants hold at the start, when there is no lock, and always.
LEMMA InitInv == Init => HeldInv /\ StrainInv
  BY DEF Init, HeldInv, LockInv, StrainInv, CalmInv, InLock, InCriticalSection, NoDir

\* As HeldStep says of a step, of every behaviour.
LEMMA Held == Spec => []HeldInv
  BY InitInv, HeldStep, LockTypeCorrect, PTL DEF Spec

\* As StrainStep says of a step, of every behaviour.
LEMMA Strain == ASSUME OneRecoverer PROVE Spec => []StrainInv
  BY InitInv, StrainStep, LockTypeCorrect, Held, PTL DEF Spec

\* Whatever fails, crashes or runs late, and however many recoveries run: two
\* processes are past a successful acquire() only after the directory of a live
\* one was removed by another command.
THEOREM LockExcludesUnlessTaken == Spec => []ExclusiveUnlessTaken
<1>1. HeldInv => ExclusiveUnlessTaken
  BY DEF HeldInv, LockInv, ExclusiveUnlessTaken, MutualExclusion, InLock, InCriticalSection
<1>2. QED
  BY <1>1, Held, PTL

\* Until that happens the lock stays on disk and names its owner, until the owner
\* lets go.
THEOREM LockNamesHolder == Spec => []RecordedUnlessTaken
<1>1. HeldInv => RecordedUnlessTaken
  BY DEF HeldInv, LockInv, RecordedUnlessTaken, InLock, InCriticalSection
<1>2. QED
  BY <1>1, Held, PTL

\* With one recovery at a time, nothing is taken from a live process before a
\* mkdir has failed otherwise than on an existing lock, or a live process has
\* outlasted the limit: recover-lock itself judges by age alone.
THEOREM TakenUnderStrain == ASSUME OneRecoverer PROVE Spec => []TakenOnlyUnderStrain
<1>1. StrainInv => TakenOnlyUnderStrain
  BY DEF StrainInv, CalmInv, TakenOnlyUnderStrain
<1>2. QED
  BY <1>1, Strain, PTL

\* Where neither ever happens, whatever else does, two processes are never both
\* past a successful acquire().
THEOREM LockExcludes ==
  ASSUME OneRecoverer, "mkdir" \notin Faults, "slow" \notin Faults
  PROVE  Spec => []MutualExclusion
<1>1. Init => ~strained
  BY DEF Init
<1>2. TypeOK /\ ~strained /\ [Next]_vars => ~strained'
  <2> SUFFICES ASSUME TypeOK, ~strained, [Next]_vars PROVE ~strained'
    OBVIOUS
  <2>1. ASSUME NEW p \in Procs, ProcNext(p) PROVE strained' = strained
    BY <2>1 DEF history, ProcNext, ProcProgress, StartAcquire, MakeDir, MakeDirFails,
       TimeOut, WriteOwner, WriteOwnerFails, CleanUpFailedAcquire, VerifyOwner,
       UnlinkOwner, RemoveDir, ReleaseDenied, Crash
  <2>2. ASSUME NEW r \in Recoverers, RecovererProgress(r) \/ RecovererCrash(r)
        PROVE  strained' = strained
    BY <2>2 DEF history, RecovererProgress, RecovererCrash, Observe, Inspect,
       Quarantine, Reinspect, RemoveQuarantine
  <2>3. CASE GrowOld
    BY <2>3 DEF GrowOld
  <2>4. CASE UNCHANGED vars
    BY <2>4 DEF vars, history
  <2>5. QED
    BY <2>1, <2>2, <2>3, <2>4 DEF Next
<1>3. Spec => []~strained
  BY <1>1, <1>2, LockTypeCorrect, PTL DEF Spec
<1>4. ~strained /\ TakenOnlyUnderStrain /\ ExclusiveUnlessTaken => MutualExclusion
  BY DEF TakenOnlyUnderStrain, ExclusiveUnlessTaken
<1>5. QED
  BY <1>3, <1>4, TakenUnderStrain, LockExcludesUnlessTaken, PTL
===============================================================================
