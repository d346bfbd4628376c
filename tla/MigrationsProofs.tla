--------------------------- MODULE MigrationsProofs ---------------------------
(***************************************************************************)
(* Proofs of the safety properties of Migrations, for any number of        *)
(* operators that run migrate, any records, batches and faults.            *)
(***************************************************************************)
EXTENDS Migrations, TLAPS

Active(m) == pc[m] \in {"changing", "undoing"}

\* The lock is held by the migration at work, or for a batch that is open.
HolderInv ==
  /\ \A m \in Migrators : Active(m) <=> holder = m
  /\ Putting => batch # NoBatch

\* Only legacy records are planned, and only planned ones are to be changed.
PlanInv ==
  \A m \in Migrators, r \in Records :
    /\ plan[m][r] \in Legacy \cup {Absent}
    /\ pc[m] = "changing" /\ r \in todo => plan[m][r] \in Legacy

\* While a migration is at work, a record is as in its backup or the current form
\* of that, and the latter where it has been or is still to be undone.
BackupInv ==
  \A m \in Migrators : Active(m) =>
    \A r \in Records :
      \/ store[r] = backup[r]
      \/ /\ backup[r] \in Legacy /\ store[r] = Current[backup[r]]
         /\ pc[m] = "changing" <=> r \notin todo

\* What an unfinished migration will leave if nothing goes wrong with its undoing.
Base == IF holder \in Migrators THEN backup ELSE store

\* Unless one was cut short, the open transaction can still be recovered.
DriftInv ==
  batch # NoBatch /\ ~stray =>
    \A r \in Touched(batch.request) :
      Base[r] \in {batch.before[r], batch.request.writes[r]}

\* After a complete migration, nothing that may come back is legacy.
CompleteInv ==
  \A m \in Migrators : journal[m] = "complete" =>
    \A r \in Records :
      /\ store[r] \notin Legacy
      /\ batch # NoBatch => batch.before[r] \notin Legacy
      /\ holder \in Migrators => backup[r] \notin Legacy

IInv == TypeOK /\ HolderInv /\ PlanInv /\ BackupInv /\ DriftInv /\ CompleteInv

-----------------------------------------------------------------------------
(* Types                                                                   *)

\* No record is absent and legacy at once, and every value has a current form.
LEMMA Values0 ==
  /\ Absent \notin Legacy
  /\ \A v \in Legacy : v \in Values /\ Current[v] \in Values /\ Current[v] \notin Legacy
  /\ \A rq \in Requests : rq.writes \in Stores
  /\ Nothing \in Stores
BY MigrationAssumption, BatchAssumption DEF RequestType, Nothing, Stores, Contents

\* A fresh session meets the invariant, whatever the age of its store.
LEMMA IInvInit == Init => IInv
<1> SUFFICES ASSUME Init PROVE IInv
  OBVIOUS
<1>1. store \in Stores /\ 0 \in 0..MaxPuts /\ 0 \in 0..MaxFaults
  BY MigrationAssumption DEF Init
<1>2. TypeOK
  BY <1>1, Values0 DEF Init, TypeOK, Steps, JournalStatuses
<1>3. HolderInv /\ PlanInv /\ BackupInv /\ DriftInv /\ CompleteInv
  BY MigrationAssumption
     DEF Init, HolderInv, Active, Putting, PlanInv, Nothing, BackupInv, DriftInv, CompleteInv
<1>4. QED
  BY <1>2, <1>3 DEF IInv

\* A store in which one record has changed is a store.
LEMMA StoreWith ==
  ASSUME NEW s \in Stores, NEW r \in Records, NEW v \in Contents
  PROVE  [s EXCEPT ![r] = v] \in Stores
BY DEF Stores

\* What a recovery or rollback restores is a store.
LEMMA RestoredTyped ==
  ASSUME TypeOK, batch # NoBatch
  PROVE  /\ Restored \in Stores /\ batch.request \in Requests /\ batch.before \in Stores
         /\ \A r \in Records :
              Restored[r] = IF r \in Touched(batch.request) THEN batch.before[r] ELSE store[r]
BY DEF TypeOK, BatchType, Restored, Stores

\* A fault is one of the bounded number.
LEMMA FaultTyped ==
  ASSUME TypeOK, Fault \/ faults' = faults
  PROVE  faults' \in 0..MaxFaults
<1>1. faults \in 0..MaxFaults /\ MaxFaults \in Nat
  BY MigrationAssumption DEF TypeOK
<1>2. CASE Fault
  <2>1. faults < MaxFaults /\ faults' = faults + 1
    BY <1>2 DEF Fault
  <2>2. QED
    BY <1>1, <2>1
<1>3. QED
  BY <1>1, <1>2

\* Every step preserves the types, action by action.
LEMMA TypeStep == IInv /\ [Next]_vars => TypeOK'
<1> SUFFICES ASSUME IInv, [Next]_vars PROVE TypeOK'
  OBVIOUS
<1>0. TypeOK /\ HolderInv /\ PlanInv
  BY DEF IInv
<1>1. ASSUME NEW rq \in Requests, BeginPut(rq) PROVE TypeOK'
  <2>1. batch' \in BatchType
    BY <1>0, <1>1 DEF BeginPut, BatchType, TypeOK
  <2>2. puts \in 0..MaxPuts /\ puts < MaxPuts /\ puts' = puts + 1
    BY <1>0, <1>1 DEF BeginPut, TypeOK
  <2>3. puts' \in 0..MaxPuts
    BY <2>2, MigrationAssumption
  <2>4. QED
    BY <1>0, <1>1, <2>1, <2>3 DEF BeginPut, TypeOK, migrating, planning
<1>2. ASSUME NEW r \in Records, ReplaceFile(r) PROVE TypeOK'
  <2>1. batch.request.writes[r] \in Contents
    BY <1>0, <1>2, RestoredTyped, Values0 DEF ReplaceFile, HolderInv, Stores
  <2>2. store' \in Stores
    BY <1>0, <1>2, <2>1, StoreWith DEF ReplaceFile, TypeOK
  <2>3. QED
    BY <1>0, <1>2, <2>2 DEF ReplaceFile, TypeOK, migrating, planning, bounds
<1>3. CASE Commit
  BY <1>0, <1>3 DEF Commit, TypeOK, migrating, planning, bounds
<1>4. CASE RollBack
  <2>1. store' \in Stores
    BY <1>0, <1>4, RestoredTyped DEF RollBack, HolderInv
  <2>2. faults' = faults \/ Fault
    BY <1>4 DEF RollBack
  <2>3. faults' \in 0..MaxFaults
    BY <1>0, <2>2, FaultTyped
  <2>4. QED
    BY <1>0, <1>4, <2>1, <2>3 DEF RollBack, TypeOK, migrating, planning
<1>5. CASE PutDies
  <2>1. faults' = faults \/ Fault
    BY <1>5 DEF PutDies
  <2>2. faults' \in 0..MaxFaults
    BY <1>0, <2>1, FaultTyped
  <2>3. debris' \in BOOLEAN
    BY <1>0, <1>5 DEF PutDies, TypeOK
  <2>4. QED
    BY <1>0, <1>5, <2>2, <2>3 DEF PutDies, TypeOK, migrating, planning
<1>6. CASE RecoverTransaction
  <2>1. store' \in Stores
    BY <1>0, <1>6, RestoredTyped DEF RecoverTransaction, Interrupted
  <2>2. batch' \in BatchType \cup {NoBatch}
    BY <1>0, <1>6 DEF RecoverTransaction, TypeOK
  <2>3. QED
    BY <1>0, <1>6, <2>1, <2>2 DEF RecoverTransaction, TypeOK, migrating, planning, bounds
<1>7. CASE ClearDebris
  BY <1>0, <1>7 DEF ClearDebris, TypeOK, migrating, planning, bounds
<1>8. ASSUME NEW m \in Migrators, StartPlan(m) PROVE TypeOK'
  BY <1>0, <1>8 DEF StartPlan, Go, TypeOK, Steps, bounds
<1>9. ASSUME NEW m \in Migrators, NEW r \in Records, PlanRecord(m, r) PROVE TypeOK'
  <2>1. plan[m] \in Stores /\ store[r] \in Contents
    BY <1>0 DEF TypeOK, Stores
  <2>2. [plan EXCEPT ![m][r] = store[r]] = [plan EXCEPT ![m] = [plan[m] EXCEPT ![r] = store[r]]]
    OBVIOUS
  <2>3. plan' \in [Migrators -> Stores]
    BY <1>0, <1>9, <2>1, <2>2, StoreWith DEF PlanRecord, TypeOK
  <2>4. QED
    BY <1>0, <1>9, <2>3 DEF PlanRecord, Go, TypeOK, Steps, bounds
<1>10. ASSUME NEW m \in Migrators, StartApply(m) PROVE TypeOK'
  BY <1>0, <1>10 DEF StartApply, Go, TypeOK, Steps, JournalStatuses, bounds
<1>11. ASSUME NEW m \in Migrators, ApplyRefused(m) PROVE TypeOK'
  <2>1. plan' \in [Migrators -> Stores] /\ todo' \subseteq Records /\ backup' \in Stores
    BY <1>0, <1>11, Values0 DEF ApplyRefused, Forget, TypeOK
  <2>2. QED
    BY <1>0, <1>11, <2>1 DEF ApplyRefused, Go, TypeOK, Steps, bounds
<1>12. ASSUME NEW m \in Migrators, NEW r \in Records, ChangeRecord(m, r) PROVE TypeOK'
  <2>1. plan[m][r] \in Legacy
    BY <1>0, <1>12 DEF ChangeRecord, PlanInv
  <2>2. store' \in Stores
    BY <1>0, <1>12, <2>1, StoreWith, Values0 DEF ChangeRecord, TypeOK, Contents
  <2>3. QED
    BY <1>0, <1>12, <2>2 DEF ChangeRecord, TypeOK, planning, bounds
<1>13. ASSUME NEW m \in Migrators, NEW r \in Records, RestoreMember(m, r) PROVE TypeOK'
  <2>1. backup[r] \in Contents
    BY <1>0 DEF TypeOK, Stores
  <2>2. store' \in Stores
    BY <1>0, <1>13, <2>1, StoreWith DEF RestoreMember, TypeOK
  <2>3. QED
    BY <1>0, <1>13, <2>2 DEF RestoreMember, TypeOK, planning, bounds
<1>14. ASSUME NEW m \in Migrators, StartUndo(m) PROVE TypeOK'
  <2>1. faults' \in 0..MaxFaults
    <3>1. Fault \/ faults' = faults
      BY <1>14 DEF StartUndo
    <3>2. QED
      BY <1>0, <3>1, FaultTyped
  <2>2. QED
    BY <1>0, <1>14, <2>1 DEF StartUndo, Go, TypeOK, Steps
<1>15. ASSUME NEW m \in Migrators, FinishUndo(m) \/ Complete(m) PROVE TypeOK'
  BY <1>0, <1>15, Values0
     DEF FinishUndo, Complete, Finish, Forget, Go, TypeOK, Steps, JournalStatuses, bounds
<1>16. ASSUME NEW m \in Migrators, MigrationDies(m) PROVE TypeOK'
  <2>1. faults' \in 0..MaxFaults
    BY <1>0, <1>16, FaultTyped DEF MigrationDies
  <2>2. debris' \in BOOLEAN /\ stray' \in BOOLEAN
    BY <1>0, <1>16 DEF MigrationDies, TypeOK
  <2>3. plan' \in [Migrators -> Stores] /\ todo' \subseteq Records /\ backup' \in Stores
    BY <1>0, <1>16, Values0 DEF MigrationDies, Forget, TypeOK
  <2>4. QED
    BY <1>0, <1>16, <2>1, <2>2, <2>3 DEF MigrationDies, Go, TypeOK, Steps
<1>17. CASE UNCHANGED vars
  BY <1>0, <1>17 DEF vars, TypeOK, migrating, planning, bounds
<1>18. QED
  BY <1>1, <1>2, <1>3, <1>4, <1>5, <1>6, <1>7, <1>8, <1>9, <1>10, <1>11, <1>12, <1>13, <1>14,
     <1>15, <1>16, <1>17 DEF Next, Applying

-----------------------------------------------------------------------------
(* The lock and the plans                                                  *)

\* Every step keeps the lock with the migration at work, or with an open batch.
LEMMA HolderStep == IInv /\ [Next]_vars => HolderInv'
<1> SUFFICES ASSUME IInv, [Next]_vars PROVE HolderInv'
  OBVIOUS
<1>0. TypeOK /\ HolderInv
  BY DEF IInv
<1>1. ASSUME NEW rq \in Requests, BeginPut(rq) PROVE HolderInv'
  <2>1. holder = Nobody /\ holder' = Putter /\ pc' = pc
    BY <1>1 DEF BeginPut, LockFree, migrating, planning
  <2>2. batch' \in BatchType
    BY <1>0, <1>1 DEF BeginPut, BatchType, TypeOK
  <2>3. QED
    BY <1>0, <2>1, <2>2, MigrationAssumption DEF HolderInv, Active, Putting
<1>2. ASSUME UNCHANGED <<pc, holder, batch>> PROVE HolderInv'
  BY <1>0, <1>2 DEF HolderInv, Active, Putting
<1>3. CASE Commit \/ RollBack \/ PutDies
  <2>1. holder = Putter /\ holder' = Nobody /\ pc' = pc
    BY <1>3 DEF Commit, RollBack, PutDies, Putting, migrating, planning
  <2>2. QED
    BY <1>0, <2>1, MigrationAssumption DEF HolderInv, Active, Putting
<1>4. CASE RecoverTransaction
  <2>1. holder = Nobody /\ holder' = Nobody /\ pc' = pc
    BY <1>4 DEF RecoverTransaction, Interrupted, LockFree, migrating, planning
  <2>2. QED
    BY <1>0, <2>1, MigrationAssumption DEF HolderInv, Active, Putting
<1>5. ASSUME NEW m \in Migrators,
             StartPlan(m) \/ ApplyRefused(m) \/ \E r \in Records : PlanRecord(m, r)
      PROVE  HolderInv'
  <2>1. UNCHANGED <<holder, batch>> /\ ~Active(m) /\ ~Active(m)'
    BY <1>0, <1>5 DEF StartPlan, ApplyRefused, PlanRecord, Go, Active, TypeOK
  <2>2. \A n \in Migrators \ {m} : pc'[n] = pc[n]
    BY <1>0, <1>5 DEF StartPlan, ApplyRefused, PlanRecord, Go, TypeOK
  <2>3. QED
    BY <1>0, <2>1, <2>2 DEF HolderInv, Active, Putting
<1>6. ASSUME NEW m \in Migrators, StartApply(m) PROVE HolderInv'
  BY <1>0, <1>6, MigrationAssumption
     DEF StartApply, LockFree, Go, HolderInv, Active, Putting, TypeOK
<1>7. ASSUME NEW m \in Migrators, StartUndo(m) PROVE HolderInv'
  BY <1>0, <1>7 DEF StartUndo, Go, HolderInv, Active, Putting, TypeOK
<1>8. ASSUME NEW m \in Migrators, FinishUndo(m) \/ Complete(m) \/ MigrationDies(m)
      PROVE  HolderInv'
  <2>1. Active(m) /\ ~Active(m)' /\ holder' = Nobody
    BY <1>0, <1>8 DEF FinishUndo, Complete, Finish, MigrationDies, Go, Active, TypeOK
  <2>2. \A n \in Migrators \ {m} : pc'[n] = pc[n]
    BY <1>0, <1>8 DEF FinishUndo, Complete, Finish, MigrationDies, Go, TypeOK
  <2>3. QED
    BY <1>0, <2>1, <2>2, MigrationAssumption DEF HolderInv, Active, Putting
<1>9. QED
  BY <1>1, <1>2, <1>3, <1>4, <1>5, <1>6, <1>7, <1>8
     DEF Next, Applying, ReplaceFile, ClearDebris, ChangeRecord, RestoreMember, vars,
         migrating, planning

\* Every step plans legacy records only, and applies what was planned.
LEMMA PlanStep == IInv /\ [Next]_vars => PlanInv'
<1> SUFFICES ASSUME IInv, [Next]_vars PROVE PlanInv'
  OBVIOUS
<1>0. TypeOK /\ HolderInv /\ PlanInv
  BY DEF IInv
<1>1. ASSUME UNCHANGED <<pc, plan>>, todo' \subseteq todo PROVE PlanInv'
  BY <1>0, <1>1 DEF PlanInv
<1>2. ASSUME NEW m \in Migrators, StartPlan(m) PROVE PlanInv'
  BY <1>0, <1>2 DEF StartPlan, Go, PlanInv, TypeOK
<1>3. ASSUME NEW m \in Migrators, NEW r \in Records, PlanRecord(m, r) PROVE PlanInv'
  <2>1. \A n \in Migrators, q \in Records : plan'[n][q] = plan[n][q] \/ plan'[n][q] \in Legacy
    BY <1>0, <1>3 DEF PlanRecord, IsLegacy, TypeOK, Stores
  <2>2. \A n \in Migrators : pc'[n] = "changing" => pc[n] = "changing" /\ todo' = todo
    BY <1>0, <1>3 DEF PlanRecord, Go, TypeOK
  <2>3. QED
    BY <1>0, <2>1, <2>2 DEF PlanInv
<1>4. ASSUME NEW m \in Migrators, StartApply(m) PROVE PlanInv'
  <2>1. \A n \in Migrators : pc'[n] = "changing" => n = m
    BY <1>0, <1>4, MigrationAssumption DEF StartApply, Go, LockFree, HolderInv, Active, TypeOK
  <2>2. QED
    BY <1>0, <1>4, <2>1 DEF StartApply, PlanInv
<1>5. ASSUME NEW m \in Migrators,
             ApplyRefused(m) \/ FinishUndo(m) \/ Complete(m) \/ MigrationDies(m)
      PROVE  PlanInv'
  <2>1. todo' = {} /\ plan' = [plan EXCEPT ![m] = Nothing]
    BY <1>5 DEF ApplyRefused, FinishUndo, Complete, Finish, MigrationDies, Forget
  <2>2. QED
    BY <1>0, <2>1 DEF PlanInv, Nothing, TypeOK
<1>6. ASSUME NEW m \in Migrators, StartUndo(m) PROVE PlanInv'
  <2>1. \A n \in Migrators : pc'[n] # "changing"
    BY <1>0, <1>6 DEF StartUndo, Go, HolderInv, Active, TypeOK
  <2>2. QED
    BY <1>0, <1>6, <2>1 DEF StartUndo, PlanInv
<1>7. QED
  BY <1>1, <1>2, <1>3, <1>4, <1>5, <1>6
     DEF Next, Applying, BeginPut, ReplaceFile, Commit, RollBack, PutDies, RecoverTransaction,
         ClearDebris, ChangeRecord, RestoreMember, vars, migrating, planning

-----------------------------------------------------------------------------
(* The backup                                                              *)

\* Every step leaves the backup of the migration at work good for its undoing.
LEMMA BackupStep == IInv /\ [Next]_vars => BackupInv'
<1> SUFFICES ASSUME IInv, [Next]_vars PROVE BackupInv'
  OBVIOUS
<1>0. TypeOK /\ HolderInv /\ PlanInv /\ BackupInv
  BY DEF IInv
<1>1. ASSUME holder' \notin Migrators PROVE BackupInv'
  BY <1>1, HolderStep DEF HolderInv, BackupInv
<1>2. ASSUME UNCHANGED <<pc, store, backup, todo>> PROVE BackupInv'
  BY <1>0, <1>2 DEF BackupInv, Active
<1>3. ASSUME NEW m \in Migrators, StartPlan(m) \/ \E r \in Records : PlanRecord(m, r)
      PROVE  BackupInv'
  <2>1. UNCHANGED <<store, backup, todo>> /\ ~Active(m)'
    BY <1>0, <1>3 DEF StartPlan, PlanRecord, Go, Active, TypeOK
  <2>2. \A n \in Migrators \ {m} : pc'[n] = pc[n]
    BY <1>0, <1>3 DEF StartPlan, PlanRecord, Go, TypeOK
  <2>3. QED
    BY <1>0, <2>1, <2>2 DEF BackupInv, Active
<1>4. ASSUME NEW m \in Migrators, StartApply(m) PROVE BackupInv'
  BY <1>0, <1>4 DEF StartApply, BackupInv
<1>5. ASSUME NEW m \in Migrators, NEW r \in Records, ChangeRecord(m, r) PROVE BackupInv'
  <2>1. \A n \in Migrators : Active(n) => n = m
    BY <1>0, <1>5 DEF ChangeRecord, HolderInv, Active
  <2>2. plan[m][r] \in Legacy /\ store[r] = plan[m][r] /\ Current[plan[m][r]] \notin Legacy
    BY <1>0, <1>5, Values0 DEF ChangeRecord, PlanInv
  <2>3. backup[r] = plan[m][r]
    BY <1>0, <1>5, <2>2, Values0 DEF ChangeRecord, BackupInv, Active
  <2>4. /\ UNCHANGED <<pc, backup>> /\ pc[m] = "changing"
        /\ store'[r] = Current[backup[r]] /\ r \notin todo'
        /\ \A q \in Records \ {r} : store'[q] = store[q] /\ (q \in todo' <=> q \in todo)
    BY <1>0, <1>5, <2>3 DEF ChangeRecord, planning, TypeOK, Stores
  <2>5. QED
    BY <1>0, <2>1, <2>2, <2>3, <2>4 DEF BackupInv, Active
<1>6. ASSUME NEW m \in Migrators, NEW r \in Records, RestoreMember(m, r) PROVE BackupInv'
  <2>1. \A n \in Migrators : Active(n) => n = m
    BY <1>0, <1>6 DEF RestoreMember, HolderInv, Active
  <2>2. /\ UNCHANGED <<pc, backup>>
        /\ store'[r] = backup[r]
        /\ \A q \in Records \ {r} : store'[q] = store[q] /\ (q \in todo' <=> q \in todo)
    BY <1>0, <1>6 DEF RestoreMember, planning, TypeOK, Stores
  <2>3. QED
    BY <1>0, <2>1, <2>2 DEF BackupInv, Active
<1>7. ASSUME NEW m \in Migrators, StartUndo(m) PROVE BackupInv'
  <2>1. \A n \in Migrators : Active(n)' => n = m
    BY <1>0, <1>7 DEF StartUndo, Go, HolderInv, Active, TypeOK
  <2>2. /\ UNCHANGED <<store, backup>> /\ Active(m) /\ pc'[m] = "undoing"
        /\ \A r \in Records : backup[r] # Absent => r \in todo'
    BY <1>0, <1>7 DEF StartUndo, Go, Active, TypeOK
  <2>3. \A r \in Records : backup[r] \in Legacy => backup[r] # Absent
    BY Values0
  <2>4. QED
    BY <1>0, <2>1, <2>2, <2>3 DEF BackupInv, Active
<1>8. ASSUME NEW m \in Migrators,
             FinishUndo(m) \/ Complete(m) \/ MigrationDies(m) \/ ApplyRefused(m)
      PROVE  BackupInv'
  <2>1. holder' = Nobody
    BY <1>8 DEF FinishUndo, Complete, Finish, MigrationDies, ApplyRefused, LockFree
  <2>2. QED
    BY <1>1, <2>1, MigrationAssumption
<1>9. ASSUME (\E rq \in Requests : BeginPut(rq)) \/ (\E r \in Records : ReplaceFile(r))
             \/ Commit \/ RollBack \/ PutDies \/ RecoverTransaction
      PROVE  BackupInv'
  <2>1. holder' \in {Putter, Nobody}
    BY <1>9 DEF BeginPut, ReplaceFile, Commit, RollBack, PutDies, RecoverTransaction,
                Putting, Interrupted, LockFree
  <2>2. QED
    BY <1>1, <2>1, MigrationAssumption
<1>10. QED
  BY <1>2, <1>3, <1>4, <1>5, <1>6, <1>7, <1>8, <1>9
     DEF Next, Applying, ClearDebris, vars, migrating, planning

-----------------------------------------------------------------------------
(* What batches and migrations do to the records                           *)

\* Each action of put_records and recover-transaction opens, continues, undoes or
\* commits a batch, and none of them runs inside a migration.
LEMMA PutSteps ==
  ASSUME IInv,
         \/ \E rq \in Requests : BeginPut(rq)
         \/ \E r \in Records : ReplaceFile(r)
         \/ Commit \/ RollBack \/ PutDies \/ RecoverTransaction
  PROVE  /\ holder \notin Migrators /\ holder' \notin Migrators
         /\ UNCHANGED <<journal, stray>>
         /\ \/ batch = NoBatch /\ batch' # NoBatch /\ batch'.before = store /\ store' = store
            \/ /\ batch # NoBatch /\ batch' = batch
               /\ \/ store' = store
                  \/ store' = Restored
                  \/ \E r \in Touched(batch.request) :
                       store' = [store EXCEPT ![r] = batch.request.writes[r]]
            \/ batch # NoBatch /\ batch' = NoBatch /\ store' = Restored
            \/ Commit /\ batch' = NoBatch /\ store' = store
<1>0. TypeOK /\ HolderInv
  BY DEF IInv
<1>1. ASSUME NEW rq \in Requests, BeginPut(rq)
      PROVE  /\ holder = Nobody /\ holder' = Putter /\ UNCHANGED <<journal, stray, store>>
             /\ batch = NoBatch /\ batch' # NoBatch /\ batch'.before = store
  <2>1. batch' \in BatchType /\ batch'.before = store
    BY <1>0, <1>1 DEF BeginPut, BatchType, TypeOK
  <2>2. QED
    BY <1>1, <2>1, MigrationAssumption DEF BeginPut, LockFree, migrating
<1>2. ASSUME NEW r \in Records, ReplaceFile(r)
      PROVE  /\ holder = Putter /\ UNCHANGED <<holder, journal, stray, batch>>
             /\ batch # NoBatch /\ r \in Touched(batch.request)
             /\ store' = [store EXCEPT ![r] = batch.request.writes[r]]
  BY <1>0, <1>2 DEF ReplaceFile, HolderInv, Putting, migrating
<1>3. CASE Commit
  BY <1>3, MigrationAssumption DEF Commit, Putting, migrating
<1>4. CASE RollBack
  BY <1>0, <1>4, MigrationAssumption DEF RollBack, HolderInv, Putting, migrating
<1>5. CASE PutDies
  BY <1>0, <1>5, MigrationAssumption DEF PutDies, HolderInv, Putting, migrating
<1>6. CASE RecoverTransaction
  BY <1>6, MigrationAssumption DEF RecoverTransaction, Interrupted, LockFree, migrating
<1>7. QED
  BY <1>1, <1>2, <1>3, <1>4, <1>5, <1>6, MigrationAssumption

\* Every step leaves a transaction that recover-transaction can undo, unless a
\* migration was cut short.
LEMMA DriftStep == IInv /\ [Next]_vars => DriftInv'
<1> SUFFICES ASSUME IInv, [Next]_vars, batch' # NoBatch, ~stray',
                    NEW r \in Touched(batch'.request)
             PROVE  Base'[r] \in {batch'.before[r], batch'.request.writes[r]}
  BY DEF DriftInv
<1>0. TypeOK /\ HolderInv /\ BackupInv /\ DriftInv
  BY DEF IInv
<1>1. r \in Records
  BY DEF Touched
<1>2. ASSUME UNCHANGED <<batch, stray, Base>>
      PROVE  Base'[r] \in {batch'.before[r], batch'.request.writes[r]}
  BY <1>0, <1>2 DEF DriftInv
<1>3. ASSUME \/ \E rq \in Requests : BeginPut(rq)
             \/ \E q \in Records : ReplaceFile(q)
             \/ Commit \/ RollBack \/ PutDies \/ RecoverTransaction
      PROVE  Base'[r] \in {batch'.before[r], batch'.request.writes[r]}
  <2>1. Base = store /\ Base' = store' /\ UNCHANGED stray
    BY <1>3, PutSteps DEF Base
  <2>2. CASE batch = NoBatch /\ batch'.before = store /\ store' = store
    BY <2>1, <2>2
  <2>3. CASE batch # NoBatch /\ batch' = batch
    <3>1. Restored[r] = batch.before[r]
      BY <1>0, <1>1, <2>3, RestoredTyped
    <3>2. Base[r] \in {batch.before[r], batch.request.writes[r]}
      BY <1>0, <2>1, <2>3 DEF DriftInv
    <3>3. store \in Stores
      BY <1>0 DEF TypeOK
    <3>4. QED
      BY <1>1, <1>3, <2>1, <2>3, <3>1, <3>2, <3>3, PutSteps DEF Stores
  <2>4. QED
    BY <1>3, <2>2, <2>3, PutSteps
<1>4. CASE UNCHANGED <<store, holder, backup, batch, stray>>
  BY <1>2, <1>4 DEF Base
<1>5. ASSUME NEW m \in Migrators, StartApply(m) PROVE UNCHANGED <<batch, stray, Base>>
  BY <1>5, MigrationAssumption DEF StartApply, LockFree, Base
<1>6. ASSUME NEW m \in Migrators, ApplyRefused(m) PROVE UNCHANGED <<batch, stray, Base>>
  BY <1>6, MigrationAssumption DEF ApplyRefused, LockFree, Base
<1>7. ASSUME NEW m \in Migrators, NEW q \in Records, ChangeRecord(m, q) \/ RestoreMember(m, q)
      PROVE  UNCHANGED <<batch, stray, Base>>
  BY <1>0, <1>7 DEF ChangeRecord, RestoreMember, HolderInv, Active, Base
<1>8. ASSUME NEW m \in Migrators, FinishUndo(m) PROVE UNCHANGED <<batch, stray, Base>>
  <2>1. holder = m /\ pc[m] = "undoing" /\ todo = {}
    BY <1>0, <1>8 DEF FinishUndo, Finish, HolderInv, Active
  <2>2. \A q \in Records : store[q] = backup[q]
    BY <1>0, <2>1 DEF BackupInv, Active
  <2>3. store = backup
    BY <1>0, <2>2 DEF TypeOK, Stores
  <2>4. QED
    BY <1>8, <2>1, <2>3, MigrationAssumption DEF FinishUndo, Finish, Base
<1>9. ASSUME NEW m \in Migrators, Complete(m) \/ MigrationDies(m) PROVE FALSE
  BY <1>9 DEF Complete, Valid, Finish, MigrationDies
<1>10. QED
  BY <1>2, <1>3, <1>4, <1>5, <1>6, <1>7, <1>8, <1>9
     DEF Next, Applying, ClearDebris, StartPlan, PlanRecord, StartUndo, vars, migrating, planning

\* Every step leaves nothing legacy behind a complete migration.
LEMMA CompleteStep == IInv /\ [Next]_vars => CompleteInv'
<1> DEFINE Clean(s) == \A r \in Records : s[r] \notin Legacy
<1>0. SUFFICES ASSUME IInv, [Next]_vars,
                      NEW n \in Migrators, journal'[n] = "complete"
               PROVE  /\ Clean(store')
                      /\ batch' # NoBatch => Clean(batch'.before)
                      /\ holder' \in Migrators => Clean(backup')
  BY DEF CompleteInv
<1> DEFINE Goal == /\ Clean(store')
                   /\ batch' # NoBatch => Clean(batch'.before)
                   /\ holder' \in Migrators => Clean(backup')
<1>1. TypeOK /\ HolderInv /\ PlanInv /\ BackupInv /\ CompleteInv
  BY <1>0 DEF IInv
<1>2. ASSUME journal[n] = "complete"
      PROVE  /\ Clean(store)
             /\ batch # NoBatch => Clean(batch.before)
             /\ holder \in Migrators => Clean(backup)
  BY <1>1, <1>2 DEF CompleteInv
<1>3. ASSUME \/ \E rq \in Requests : BeginPut(rq)
             \/ \E q \in Records : ReplaceFile(q)
             \/ Commit \/ RollBack \/ PutDies \/ RecoverTransaction
      PROVE  Goal
  <2>1. holder' \notin Migrators /\ journal[n] = "complete"
    BY <1>0, <1>3, PutSteps
  <2>2. Clean(store) /\ (batch # NoBatch => Clean(batch.before))
    BY <1>2, <2>1
  <2>3. batch' # NoBatch => Clean(batch'.before)
    BY <1>0, <1>3, <2>2, PutSteps
  <2>4. CASE store' = store
    BY <2>1, <2>2, <2>3, <2>4
  <2>5. CASE batch # NoBatch /\ store' = Restored
    <3>1. Clean(store')
      BY <1>1, <2>2, <2>5, RestoredTyped
    <3>2. QED
      BY <2>1, <2>3, <3>1
  <2>6. ASSUME batch # NoBatch, NEW q \in Touched(batch.request),
               store' = [store EXCEPT ![q] = batch.request.writes[q]]
        PROVE  Goal
    <3>1. q \in Records /\ batch.request.writes[q] \notin Legacy /\ store \in Stores
      BY <1>1, <2>6, RestoredTyped, MigrationAssumption DEF Touched, TypeOK
    <3>2. \A r \in Records : store'[r] \in {store[r], batch.request.writes[q]}
      BY <2>6, <3>1 DEF Stores
    <3>3. Clean(store')
      BY <2>2, <3>1, <3>2
    <3>4. QED
      BY <2>1, <2>3, <3>3
  <2>7. QED
    BY <1>0, <1>3, <2>4, <2>5, <2>6, PutSteps
<1>4. ASSUME UNCHANGED <<store, batch, holder, journal, backup>> PROVE Goal
  BY <1>0, <1>2, <1>4
<1>5. ASSUME NEW m \in Migrators, StartApply(m) PROVE Goal
  <2>1. journal[n] = "complete" /\ UNCHANGED <<store, batch>> /\ backup' = store
    BY <1>0, <1>1, <1>5 DEF StartApply, TypeOK
  <2>2. QED
    BY <1>2, <2>1
<1>6. ASSUME NEW m \in Migrators, ApplyRefused(m) \/ MigrationDies(m) \/ FinishUndo(m) PROVE Goal
  <2>1. /\ journal[n] = "complete" /\ UNCHANGED <<store, batch>>
        /\ holder' = Nobody
    BY <1>0, <1>1, <1>6 DEF ApplyRefused, LockFree, MigrationDies, FinishUndo, Finish, TypeOK
  <2>2. QED
    BY <1>2, <2>1, MigrationAssumption
<1>7. ASSUME NEW m \in Migrators, NEW q \in Records, ChangeRecord(m, q) PROVE Goal
  <2>1. /\ UNCHANGED <<batch, holder, journal, backup>>
        /\ \A r \in Records : store'[r] = store[r] \/ store'[r] = Current[plan[m][q]]
    BY <1>1, <1>7 DEF ChangeRecord, TypeOK, Stores
  <2>2. Current[plan[m][q]] \notin Legacy
    BY <1>1, <1>7, Values0 DEF ChangeRecord, PlanInv
  <2>3. QED
    BY <1>0, <1>2, <2>1, <2>2
<1>8. ASSUME NEW m \in Migrators, NEW q \in Records, RestoreMember(m, q) PROVE Goal
  <2>1. /\ UNCHANGED <<batch, holder, journal, backup>>
        /\ \A r \in Records : store'[r] = store[r] \/ store'[r] = backup[r]
    BY <1>1, <1>8 DEF RestoreMember, TypeOK, Stores
  <2>2. holder \in Migrators
    BY <1>1, <1>8 DEF RestoreMember, HolderInv, Active
  <2>3. QED
    BY <1>0, <1>2, <2>1, <2>2
<1>9. ASSUME NEW m \in Migrators, Complete(m) PROVE Goal
  <2>1. store \in Legal /\ store' = store /\ batch' = NoBatch /\ holder' = Nobody
    BY <1>9 DEF Complete, Valid, RecordsOK, Finish
  <2>2. QED
    BY <2>1, MigrationAssumption
<1>10. Goal
  BY <1>0, <1>3, <1>4, <1>5, <1>6, <1>7, <1>8, <1>9
     DEF Next, Applying, ClearDebris, StartPlan, PlanRecord, StartUndo, vars, migrating, planning
<1>11. QED
  BY <1>10

-----------------------------------------------------------------------------
(* The theorems                                                            *)

\* The conjuncts together are inductive.
LEMMA IInvStep == IInv /\ [Next]_vars => IInv'
BY TypeStep, HolderStep, PlanStep, BackupStep, DriftStep, CompleteStep DEF IInv

\* The inductive invariant holds in every reachable state.
LEMMA Invariance == Spec => []IInv
BY IInvInit, IInvStep, PTL DEF Spec

\* Every state that batches and migrations reach has its type.
THEOREM MigrationsTypeCorrect == Spec => []TypeOK
BY Invariance, PTL DEF IInv

\* A migration that says it is complete leaves no legacy record behind, for good.
THEOREM CompleteMigrationsStay == Spec => []CompleteStays
<1>1. IInv => CompleteStays
  BY DEF IInv, CompleteInv, CompleteStays, IsLegacy
<1>2. QED
  BY <1>1, Invariance, PTL

\* Only a migration that was cut short makes an open transaction drift.
THEOREM DriftHasACause == Spec => []DriftIsExplained
<1>1. ASSUME IInv, Interrupted, Drifted, ~stray PROVE FALSE
  <2>1. PICK r \in Touched(batch.request) :
          store[r] \notin {batch.before[r], batch.request.writes[r]}
    BY <1>1 DEF Drifted
  <2>2. batch # NoBatch /\ Base = store
    BY <1>1, MigrationAssumption DEF Interrupted, LockFree, Base
  <2>3. QED
    BY <1>1, <2>1, <2>2 DEF IInv, DriftInv
<1>2. IInv => DriftIsExplained
  BY <1>1 DEF DriftIsExplained, IInv, TypeOK
<1>3. QED
  BY <1>2, Invariance, PTL

\* No step but the commit of a batch changes what the store says.
LEMMA MeaningStep == IInv /\ [Next]_vars => [~Commit => Meaning' = Meaning]_vars
<1> SUFFICES ASSUME IInv, [Next]_vars, ~Commit PROVE Meaning' = Meaning
  BY DEF vars
<1> DEFINE Says(s, b, r) ==
             Upgrade(IF b # NoBatch /\ r \in Touched(b.request) THEN b.before[r] ELSE s[r])
<1>0. TypeOK /\ HolderInv /\ PlanInv /\ BackupInv
  BY DEF IInv
<1>1. SUFFICES ASSUME NEW r \in Records PROVE Says(store', batch', r) = Says(store, batch, r)
  BY DEF Meaning, Upgrade
<1>2. ASSUME \/ \E rq \in Requests : BeginPut(rq)
             \/ \E q \in Records : ReplaceFile(q)
             \/ RollBack \/ PutDies \/ RecoverTransaction
      PROVE  Says(store', batch', r) = Says(store, batch, r)
  <2>1. CASE store' = store /\ batch' = batch
    BY <2>1
  <2>2. CASE batch = NoBatch /\ batch' # NoBatch /\ batch'.before = store /\ store' = store
    BY <2>2
  <2>3. CASE batch # NoBatch /\ store' = Restored /\ batch' \in {batch, NoBatch}
    BY <1>0, <2>3, RestoredTyped
  <2>4. ASSUME batch # NoBatch, batch' = batch, NEW q \in Touched(batch.request),
               store' = [store EXCEPT ![q] = batch.request.writes[q]]
        PROVE  Says(store', batch', r) = Says(store, batch, r)
    BY <1>0, <2>4 DEF Touched, TypeOK, Stores
  <2>5. QED
    BY <1>2, <2>1, <2>2, <2>3, <2>4, PutSteps
<1>3. CASE UNCHANGED <<store, batch>>
  BY <1>3
<1>4. ASSUME NEW m \in Migrators, NEW q \in Records, ChangeRecord(m, q)
      PROVE  Says(store', batch', r) = Says(store, batch, r)
  <2>1. plan[m][q] \in Legacy /\ Current[plan[m][q]] \notin Legacy
    BY <1>0, <1>4, Values0 DEF ChangeRecord, PlanInv
  <2>2. Upgrade(store'[r]) = Upgrade(store[r])
    BY <1>0, <1>4, <2>1 DEF ChangeRecord, Upgrade, TypeOK, Stores
  <2>3. batch' = batch
    BY <1>4 DEF ChangeRecord
  <2>4. QED
    BY <2>2, <2>3
<1>5. ASSUME NEW m \in Migrators, NEW q \in Records, RestoreMember(m, q)
      PROVE  Says(store', batch', r) = Says(store, batch, r)
  <2>1. \/ store[q] = backup[q]
        \/ backup[q] \in Legacy /\ store[q] = Current[backup[q]]
    BY <1>0, <1>5 DEF RestoreMember, BackupInv, Active
  <2>2. Upgrade(backup[q]) = Upgrade(store[q])
    BY <2>1, Values0 DEF Upgrade
  <2>3. store'[r] = IF r = q THEN backup[q] ELSE store[r]
    BY <1>0, <1>5 DEF RestoreMember, TypeOK, Stores
  <2>4. Upgrade(store'[r]) = Upgrade(store[r])
    BY <2>2, <2>3
  <2>5. batch' = batch
    BY <1>5 DEF RestoreMember
  <2>6. QED
    BY <2>4, <2>5
<1>6. QED
  BY <1>2, <1>3, <1>4, <1>5
     DEF Next, Applying, ClearDebris, StartPlan, PlanRecord, StartApply, ApplyRefused, StartUndo,
         FinishUndo, Complete, Finish, MigrationDies, vars

\* Migrations change no meaning, however they end.
THEOREM MigrationsKeepMeaning == Spec => OnlyBatchesChangeMeaning
BY Invariance, MeaningStep, PTL DEF Spec, OnlyBatchesChangeMeaning
=============================================================================
