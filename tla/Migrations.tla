------------------------------ MODULE Migrations ------------------------------
(***************************************************************************)
(* Migrations of legacy facts (core/migrations.py) with the backup they    *)
(* fall back on (core/backup.py), beside batches of put_records that may   *)
(* be cut short.  A migration is planned without the lock and applied      *)
(* under it: backup, journal, a drift check before each record, the audit, *)
(* and on any error the whole backup written back.  A batch is as in       *)
(* RecordTransactions, of which only the open journal is kept here: a      *)
(* rollback that stops half-way leaves what a batch that stops half-way    *)
(* leaves.                                                                 *)
(***************************************************************************)
EXTENDS RecordBatches, Naturals

CONSTANTS
  Legacy,     \* values of schema version 0.1 or none
  Current,    \* _legacy_fact_to_v1, the current form of each legacy value
  Migrators,  \* operators that run migrate
  Putter,     \* a command that calls put_records
  Nobody,
  NoBatch,
  MaxPuts,    \* bound on batches, most of which a legacy store refuses
  MaxFaults   \* bound on failing calls and dying processes

BatchType == [request : Requests, before : Stores]
Steps == {"idle", "planning", "planned", "changing", "undoing"}
JournalStatuses == {"none", "applying", "rolled_back", "complete"}

ASSUME MigrationAssumption ==
  /\ Legacy \subseteq Values
  /\ Current \in [Legacy -> Values \ Legacy]
  /\ \A rq \in Requests, r \in Records : rq.writes[r] \notin Legacy
  /\ \A s \in Legal, r \in Records : s[r] \notin Legacy
  /\ Putter \notin Migrators /\ Nobody \notin Migrators \cup {Putter}
  /\ NoBatch \notin BatchType
  /\ MaxPuts \in Nat /\ MaxFaults \in Nat

VARIABLES
  store,   \* the records
  debris,  \* whether a stray temporary file lies among them
  batch,   \* the open transaction: what it writes and what it saved
  holder,  \* who is in the critical section
  pc,      \* where each migrate command stands
  unread,  \* the records it has yet to plan
  plan,    \* for each record it will change, the value it planned to find
  journal, \* the status in the journal of its last migration
  todo,    \* the records that the running migration has yet to write
  backup,  \* the members of the running migration's backup
  stray,   \* whether there is a journal of a migration that was cut short
  puts,    \* batches so far
  faults   \* faults so far

planning == <<pc, unread, plan>>
migrating == <<planning, journal, todo, backup, stray>>
bounds == <<puts, faults>>
vars == <<store, debris, batch, holder, migrating, bounds>>

TypeOK ==
  /\ store \in Stores
  /\ debris \in BOOLEAN /\ stray \in BOOLEAN
  /\ batch \in BatchType \cup {NoBatch}
  /\ holder \in Migrators \cup {Putter, Nobody}
  /\ pc \in [Migrators -> Steps]
  /\ unread \in [Migrators -> SUBSET Records]
  /\ plan \in [Migrators -> Stores]
  /\ journal \in [Migrators -> JournalStatuses]
  /\ todo \subseteq Records
  /\ backup \in Stores
  /\ puts \in 0..MaxPuts /\ faults \in 0..MaxFaults

Nothing == [r \in Records |-> Absent]
IsLegacy(r) == store[r] \in Legacy
Upgrade(v) == IF v \in Legacy THEN Current[v] ELSE v

\* A store of the older version, sound but for its version, or a current one.
Init ==
  /\ store \in {s \in Stores : [r \in Records |-> Upgrade(s[r])] \in Legal}
  /\ debris = FALSE /\ stray = FALSE
  /\ batch = NoBatch /\ holder = Nobody
  /\ pc = [m \in Migrators |-> "idle"]
  /\ unread = [m \in Migrators |-> {}]
  /\ plan = [m \in Migrators |-> Nothing]
  /\ journal = [m \in Migrators |-> "none"]
  /\ todo = {} /\ backup = Nothing
  /\ puts = 0 /\ faults = 0

\* A command that ends takes its plan with it.
Forget(m) ==
  /\ plan' = [plan EXCEPT ![m] = Nothing]
  /\ todo' = {} /\ backup' = Nothing

Fault == faults < MaxFaults /\ faults' = faults + 1
Go(m, step) == pc' = [pc EXCEPT ![m] = step]
LockFree == holder = Nobody
RecordsOK == store \in Legal /\ ~debris

-----------------------------------------------------------------------------
(* put_records and recover-transaction                                     *)

BeginPut(rq) ==
  /\ LockFree /\ batch = NoBatch
  /\ puts < MaxPuts /\ puts' = puts + 1
  /\ \A r \in Touched(rq) :
       /\ store[r] = Absent \/ rq.overwrite
       /\ rq.guarded => store[r] = rq.expected[r]
  /\ batch' = [request |-> rq, before |-> store]
  /\ holder' = Putter
  /\ UNCHANGED <<store, debris, migrating, faults>>

Putting == holder = Putter

ReplaceFile(r) ==
  /\ Putting
  /\ r \in Touched(batch.request) /\ store[r] # batch.request.writes[r]
  /\ store' = [store EXCEPT ![r] = batch.request.writes[r]]
  /\ UNCHANGED <<debris, batch, holder, migrating, bounds>>

Written == \A r \in Touched(batch.request) : store[r] = batch.request.writes[r]

Commit ==
  /\ Putting /\ Written /\ RecordsOK
  /\ batch' = NoBatch /\ holder' = Nobody
  /\ UNCHANGED <<store, debris, migrating, bounds>>

Restored ==
  [r \in Records |-> IF r \in Touched(batch.request) THEN batch.before[r] ELSE store[r]]

\* The audit refuses the batch, or a call fails.
RollBack ==
  /\ Putting
  /\ \/ Written /\ ~RecordsOK /\ UNCHANGED faults
     \/ Fault
  /\ store' = Restored
  /\ batch' = NoBatch /\ holder' = Nobody
  /\ UNCHANGED <<debris, migrating, puts>>

\* The process dies, perhaps while it writes a temporary file.
PutDies ==
  /\ Putting /\ Fault
  /\ holder' = Nobody
  /\ debris' \in {debris, TRUE}
  /\ UNCHANGED <<store, batch, migrating, puts>>

Interrupted == LockFree /\ batch # NoBatch

\* A record is neither as the batch found it nor as it was to leave it.
Drifted ==
  \E r \in Touched(batch.request) : store[r] \notin {batch.before[r], batch.request.writes[r]}

\* recover-transaction writes back what was saved, and closes the journal only if
\* the audit then accepts the store.
RecoverTransaction ==
  /\ Interrupted /\ ~Drifted
  /\ store' = Restored
  /\ batch' = IF Restored \in Legal /\ ~debris THEN NoBatch ELSE batch
  /\ UNCHANGED <<debris, holder, migrating, bounds>>

\* The operator removes the stray file.
ClearDebris ==
  /\ LockFree /\ debris
  /\ debris' = FALSE
  /\ UNCHANGED <<store, batch, holder, migrating, bounds>>

-----------------------------------------------------------------------------
(* plan_migration                                                          *)

StartPlan(m) ==
  /\ pc[m] = "idle" /\ ~debris
  /\ Go(m, "planning")
  /\ unread' = [unread EXCEPT ![m] = Records]
  /\ UNCHANGED <<store, debris, batch, holder, plan, journal, todo, backup, stray, bounds>>

\* The files are read one by one, without the lock, and those of the current
\* version are left out.  The mutant takes them for a version it does not know.
PlanRecord_Strict(m, r) ==
  /\ pc[m] = "planning" /\ r \in unread[m]
  /\ unread' = [unread EXCEPT ![m] = @ \ {r}]
  /\ IsLegacy(r) \/ store[r] = Absent
  /\ plan' = [plan EXCEPT ![m][r] = store[r]]
  /\ IF unread[m] = {r} THEN Go(m, "planned") ELSE UNCHANGED pc
  /\ UNCHANGED <<store, debris, batch, holder, journal, todo, backup, stray, bounds>>

PlanRecord(m, r) ==
  /\ pc[m] = "planning" /\ r \in unread[m]
  /\ unread' = [unread EXCEPT ![m] = @ \ {r}]
  /\ plan' = IF IsLegacy(r) THEN [plan EXCEPT ![m][r] = store[r]] ELSE plan
  /\ IF unread[m] = {r} THEN Go(m, "planned") ELSE UNCHANGED pc
  /\ UNCHANGED <<store, debris, batch, holder, journal, todo, backup, stray, bounds>>

-----------------------------------------------------------------------------
(* apply_migration                                                         *)

\* create_backup, and the journal that names it.
StartApply(m) ==
  /\ pc[m] = "planned" /\ LockFree /\ ~debris
  /\ Go(m, "changing")
  /\ holder' = m
  /\ backup' = store
  /\ todo' = {r \in Records : plan[m][r] # Absent}
  /\ journal' = [journal EXCEPT ![m] = "applying"]
  /\ UNCHANGED <<store, debris, batch, unread, plan, stray, bounds>>

\* create_backup refuses a store with a stray file.
ApplyRefused(m) ==
  /\ pc[m] = "planned" /\ LockFree /\ debris
  /\ Go(m, "idle")
  /\ Forget(m)
  /\ UNCHANGED <<store, debris, batch, holder, unread, journal, stray, bounds>>

\* The mutant does not look whether the record is still as it was planned.
ChangeRecord_Blind(m, r) ==
  /\ pc[m] = "changing" /\ r \in todo
  /\ store' = [store EXCEPT ![r] = Current[plan[m][r]]]
  /\ todo' = todo \ {r}
  /\ UNCHANGED <<debris, batch, holder, planning, journal, backup, stray, bounds>>

ChangeRecord(m, r) ==
  /\ pc[m] = "changing" /\ r \in todo
  /\ store[r] = plan[m][r]
  /\ store' = [store EXCEPT ![r] = Current[plan[m][r]]]
  /\ todo' = todo \ {r}
  /\ UNCHANGED <<debris, batch, holder, planning, journal, backup, stray, bounds>>

\* validate_after is the whole audit, so an open transaction fails it.  The
\* mutant audits the records alone.
Valid_RecordsOnly == RecordsOK
Valid == RecordsOK /\ batch = NoBatch

\* A record has drifted, a call fails, or the audit refuses the result: the
\* members of the backup are to be written back.  The mutant does so only if a
\* change has failed.
StartUndo_Unaudited(m) ==
  /\ pc[m] = "changing"
  /\ \/ (\E r \in todo : store[r] # plan[m][r]) /\ UNCHANGED faults
     \/ todo = {} /\ ~Valid /\ UNCHANGED faults
     \/ Fault
  /\ Go(m, "undoing")
  /\ todo' = IF todo = {} THEN {} ELSE {r \in Records : backup[r] # Absent}
  /\ UNCHANGED <<store, debris, batch, holder, unread, plan, journal, backup, stray, puts>>

StartUndo(m) ==
  /\ pc[m] = "changing"
  /\ \/ (\E r \in todo : store[r] # plan[m][r]) /\ UNCHANGED faults
     \/ todo = {} /\ ~Valid /\ UNCHANGED faults
     \/ Fault
  /\ Go(m, "undoing")
  /\ todo' = {r \in Records : backup[r] # Absent}
  /\ UNCHANGED <<store, debris, batch, holder, unread, plan, journal, backup, stray, puts>>

\* restore_backup_over_project.
RestoreMember(m, r) ==
  /\ pc[m] = "undoing" /\ r \in todo
  /\ store' = [store EXCEPT ![r] = backup[r]]
  /\ todo' = todo \ {r}
  /\ UNCHANGED <<debris, batch, holder, planning, journal, backup, stray, bounds>>

Finish(m, status) ==
  /\ todo = {}
  /\ journal' = [journal EXCEPT ![m] = status]
  /\ Go(m, "idle")
  /\ holder' = Nobody
  /\ Forget(m)
  /\ UNCHANGED <<store, debris, batch, unread, stray, bounds>>

FinishUndo(m) == pc[m] = "undoing" /\ Finish(m, "rolled_back")
Complete(m) == pc[m] = "changing" /\ Valid /\ Finish(m, "complete")

\* The process dies, or a call fails that nothing makes up for: one of the
\* restore, or the last write of the journal.
MigrationDies(m) ==
  /\ pc[m] \in {"changing", "undoing"} /\ Fault
  /\ Go(m, "idle")
  /\ holder' = Nobody /\ stray' = TRUE
  /\ debris' \in {debris, TRUE}
  /\ Forget(m)
  /\ UNCHANGED <<store, batch, unread, journal, puts>>

Applying(m) ==
  \/ \E r \in Records : ChangeRecord(m, r) \/ RestoreMember(m, r)
  \/ StartUndo(m) \/ FinishUndo(m) \/ Complete(m)

Next ==
  \/ \E rq \in Requests : BeginPut(rq)
  \/ \E r \in Records : ReplaceFile(r)
  \/ Commit \/ RollBack \/ PutDies
  \/ RecoverTransaction \/ ClearDebris
  \/ \E m \in Migrators :
       \/ StartPlan(m) \/ \E r \in Records : PlanRecord(m, r)
       \/ StartApply(m) \/ ApplyRefused(m) \/ Applying(m) \/ MigrationDies(m)

Spec == Init /\ [][Next]_vars

(***************************************************************************)
(* Commands run on until they die.  The operator recovers a transaction    *)
(* that the audit reports, removes a stray file, and runs migrate as long  *)
(* as there are legacy records.                                            *)
(***************************************************************************)
Fairness ==
  /\ WF_vars((\E r \in Records : ReplaceFile(r)) \/ Commit \/ RollBack)
  /\ SF_vars(RecoverTransaction) /\ SF_vars(ClearDebris)
  /\ \A m \in Migrators :
       /\ SF_vars((\E r \in Records : IsLegacy(r)) /\ StartPlan(m))
       /\ WF_vars(\E r \in Records : PlanRecord(m, r))
       /\ SF_vars(StartApply(m) \/ ApplyRefused(m))
       /\ WF_vars(Applying(m))

FairSpec == Spec /\ Fairness

-----------------------------------------------------------------------------
(* Properties                                                              *)

\* A migration that says it is complete leaves no legacy record behind, then and
\* later: no transaction that was open before it brings one back.
CompleteStays ==
  \A m \in Migrators : journal[m] = "complete" => \A r \in Records : ~IsLegacy(r)

\* What the store says, whatever the version it says it in, with an open
\* transaction undone.
Meaning == [r \in Records |->
  Upgrade(IF batch # NoBatch /\ r \in Touched(batch.request) THEN batch.before[r] ELSE store[r])]

\* Migrations, complete, undone or cut short, lose and invent nothing: only a
\* batch that commits changes what the store says.
OnlyBatchesChangeMeaning == [][~Commit => Meaning' = Meaning]_vars

\* recover-transaction finds external drift only where a migration was cut short.
DriftIsExplained == Interrupted /\ Drifted => stray

\* Migration gets done in the end, after whatever failures and deaths, unless a
\* batch is cut short on a legacy store.  Then neither command helps: the
\* transaction's audit refuses the legacy records, and migration's the transaction.
MigrationConverges ==
  (\E r \in Records : IsLegacy(r)) ~>
    (Interrupted \/ \A r \in Records : ~IsLegacy(r))
=============================================================================
