-------------------------- MODULE RecordTransactions --------------------------
(***************************************************************************)
(* Record transactions: put_records and recover_record_transaction of      *)
(* core/project.py over the journals of core/transactions.py.              *)
(*                                                                         *)
(* The writer lock admits one command at a time (WriterLock models how),   *)
(* so one program counter serves for whichever command holds it: the       *)
(* commands still interleave, through the files they leave for each other. *)
(* Every file replacement is a step.  Between any two of them a call may   *)
(* fail, and the process may die and leave the lock stale.                 *)
(***************************************************************************)
EXTENDS RecordBatches, Naturals, FiniteSets

CONSTANTS
  Keys,       \* transaction ids derived from idempotency keys (IDEM-...)
  FreshIds,   \* random transaction ids, each drawn at most once (TXN-...)
  NoId,       \* "no transaction in progress"
  MaxFaults   \* bound on failed calls, crashes and cleared debris

Ids == Keys \cup FreshIds

ASSUME TransactionAssumption ==
  /\ Keys \cap FreshIds = {}
  /\ NoId \notin Ids
  /\ MaxFaults \in Nat

VARIABLES
  store,       \* the record files
  journal,     \* <id>.json of the transaction store
  payloadDir,  \* the ids that have a payload directory
  evidence,    \* the records whose before/after payloads are saved, by id
  debris,      \* directories with a temporary file that a dead process left
  lock,        \* the writer lock
  pc,          \* where the command that holds the lock stands
  cur,         \* its transaction id
  req,         \* its request
  snap,        \* the record files as it read them
  left,        \* the records its current loop has still to visit
  acked,       \* ids for which a put_records call has returned to its caller
  faults       \* faults so far

files == <<store, journal, payloadDir, evidence>>
memory == <<cur, req, snap, left>>
vars == <<store, journal, payloadDir, evidence, debris, lock, pc, cur, req,
          snap, left, acked, faults>>

OpenStatuses == {"preparing", "prepared", "applying"}
Statuses == OpenStatuses \cup {"none", "committed", "rolled_back"}
NoStore == [r \in Records |-> Absent]
Journals == [status : Statuses, request : Requests \cup {NoRequest}, before : Stores]
NoJournal == [status |-> "none", request |-> NoRequest, before |-> NoStore]

PutSteps == {"check", "journal", "mkdir", "save", "prepared", "apply", "commit"}
RollbackSteps == {"rollback", "rollback_broken"}
RecoverySteps == {"recheck", "restore", "reaudit"}
Steps == PutSteps \cup RollbackSteps \cup RecoverySteps
         \cup {"idle", "cleanup_ok", "cleanup", "release_ok", "release"}

TypeOK ==
  /\ store \in Stores
  /\ journal \in [Ids -> Journals]
  /\ payloadDir \subseteq Ids
  /\ evidence \in [Ids -> SUBSET Records]
  /\ debris \subseteq {"records", "transactions"}
  /\ lock \in {"free", "held", "stale"}
  /\ pc \in Steps
  /\ cur \in Ids \cup {NoId}
  /\ req \in Requests \cup {NoRequest}
  /\ snap \in Stores
  /\ left \subseteq Records
  /\ acked \subseteq Ids
  /\ faults \in 0..MaxFaults

Init ==
  /\ store \in Legal
  /\ journal = [t \in Ids |-> NoJournal]
  /\ payloadDir = {}
  /\ evidence = [t \in Ids |-> {}]
  /\ debris = {}
  /\ lock = "free" /\ pc = "idle"
  /\ cur = NoId /\ req = NoRequest /\ snap = NoStore /\ left = {}
  /\ acked = {}
  /\ faults = 0

-----------------------------------------------------------------------------
(* What the store looks like to the code                                   *)

IsOpen(t) == journal[t].status \in OpenStatuses

(***************************************************************************)
(* The errors of inspect_transaction_store: a stray file, an open          *)
(* transaction other than the active one, one without its payloads,        *)
(* payloads without a journal.                                             *)
(***************************************************************************)
StoreNeedsRecovery(active) ==
  \/ "transactions" \in debris
  \/ \E t \in Ids : IsOpen(t) /\ t # active
  \/ \E t \in Ids \ payloadDir : journal[t].status \in {"prepared", "applying"}
  \/ \E t \in payloadDir : journal[t].status = "none"

\* audit_repository: Legal stands for the record invariants, debris in a record
\* directory is a layout error.
AuditPasses(active) ==
  /\ store \in Legal
  /\ "records" \notin debris
  /\ ~StoreNeedsRecovery(active)

\* What put_records refuses of the records it would replace.  The mutant drops
\* the optimistic revision check.
Refused_NoRevision(rq) ==
  \E r \in Touched(rq) : store[r] # Absent /\ ~rq.overwrite

Refused(rq) ==
  \E r \in Touched(rq) :
    \/ store[r] # Absent /\ ~rq.overwrite
    \/ rq.guarded /\ store[r] # rq.expected[r]

\* A committed transaction's results are still in place (_idempotent_replay).
ResultsInPlace(t) ==
  \A r \in Touched(journal[t].request) : store[r] = journal[t].request.writes[r]

-----------------------------------------------------------------------------
(* put_records                                                             *)

\* A step of the command that holds the lock.
Advance(from, to) ==
  /\ pc = from
  /\ pc' = to
  /\ UNCHANGED <<lock, acked, faults, debris>>

AcquireForPut(t, rq) ==
  /\ lock = "free"
  /\ t \in FreshIds => journal[t].status = "none"
  /\ lock' = "held" /\ pc' = "check"
  /\ cur' = t /\ req' = rq
  /\ UNCHANGED <<files, snap, left, debris, acked, faults>>

\* The id is known: a committed transaction of the same request is answered
\* again while its results are in place; anything else is refused.
Replay ==
  /\ Advance("check",
       IF journal[cur].request = req /\ journal[cur].status = "committed"
          /\ ResultsInPlace(cur)
       THEN "release_ok" ELSE "release")
  /\ journal[cur].status # "none" \/ cur \in payloadDir
  /\ UNCHANGED <<files, memory>>

IsNewId == journal[cur].status = "none" /\ cur \notin payloadDir

Refuse ==
  /\ Advance("check", "release")
  /\ IsNewId
  /\ StoreNeedsRecovery(NoId) \/ Refused(req)
  /\ UNCHANGED <<files, memory>>

Accept ==
  /\ Advance("check", "journal")
  /\ IsNewId
  /\ ~StoreNeedsRecovery(NoId) /\ ~Refused(req)
  /\ snap' = store
  /\ UNCHANGED <<files, cur, req, left>>

Journaled(status) ==
  journal' = [journal EXCEPT ![cur] =
                [status |-> status, request |-> req, before |-> snap]]

WritePreparing ==
  /\ Advance("journal", "mkdir")
  /\ Journaled("preparing")
  /\ UNCHANGED <<store, payloadDir, evidence, memory>>

MakePayloadDir ==
  /\ Advance("mkdir", "save")
  /\ payloadDir' = payloadDir \cup {cur}
  /\ left' = Touched(req)
  /\ UNCHANGED <<store, journal, evidence, cur, req, snap>>

SavePayloads(r) ==
  /\ Advance("save", "save")
  /\ r \in left
  /\ left' = left \ {r}
  /\ evidence' = [evidence EXCEPT ![cur] = @ \cup {r}]
  /\ UNCHANGED <<store, journal, payloadDir, cur, req, snap>>

\* A mutant: the journal is marked before every payload is saved.
WritePrepared_Early ==
  /\ Advance("save", "prepared")
  /\ Journaled("prepared")
  /\ UNCHANGED <<store, payloadDir, evidence, memory>>

WritePrepared ==
  /\ Advance("save", "prepared")
  /\ left = {}
  /\ Journaled("prepared")
  /\ UNCHANGED <<store, payloadDir, evidence, memory>>

WriteApplying ==
  /\ Advance("prepared", "apply")
  /\ Journaled("applying")
  /\ left' = Touched(req)
  /\ UNCHANGED <<store, payloadDir, evidence, cur, req, snap>>

ApplyRecord(r) ==
  /\ Advance("apply", "apply")
  /\ r \in left
  /\ left' = left \ {r}
  /\ store' = [store EXCEPT ![r] = req.writes[r]]
  /\ UNCHANGED <<journal, payloadDir, evidence, cur, req, snap>>

\* A mutant: the batch is audited before every record is in place.
AuditBatch_Early ==
  /\ Advance("apply", "commit")
  /\ AuditPasses(cur)
  /\ UNCHANGED <<files, memory>>

AuditBatch ==
  /\ Advance("apply", "commit")
  /\ left = {}
  /\ AuditPasses(cur)
  /\ UNCHANGED <<files, memory>>

WriteCommitted ==
  /\ Advance("commit", "cleanup_ok")
  /\ Journaled("committed")
  /\ UNCHANGED <<store, payloadDir, evidence, memory>>

-----------------------------------------------------------------------------
(* The "except BaseException" of put_records                               *)

Fault == faults < MaxFaults /\ faults' = faults + 1

AuditRejects ==
  /\ Advance("apply", "rollback")
  /\ left = {}
  /\ ~AuditPasses(cur)
  /\ left' = Touched(req)
  /\ UNCHANGED <<files, cur, req, snap>>

\* Any call between the first journal write and the commit fails or is
\* interrupted.
PutFails ==
  /\ Fault
  /\ pc \in PutSteps \ {"check"}
  /\ pc' = "rollback"
  /\ left' = Touched(req)
  /\ UNCHANGED <<files, debris, lock, acked, cur, req, snap>>

RestoreOriginal(r) ==
  /\ pc \in RollbackSteps
  /\ Advance(pc, pc)
  /\ r \in left
  /\ left' = left \ {r}
  /\ store' = [store EXCEPT ![r] = snap[r]]
  /\ UNCHANGED <<journal, payloadDir, evidence, cur, req, snap>>

\* The loop goes on after a failed restore, but the journal stays open.
RestoreFails(r) ==
  /\ Fault
  /\ r \in left
  /\ left' = left \ {r}
  /\ pc \in RollbackSteps
  /\ pc' = "rollback_broken"
  /\ UNCHANGED <<files, debris, lock, acked, cur, req, snap>>

WriteRolledBack ==
  /\ Advance("rollback", "cleanup")
  /\ left = {}
  /\ Journaled("rolled_back")
  /\ UNCHANGED <<store, payloadDir, evidence, memory>>

\* A restore failed, the journal cannot be closed, or a second interrupt cuts
\* the rollback short: the call raises with its journal still open.
LeaveOpen ==
  /\ \/ pc = "rollback_broken" /\ left = {} /\ UNCHANGED faults
     \/ pc \in RollbackSteps /\ Fault
  /\ pc' = "release"
  /\ UNCHANGED <<files, memory, debris, lock, acked>>

-----------------------------------------------------------------------------
(* _cleanup_transaction_payloads, and leaving the lock                     *)

\* A mutant: the exception that caused the rollback is not raised again.
After_Swallowed(step) == "release_ok"

After(step) == IF step = "cleanup_ok" THEN "release_ok" ELSE "release"

CleanUp ==
  /\ pc \in {"cleanup_ok", "cleanup"}
  /\ Advance(pc, After(pc))
  /\ evidence' = [evidence EXCEPT ![cur] = {}]
  /\ payloadDir' = payloadDir \ {cur}
  /\ UNCHANGED <<store, journal, memory>>

\* An OSError part of the way through is passed over.
CleanUpFails ==
  /\ Fault
  /\ pc \in {"cleanup_ok", "cleanup"}
  /\ \E kept \in SUBSET evidence[cur] : evidence' = [evidence EXCEPT ![cur] = kept]
  /\ pc' = After(pc)
  /\ UNCHANGED <<store, journal, payloadDir, memory, debris, lock, acked>>

Forget == cur' = NoId /\ req' = NoRequest /\ snap' = NoStore /\ left' = {}

\* The lock is released before the caller sees the result.
Release ==
  /\ pc \in {"release_ok", "release"}
  /\ acked' = IF pc = "release_ok" THEN acked \cup {cur} ELSE acked
  /\ lock' = "free" /\ pc' = "idle"
  /\ Forget
  /\ UNCHANGED <<files, debris, faults>>

-----------------------------------------------------------------------------
(* recover_record_transaction                                              *)

\* The operator quotes the request digest that transaction-status shows.
AcquireForRecovery(t) ==
  /\ lock = "free"
  /\ IsOpen(t)
  /\ lock' = "held" /\ pc' = "recheck"
  /\ cur' = t
  /\ UNCHANGED <<files, req, snap, left, debris, acked, faults>>

\* A mutant: recovery that takes any interrupted record to be unwritten.
Drifted_BeforeOnly(t) ==
  LET j == journal[t] IN
  \E r \in Touched(j.request) : store[r] # j.before[r]

\* A record is neither as it was nor, once applying may have begun, as the
\* batch would leave it.
Drifted(t) ==
  LET j == journal[t]
      allowed(r) == IF j.status = "preparing" THEN {j.before[r]}
                    ELSE {j.before[r], j.request.writes[r]}
  IN \E r \in Touched(j.request) : store[r] \notin allowed(r)

EvidenceMissing(t) ==
  /\ journal[t].status # "preparing"
  /\ \E r \in Touched(journal[t].request) :
       journal[t].before[r] # Absent /\ r \notin evidence[t]

\* Drift or missing evidence refuses the recovery.  A "preparing" batch has
\* replaced nothing yet.
CheckRecovery ==
  /\ Advance("recheck",
       IF Drifted(cur) \/ EvidenceMissing(cur) THEN "release" ELSE "restore")
  /\ req' = journal[cur].request
  /\ snap' = journal[cur].before
  /\ left' = IF journal[cur].status = "preparing" THEN {}
             ELSE Touched(journal[cur].request)
  /\ UNCHANGED <<files, cur>>

RestoreFromEvidence(r) ==
  /\ Advance("restore", "restore")
  /\ r \in left
  /\ left' = left \ {r}
  /\ store' = [store EXCEPT ![r] = snap[r]]
  /\ UNCHANGED <<journal, payloadDir, evidence, cur, req, snap>>

AuditRecovery ==
  /\ Advance("restore", IF AuditPasses(cur) THEN "reaudit" ELSE "release")
  /\ left = {}
  /\ UNCHANGED <<files, memory>>

WriteRecovered ==
  /\ Advance("reaudit", "cleanup")
  /\ Journaled("rolled_back")
  /\ UNCHANGED <<store, payloadDir, evidence, memory>>

RecoveryFails ==
  /\ Fault
  /\ pc \in RecoverySteps
  /\ pc' = "release"
  /\ UNCHANGED <<files, memory, debris, lock, acked>>

-----------------------------------------------------------------------------
(* Crashes, and what operators do about them                               *)

\* The directory of the file that is being replaced at a step.
WritesIn(step) ==
  CASE step \in {"journal", "save", "prepared", "commit", "rollback", "reaudit"}
         -> {"transactions"}
    [] step \in {"apply", "rollback_broken", "restore"} -> {"records"}
    [] OTHER -> {}

\* The process dies: its memory and its lock's owner are gone.  Inside
\* atomic_write_bytes it can leave a temporary sibling of the file behind.
Crash ==
  /\ Fault
  /\ pc # "idle"
  /\ lock' = "stale" /\ pc' = "idle"
  /\ debris' \in {debris, debris \cup WritesIn(pc)}
  /\ Forget
  /\ UNCHANGED <<files, acked>>

\* recover-lock.
RecoverLock ==
  /\ lock = "stale"
  /\ lock' = "free"
  /\ UNCHANGED <<files, memory, debris, pc, acked, faults>>

\* An operator removes the temporary files that the audit names.
ClearDebris ==
  /\ lock # "held"
  /\ debris # {}
  /\ debris' = {}
  /\ UNCHANGED <<files, memory, lock, pc, acked, faults>>

-----------------------------------------------------------------------------
PutProgress ==
  \/ Replay \/ Refuse \/ Accept
  \/ WritePreparing \/ MakePayloadDir \/ WritePrepared \/ WriteApplying
  \/ AuditBatch \/ AuditRejects \/ WriteCommitted
  \/ \E r \in Records : SavePayloads(r) \/ ApplyRecord(r)

RollbackProgress ==
  \/ WriteRolledBack \/ LeaveOpen
  \/ \E r \in Records : RestoreOriginal(r)

RecoveryProgress ==
  \/ CheckRecovery \/ AuditRecovery \/ WriteRecovered
  \/ \E r \in Records : RestoreFromEvidence(r)

Progress == PutProgress \/ RollbackProgress \/ RecoveryProgress \/ CleanUp \/ Release

Failure ==
  \/ PutFails \/ CleanUpFails \/ RecoveryFails \/ Crash
  \/ \E r \in Records : RestoreFails(r)

Next ==
  \/ \E t \in Ids, rq \in Requests : AcquireForPut(t, rq)
  \/ \E t \in Ids : AcquireForRecovery(t)
  \/ Progress \/ Failure \/ RecoverLock \/ ClearDebris

Spec == Init /\ [][Next]_vars

(***************************************************************************)
(* A live command runs on to its release.  Operators recover a stale lock  *)
(* and clear debris, and repeat recover-transaction, whose acquisition     *)
(* polls, until it gets the lock between the writers.                      *)
(***************************************************************************)
Fairness ==
  /\ WF_vars(Progress)
  /\ WF_vars(RecoverLock)
  /\ SF_vars(ClearDebris)
  /\ \A t \in Ids : SF_vars(AcquireForRecovery(t))

FairSpec == Spec /\ Fairness

-----------------------------------------------------------------------------
(* Properties                                                              *)

\* A transaction is open on disk for at most one batch at a time: put_records
\* refuses to start another before the open one is recovered.
OneOpenTransaction == \A s, t \in Ids : IsOpen(s) /\ IsOpen(t) => s = t

\* An open transaction can be rolled back from its journal and payloads alone:
\* recover-transaction never refuses one for drift or for missing evidence,
\* whatever step its process died at.
OpenIsRecoverable == \A t \in Ids : IsOpen(t) => ~Drifted(t) /\ ~EvidenceMissing(t)

\* The store with its open transaction undone.
Logical ==
  [r \in Records |->
     IF \E t \in Ids : IsOpen(t) /\ r \in Touched(journal[t].request)
     THEN journal[CHOOSE t \in Ids : IsOpen(t)].before[r]
     ELSE store[r]]

\* Whatever a caller was told is committed is committed, for good.
AckedIsCommitted == \A t \in acked : journal[t].status = "committed"

\* With no transaction open, a record that only one committed batch wrote has
\* the contents that batch gave it.
CommittedInPlace ==
  (\A t \in Ids : ~IsOpen(t)) /\ lock = "free" =>
    \A t \in Ids :
      journal[t].status = "committed" =>
        \A r \in Touched(journal[t].request) :
          \/ store[r] = journal[t].request.writes[r]
          \/ \E s \in Ids \ {t} : /\ journal[s].status = "committed"
                                  /\ r \in Touched(journal[s].request)

\* Every interrupted transaction is eventually closed by recovery.
OpenIsClosed == \A t \in Ids : IsOpen(t) ~> ~IsOpen(t)

(***************************************************************************)
(* put_records implements the atomic store: the commit of the journal is   *)
(* the batch's one step, and a rollback or a recovery drops it.            *)
(***************************************************************************)
Outcome(t) ==
  CASE journal[t].status = "committed" ->
         [state |-> "applied", request |-> journal[t].request]
    [] journal[t].status = "rolled_back" ->
         [state |-> "dropped", request |-> journal[t].request]
    [] OTHER -> [state |-> "unused", request |-> NoRequest]

AS == INSTANCE AtomicStore
        WITH contents <- Logical, outcome <- [t \in Ids |-> Outcome(t)]

ImplementsAtomicStore == AS!Spec
=============================================================================
