----------------------------- MODULE ContextIndex -----------------------------
(***************************************************************************)
(* Snapshots for retrieval (context/index.py and _load_snapshot of         *)
(* context/compiler.py): an audited scan of the record files, or the saved *)
(* result of an earlier one, if nothing that it depends on has changed.    *)
(* Records, configuration and index change under the writer lock, one      *)
(* critical section at a time; a batch of records may be left half applied *)
(* by a writer that died, until it is recovered (RecordTransactions).      *)
(***************************************************************************)
EXTENDS ContextCompiler

CONSTANTS
  Versions,     \* the stores that batches of records lead to
  Configs,      \* the policies that the project's configuration goes through
  IndexDays,    \* the days that an index is built for
  NoBatch, NoIndex, NoSnapshot,
  MaxChanges    \* bound on batches and changes of the configuration

ConfigType ==
  [classifications : SUBSET Classifications, fail_on_stale : BOOLEAN, detect : BOOLEAN]

ASSUME IndexAssumption ==
  /\ Versions \subseteq Stores /\ Versions # {}
  /\ Configs \subseteq ConfigType
  /\ NoBatch \notin Stores
  /\ IndexDays \subseteq Int
  /\ MaxChanges \in Nat

VARIABLES
  store,      \* the record files
  batch,      \* the store before a batch that is left open
  config,     \* the policy of the configuration
  index,      \* extensions/context/index.json
  committed,  \* every store that was there with no batch open
  changes

repository == <<store, batch, config, committed, changes>>
indexVars == <<repository, index>>

\* The audit of a day under a configuration.
Audit(day, c, detect) == INSTANCE RepositoryAudit WITH
  Today <- day, Classifications <- c.classifications,
  FailOnStale <- c.fail_on_stale, DetectConflicts <- detect

Days == {Today} \cup IndexDays \cup {q.as_of : q \in Queries}

\* What each day's audit accepts.  A query's audit reports conflicts, and does not
\* fail for them.
Acceptable == [day \in Days, c \in Configs |-> Audit(day, c, c.detect)!AuditedStores]
Retrievable == [day \in Days, c \in Configs |-> Audit(day, c, FALSE)!AuditedStores]

IndexInit ==
  /\ config \in Configs
  /\ store \in Versions \cap Acceptable[Today, config]
  /\ batch = NoBatch
  /\ index = NoIndex
  /\ committed = {store}
  /\ changes = 0

-----------------------------------------------------------------------------
(* Snapshots                                                               *)

SnapshotOf(s, day, c) ==
  [store |-> s, reviews |-> ReviewQueue(s, day),
   conflicts |-> IF c.detect THEN ConflictsOf(s) ELSE {}]

\* audit_repository and load_records.  The mutant audits the records alone.
Scan_RecordsOnly(day) ==
  IF store \in Retrievable[day, config]
  THEN SnapshotOf(store, day, config) ELSE NoSnapshot

Scan(day) ==
  IF batch = NoBatch /\ store \in Retrievable[day, config]
  THEN SnapshotOf(store, day, config) ELSE NoSnapshot

\* _verified_index: the configuration and the day are those of the index, no
\* transaction is incomplete, every indexed record is as it was, and every
\* record is indexed.  The mutant does not look for records that are new.
IndexIsVerified_NotCovering(day) ==
  /\ index # NoIndex
  /\ index.config = config /\ index.day = day
  /\ batch = NoBatch
  /\ \A r \in Present(index.snapshot.store) : store[r] = index.snapshot.store[r]

IndexIsVerified(day) ==
  /\ index # NoIndex
  /\ index.config = config /\ index.day = day
  /\ batch = NoBatch
  /\ \A r \in Present(index.snapshot.store) : store[r] = index.snapshot.store[r]
  /\ Present(index.snapshot.store) = Present(store)

\* _load_snapshot.
LoadSnapshot(day) == IF IndexIsVerified(day) THEN index.snapshot ELSE Scan(day)

\* build_context_index.
BuildIndex(day) ==
  /\ Scan(day) # NoSnapshot
  /\ index' = [config |-> config, day |-> day, snapshot |-> Scan(day)]
  /\ index' # index
  /\ UNCHANGED repository

-----------------------------------------------------------------------------
(* What the other commands do to the repository                            *)

Change == changes < MaxChanges /\ changes' = changes + 1

\* A batch that passes its audit is committed.
CommitBatch(s) ==
  /\ Change
  /\ batch = NoBatch /\ s # store
  /\ s \in Acceptable[Today, config]
  /\ store' = s
  /\ committed' = committed \cup {s}
  /\ UNCHANGED <<batch, config, index>>

\* The process dies with some records of its batch replaced.
LeaveBatchOpen(s, replaced) ==
  /\ Change
  /\ batch = NoBatch
  /\ batch' = store
  /\ store' = [r \in Records |-> IF r \in replaced THEN s[r] ELSE store[r]]
  /\ UNCHANGED <<config, index, committed>>

\* The mutant does not look whether there is anything to recover.
RecoverBatch_Always ==
  /\ store' = batch
  /\ batch' = IF batch \in Acceptable[Today, config] THEN NoBatch ELSE batch
  /\ UNCHANGED <<config, index, committed, changes>>

\* The records are restored.  If the configuration no longer accepts them, the
\* batch stays open.
RecoverBatch ==
  /\ batch # NoBatch
  /\ store' = batch
  /\ batch' = IF batch \in Acceptable[Today, config] THEN NoBatch ELSE batch
  /\ UNCHANGED <<config, index, committed, changes>>

\* The project's policy is edited.
Configure(c) ==
  /\ Change
  /\ c # config /\ config' = c
  /\ UNCHANGED <<store, batch, index, committed>>

RepositoryNext ==
  \/ \E s \in Versions : CommitBatch(s)
  \/ \E s \in Versions, replaced \in SUBSET Records : LeaveBatchOpen(s, replaced)
  \/ RecoverBatch
  \/ \E c \in Configs : Configure(c)
  \/ \E day \in IndexDays : BuildIndex(day)

-----------------------------------------------------------------------------
(* Properties                                                              *)

\* An index that is used gives what a full audit and scan would have given, on
\* every day that a query may be about: not one that the audit would by now
\* refuse, and no record, review or conflict more or less.
IndexAgreesWithScan ==
  \A q \in Queries : IndexIsVerified(q.as_of) => index.snapshot = Scan(q.as_of)
=============================================================================
