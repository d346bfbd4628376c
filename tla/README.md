# A TLA+ model of StateWeave

StateWeave keeps a project's durable memory (facts, decisions, current state, ...) as
JSON records in a directory tree, and guards every change of it: a writer lock, batches
with journals and recovery, reviewed candidates, evidence-bound plans, and audits that
refuse a store they cannot explain. There is no server: every actor is a command-line
process, and all they share is the file system. What can go wrong is what happens
*between* two file-system calls: another process's call, a failing call, or the death of
the process. That is what these modules model.

Paths below are relative to `src/stateweave/` of the repository unless they start with
`docs/`.

- [1. The system](#1-the-system)
- [2. The modules](#2-the-modules)
- [3. What the model checker checks](#3-what-the-model-checker-checks)
- [4. Where the code and its documents disagree](#4-where-the-code-and-its-documents-disagree)
- [5. What is proved](#5-what-is-proved)
- [6. What is not modelled, and why](#6-what-is-not-modelled-and-why)
- [7. Plan](#7-plan)

## 1. The system

| Component (source) | State it keeps | Operations | What is hard, and what makes it correct |
|---|---|---|---|
| Writer lock (`core/locking.py`) | the directory `writer.lock` with `owner.json`; quarantine directories | acquire, release, lock-status, recover-lock | mkdir and the owner's signature are two steps, as are the unlinking and rmdir of a release; recovery checks and then renames. At most one holder, who is the one on disk, as long as nobody removes a live process's directory, and what that takes; no lock stays for ever |
| Record transactions (`core/project.py`, `core/transactions.py`) | record files, one journal and one payload directory per transaction | init, put_record(s), recover-transaction, transaction-status | many file writes are to be one step; the process may die at each. Whole or not at all, once per idempotency key, always recoverable |
| Durable file writes (`core/io.py`) | temporary siblings | atomic_write_bytes / _json | the replacement is atomic, but dying before it leaves a stray file that other commands trip over |
| Repository audit (`core/audit.py`), layout (`core/layout.py`) | none | audit | cross-record invariants (links, supersession, conflicts, TTL); reads without the lock after a first look |
| Candidate inbox (`continuity/store.py`) | candidates, rejections | capture, preview, list, reject, promote | a review is of an earlier state; a promotion has two durable effects. Exactly one outcome, of what was reviewed, against the revision it was captured at |
| Episodes, contexts, mutation plans (`continuity/store.py`) | episode files, context bundles, plans | append, load, store plan, apply plan | identity of documents over all episodes; plan results are read outside the lock |
| Capture inbox (`capture/store.py`) | envelopes, checkpoints, candidates | ingest, audit-capture | several files per request; replays, rivals at one cursor. One linear chain per source |
| Backup, migrations (`core/backup.py`, `core/migrations.py`) | archives, migration journals | create, verify, restore, plan, apply | a migration that dies is not resumed; a backup may be of a half-applied batch |
| Adoption, onboarding (`adoption/`, `onboarding/`) | marker file, staging, sidecar, receipt, plan, policy decision | plan, apply, audit | a plan binds a root that may change; a marker that its maker may leave behind; adoption, plan and decision are separate. Adoptions alone, one adoption and one decision, audited at every step |
| Codex bridge (`adapters/codex_bridge.py`) | sessions, observations, episodes | prepare, record observation, audit | each operation is three lock sections, and hosts repeat reports. A session has its context, an observation is of what the ledger holds, one per receipt |
| Context index, compiler (`context/`) | the derived index | build, load, query, compile | a saved index stands in for audit and scan: it must be what they would give. A bundle has what the query reaches, best first, within its budget, and nothing uncommitted |
| Orchestration, workflow (`orchestration/`, `workflow/`) | none | topological order, routing, audits | order and cycle boundaries |
| Telemetry (`telemetry/`) | a bounded list in memory | add, prune, summarize | limits |
| Content policy, runtime, policy pack, configuration, contracts, CLI | none | checks | pure functions of their inputs |

How they interact. Every mutating command takes the writer lock and calls functions of
the same process; `put_record` is called with the lock already held by `promote_candidate`
and takes it itself otherwise. Capture calls the candidate inbox's
`_persist_candidate_locked`. Promotions and plans submit batches to `put_records` under
an idempotency key derived from their own id, so that a rerun after a crash finds the
first attempt's journal. The audit is called inside `put_records` before its commit.
Operators close what processes leave behind: `recover-lock` for a dead owner's lock,
`recover-transaction` for an open journal, a rerun of the promotion, a replay of the
capture request.

```
 CLI / hosts / operators
   |            |                 |
 CaptureInbox  CandidateInbox   plans, migrations       Codex bridge  ---  context compiler
   |  candidates  |  batches      |                       |  episodes        |  index
   +------------->|               |                    ledgers               |
                  v               v                                          v
            record transactions  (put_records, recovery)   ---   audit  <----+
                  |
             writer lock  ---  file system  ---  adoption, onboarding
```

## 2. The modules

| Module | Models |
|---|---|
| `WriterLock` | the lock, one action per file-system call |
| `WriterLockProofs` | its theorems |
| `RecordBatches` | the data of transactions: records, stores, batches, the stores the audit accepts |
| `AtomicStore` | abstract: what `put_records` promises, with no files, locks or crashes |
| `RecordTransactions` | `put_records` and `recover_record_transaction`, one action per durable write; implements `AtomicStore` |
| `RecordTransactionsProofs` | its theorems, the refinement among them, and those of `AuditedTransactions` and `RepositoryAudit` |
| `RepositoryAudit` | the audit, a predicate on the records it has loaded |
| `AuditedTransactions` | transactions guarded by that audit, and what the two promise together |
| `CandidateInbox` | candidates over `AtomicStore` |
| `CandidateInboxProofs` | its theorems |
| `CaptureInbox` | capture requests, write by write |
| `CaptureInboxProofs` | its theorems |
| `ExecutionDocuments` | the documents of the orchestration ledger, `topological_order` and `audit_execution` |
| `WorkflowDocuments` | the documents of the workflow ledger and `audit_workflow` |
| `EpisodeLedgers` | context bundles and both ledgers, appended episode by episode |
| `MutationPlans` | plans over the ledgers and a store of records that is read without its lock |
| `MutationPlansProofs` | the theorems of both |
| `Migrations` | migrations with the backup they fall back on, beside batches that may be cut short |
| `MigrationsProofs` | its theorems |
| `Onboarded` | abstract: what onboarding promises, with no marker, staging or processes |
| `Adoption` | plans, application and audit of adoption, one action per file-system step |
| `Onboarding` | guided onboarding over it; implements `Onboarded` |
| `OnboardingProofs` | the theorems of both |
| `ContextCompiler` | ranking, relations and budget, pure functions over the records of the audit |
| `ContextIndex` | the index beside commands that change records and configuration |
| `CodexBridge` | sessions and observations, critical section by critical section, over both and the ledgers |
| `CodexBridgeProofs` | its theorems, and those of `ContextIndex` and `ContextCompiler` |
| `MC*` | constants of the runs |

They stack. `WriterLock` shows that one process at a time is in its critical section, as long
as recoveries do not overlap, no mkdir fails otherwise than on a lock that is there, and no
live process outlasts the limit (`LockExcludes`). Every module above it assumes these three:
`RecordTransactions` keeps one program counter for "the command that holds the lock" and shows that, crashes included, it implements `AtomicStore`; `CandidateInbox`
then uses `AtomicStore!Apply` and `Drop` as its record store and keeps only its own two
durable effects apart. `MutationPlans` extends `EpisodeLedgers`, which evaluates the
document modules, and uses `AtomicStore` in the same way, except that it also shows the
files of the batch that holds the lock: a plan's results are read while others write.
`CaptureInbox` sits on the lock only. `Migrations` cannot use `AtomicStore`: a migration
copies and overwrites what lies in the files, that of an open transaction included. So it
takes the data of `RecordBatches` and keeps from `RecordTransactions` what survives a death,
the open journal and the half-written files. `ContextIndex` needs as little of transactions:
the records, and the store behind an open batch. It evaluates `RepositoryAudit` for the day
and configuration in question (`Audit`), and `CodexBridge` adds an instance of
`EpisodeLedgers`. `Onboarding` extends `Adoption` and stands alone, since there is no store
before it.

### WriterLock

State: `dir` is `writer.lock` (present, owner token in `owner.json`, stray files, and whether
it is older than `lock_stale_after_seconds`), `pc` is where each process stands in
`acquire`/`release`, and `quarantine`, `rpc`, `confirmed` belong to the recover-lock commands.
Actions follow the calls: `MakeDir` and `WriteOwner` (lines 342-347), the `except
BaseException` clean-up `CleanUpFailedAcquire` (362-368), `VerifyOwner`, `UnlinkOwner`,
`RemoveDir` of `release` (370-414), and `Observe` (the operator reads lock-status),
`Inspect`, `Quarantine`, `Reinspect`, `RemoveQuarantine` of recover-lock (241-297).
`GrowOld` is time. `MakeDirFails`, `WriteOwnerFails`, `ReleaseDenied`, `Crash` and
`RecovererCrash` are the faults, switched on by the constant `Faults` (which also decides
whether a crash leaves a stray file) and, for processes that stop, bounded by `MaxStops`. The
clean-up is reached both from a failed signature (`"aborting"`) and from a mkdir that failed,
other than on a directory that exists (`"failed"`): in either case it removes whatever
unsigned directory is there. `strained` and `taken` are history, on which no step depends:
that a mkdir has failed so or a live process has kept its lock past the limit, and that the
directory of a live process has been removed by another command.

Abstractions. A token is the process that drew it. Age is one bit: `IsStale` looks at nothing
else, as in the code, and the bit is cleared when the directory is made, signed or unsigned.
The lock of a live process may pass the limit if `"slow"` is among the faults.

### RecordTransactions

State on disk: `store` (records), `journal` (status, request digest, digests before),
`payloadDir` and `evidence` (saved payloads), `debris` (stray temporary files). `lock` is
free, held, or stale. `pc, cur, req, snap, left` are the memory of the command that holds
the lock. `acked` holds the ids a caller was told are committed. Each step of
`put_records` is an action named for it; loops over records take any order, which
includes the code's. Any call may fail (`PutFails`, `RestoreFails`, `CleanUpFails`,
`RecoveryFails`), and the process may die at any step (`Crash`), leaving the lock stale
and perhaps a temporary file in the directory it was writing to. `ClearDebris` is the
operator who removes the file that the audit names.

Abstractions. A digest is equal exactly when the contents are. `Legal` is the set of
stores whose cross-record audit passes; it is a constant here, and all that is used of it
is that it is a set of stores. `AuditedTransactions` sets it to what `RepositoryAudit` accepts. Files are not edited by hand. The directories of the store
exist.

### RepositoryAudit and AuditedTransactions

No state: `Audited(m)` says whether `audit_repository` reports no error on the records `m`,
which are `Load(s)`, the files that are there. `Proper` is what a record must fulfil by
itself, `Fresh` the dates of a fact, `Linked` the references, state items and supersession
links. `SearchStep` is one turn of the loops of `_supersession_cycle`, with its colours and
its stack, on which a record may lie twice; `HasSupersessionCycle` runs it to the end.
`InConflict` compares, as `_audit_conflicts` does, one fact of a group with those of other
values, and forgives along `TransitivelySupersedes`.

Abstractions. A value is a name, and `Data` says what it contains. Days are integers and
`Today` does not move (section 4). Ids have any fixed order. The first fact of a group is
any fixed one. An error is not worded, and what only reports (warnings, backlinks, the
review queue) is left out, as is the limit `max_records`. Schemas are the type `RecordType`,
which lets only facts and decisions supersede.

### CandidateInbox

State: `contents` and `outcome` of `AtomicStore`; `candidate` and `rejection` files;
`reviewed`, the preview a reviewer has in hand for each candidate, as old as it may be;
`promoting`, set while `promote_candidate` is between the commit of its record and the
mark of its candidate. A preview is the candidate file, its effective situation and the
current record, which is what its digest covers. `PromoteRecord` is the first attempt,
`PromoteFromReceipt` a rerun that `_idempotent_replay` answers, `PromotionRolledBack` an
attempt that the audit refuses or that fails. `MarkLost` is the death of the process, or
a failed write, before the mark. `OtherWrite` stands for every other writer of records.

### CaptureInbox

State: `envelopes`, `checkpoint`, `candidates` on disk, `pc, cur, left` of the running
command, and `owed`, which requests were cut short and not replayed yet. Identities are
digests of contents, so an envelope is the request it was made from and a candidate is a
pair of request and event. `ReplayFirst` says whether the operator replays a source's
interrupted request before the host submits another. `IsChain` is the walk of
`_audit_chains`.

### EpisodeLedgers and MutationPlans

State: `contexts`, the stored bundles, and `episodes`, for each ledger the sets of
documents that its files hold; `contents` and `outcome` of `AtomicStore`, and `writing`,
the batch that holds the lock with the files it has replaced; `plan`, the plan files; and
for each process that runs apply-plan where it stands (`pc`, `job`), which records it has
still to read (`left`) and what it has read (`seen`). A process loads the plan
(`LoadPlan`), calls `put_records` (`BeginPut`, or `PutAnswered` from an earlier receipt,
or `PutRefused`), reads each record without the lock (`ReadRecord`), and marks the plan
(`MarkApplied`). `ReplaceFile`, `Commit` and `RollBack` are any batch in progress,
`BeginOther` starts one of another command. `OnDisk` is what an unlocked reader finds.

Abstractions. An episode, a bundle or a plan is one atomic write inside one critical
section, so appending or storing it is one action. `put_records` is what
`RecordTransactions` has been proved to implement; `RollBack` is its every failure, with
the recovery that follows. Document ids, contexts and contents are model values, and a
digest is equal when the contents are, so an execution receipt carries the manifest
itself. A document has its schema by its type. `topological_order` takes the ready task
with the least id; here it takes any fixed one, since no property depends on which.
apply-plan may find the record missing when it reads it only if someone removed it by
hand, which is not modelled.

### Migrations

State: `store`, `debris` (a stray temporary file among the records) and `batch` (the open
transaction with the values it saved) are on disk, as are `journal`, the status of each
operator's last migration, and `stray`, whether some migration's journal was never closed.
`holder` is the command in its critical section. `pc`, `unread`, `plan` are the memory of
the migrate commands, `todo` and `backup` that of the one that runs. `StartPlan` and
`PlanRecord` are `plan_migration`, which reads file by file without the lock. `StartApply`,
`ChangeRecord`, `Complete` are `apply_migration`, `StartUndo`, `RestoreMember` and
`FinishUndo` its handler with `restore_backup_over_project`; `MigrationDies` is its death,
and a failure inside that handler, which nothing catches. `ApplyRefused` is the backup that
refuses a stray file. `BeginPut` to `RecoverTransaction` are batches.

Abstractions. A record is legacy or current, and `Current` is `_legacy_fact_to_v1`; records
that it refuses are not in the model. `Upgrade` reads a value whatever its version. The
changes of a plan may be applied in any order. A dead command's lock is recovered at once.
`RollBack` and `RecoverTransaction` are single steps, because one that stops half-way
leaves files and a journal that a batch which stops half-way leaves too. Archives are kept
whole: a damaged one is a failing call. `Init` is any store that is sound but for its
version.

### Adoption and Onboarding

State: the project's root (`host`, `embedded`, `marker`, `staging`, `sidecar`), the evidence
in the sidecar (`plans`, `decision`), the directories in which a write that died has left its temporary file (`strays`), and for each
operator where the command stands (`pc`) and which plan it has confirmed (`agreed`). `Snapshot` is `_root_snapshot`, `AdoptionPlan` the
plan with its conflicts. `Review` or `ConfirmOnboarding` is the operator who confirms a plan,
`Replan` and `Refuse` its second computation, `TakeMarker` to `Unmark` the steps of
`apply_project_adoption` (`Discard` its handler, `Unmark` its `finally`), `WritePlan` and
`WritePolicy` the two writes of `_persist_plan_and_policy`, `Finish` whatever refuses them,
`DiesWriting` a death inside one of the two, after which the file is as it was and the
temporary one stays. `OnboardingErrors` are the kinds of errors that `audit_onboarding`
reports, unexpected entries among them.
`EditHost` is the project's own tools. `FindEmpty` and `InitializeRoot` are an init command on
the same root, which looks whether it is empty and writes afterwards. `ClearEvidence` is the
operator who removes what a dead adoption has left.

Abstractions. An entry is there or not, as in the snapshot, which reads names and kinds only.
A project's id and name are one identity. The store in a staging directory is built in one
step, since nobody looks into it before the rename. Unreadable roots and symlinks are left
out; so are the dates of receipts and decisions, and with them a second decision that is
equal to the first. `audit_onboarding` reads without the lock; it is evaluated in every state.

### ContextCompiler and ContextIndex

`ContextCompiler` has no state. A record's text is the set of terms in its title, metadata and
body. `Scores` is `_rank_records`: direct hits, then `Widen` once per relation depth, where a
record found on the way gets the score of its first source less 20, at least 1. `Take` is one
turn of the loop of `compile_context`. A content warning may so name a record that is then
left out for its size, as in the code. `KeepsBudget` and `FollowsRelations` say what a bundle
should be without following the algorithm: they speak of paths and sums.

`ContextIndex` has `store`, `batch` (the store that an open batch started from), `config`,
`index`, and `committed`, which remembers every store that was there with no batch open.
`Scan` is the audit with the loading of records, `IndexIsVerified` is `_verified_index`,
`LoadSnapshot` their choice. `LeaveBatchOpen` is any part of a batch replaced when its process
dies, `RecoverBatch` recover-transaction, which may be refused under a new configuration,
after it has restored the records. `Configure` is an edit of the policy: the allowed
classifications, and whether stale facts and conflicts are refused.

### CodexBridge

State: `contexts` and `episodes` of `EpisodeLedgers`, `sessions`, `observations`, and where
each call stands, with what it holds in memory (`compiled`, `call`). `Compile`, `StoreBundle`,
`WriteSession` are the three critical sections of `prepare_codex_session`; `LoadSession`,
`AppendEvidence`, `WriteObservation` those of `record_codex_observation`. Everything that the
rest of the repository does may come between. A call that is refused changes nothing, except
when the receipt has another observation: by then its documents have been appended.
`Cut` is a call that dies, or times out waiting for the lock, after which the host sends the
same report again; a preparation may stop anywhere, and is made again under the same or other
circumstances.

Abstractions. Digests are equal when contents are, so a session carries its context, a receipt
its session, an observation its documents. Titles, instructions and times are left out.
A session's policy pack is the same throughout. A worker is offered alone, as the bridge does.

## 3. What the model checker checks

| Run | Instance | Properties |
|---|---|---|
| `writer_lock` | 3 processes, 1 recoverer, all faults | `ExclusiveUnlessTaken`: exclusion is lost only by the removal of a live process's directory; `RecordedUnlessTaken`: until then the lock on disk names its holder; `TakenOnlyUnderStrain`: such a removal takes a failing mkdir or a live process over the limit; `LockIsReturned`: a lock on disk goes away, by release or recovery |
| `record_transactions` | 2 facts and the state, 5 values, 3 batches, 1 idempotency key, 1 random id, 2 faults, the audit with every policy on | `OpenIsRecoverable`; `AckedIsCommitted`; `CommittedInPlace`; `FactsAgree`: current facts do not contradict each other; `CyclesAreFound`; `ImplementsAtomicStore`; `OpenIsClosed` |
| `candidate_inbox` | 2 candidates, 2 proposals (create, update), 2 other writers, 2 faults | `PromotedIsCommitted`; `RejectionIsFinal`; `NoLostUpdate`; `CommittedIsReconciled` |
| `capture_inbox` | 2 sources, 5 requests (2 rivals at one cursor), 3 faults, interrupted requests replayed first | `ChainsAreLinear`; `NoFork`; `CheckpointAdvances`; `InterruptedIsFinished` |
| `mutation_plans` | 1 plan with 2 possible bodies, 2 processes that apply it, 1 other writer, 2 records, 2 faults; 6 submissions to the orchestration ledger, 3 to the workflow ledger | `LedgersPassAudit`; `TasksAreOrdered`; `PlansHaveEvidence`; `AppliedIsCommitted`; `ForeignResultsHaveAuthors`; `CommittedIsMarked` |
| `migrations` | 2 records, 1 legacy and 2 current values, 1 operator that migrates, 3 batches, 3 faults | `CompleteStays`; `DriftIsExplained`; `OnlyBatchesChangeMeaning`; `MigrationConverges` |
| `onboarding` | 2 operators of one identity with different policies, 1 that adopts for another identity, 1 host entry, 1 edit, 2 faults | `AdoptersAreAlone`; `AuditsReportStraysOnly`; `ImplementsOnboarding`; `AdoptedIsDecided` |
| `codex_sessions` | 4 records, 2 stores, 2 configurations, 3 queries, 1 index day, 1 change, 2 preparations (of 4 requests), 2 hosts (of 4 reports under one receipt id), 1 crash | `TypeOK`; `IndexAgreesWithScan`; `ContextsAreCommitted`; `BundlesKeepBudget`; `RelationsAreFollowed`; `BridgeAuditPasses`; `InterruptedIsObserved` |
| `lock_two_recoverers`, `candidate_both_outcomes`, `capture_fork`, `plan_foreign_result` | as above, see section 4 | one documented promise each, which TLC refutes |

The type invariants, `OneOpenTransaction`, `MarkedOnce`, `References` and `AppliedIsFinal` are
proved for every instance (section 5), so no run spends time on them. Types are checked by one
run only, `codex_sessions`, where they say that what `compile_context` computes is a bundle.

Why the bounds are enough to be interesting.

- Three processes are needed for the lock: one dies, one recovers its place, one is still
  waiting; or one is in the handler of its failed mkdir, one has just made the directory, and
one makes the next. With one recoverer every step of recovery still interleaves with all of
them.
- Two facts suffice for a batch that is half applied, beside the state record that every
  store has. One batch changes both, since half a supersession is refused by the audit; one
  writes a new fact, guarded by the revisions it saw, which contradicts the other where
  that is still current; and one, which may not overwrite, writes half a link and is refused
  after it has been applied. `CyclesAreFound` compares the search with the definition of a
  cycle on every graph on the records on disk, 512 of them when all three are there. Two
  faults allow a crash during the clean-up or the recovery of another crash. With two facts a
  conflict is always with the one fact that the audit compares the others with; that larger
  groups are treated rightly too is `FactsAlwaysAgree` alone. One
  idempotency key and one random id give retries of the same id, and two transactions
  that touch the same records.
- Two candidates may propose the same record, so each may be promoted over the other;
  two other writes are enough to take a record to another value and back.
- Three faults in the capture inbox let the same request be cut short at all three of its
  stages, or two rivals and a replay.
- One plan is enough because plans do not share anything but records, and the other
  writer stands for another plan there. Two processes that apply it meet at every step;
  the other writer's batch may overlap the plan's while they read, commit or be rolled
  back. The submissions overlap, repeat documents, contradict each other under one id,
  name inputs or contexts that are not there, and contain a cycle of tasks.
- Two records are enough for a half-applied batch and a half-done migration to overlap in
  one record and differ in the other. One of the batches leaves a legacy record beside what
  it writes, another is refused if a record exists. Three faults let a batch be cut short,
  the migration over it too, and then its rollback. There is one operator who migrates and
  three batches, because two operators who both retry can refuse each other's work for ever,
  and so can batches without end: convergence is not claimed then. The theorems about
  safety hold of any number.

- Two operators of one identity race for the sidecar and then for the decision; a third is
  needed for a plan that is safe for its owner and of another project. Two faults let an
  adoption die and another fail in what it left; one edit makes a plan stale, and an init
  command gives the root a second configuration.
- Four records of every kind make relations two links long, through a record that a filter
  removes; of the queries one has room for fewer bytes than it reaches, with an item that does
  not fit, and one that is blocked for its content, ahead of one that does fit; and one has
  room for one record only, so that both limits bind. Of the two stores one has a conflict, and either may
  be half replaced. One query asks about a day on which a fact is past its review, which one
  of the configurations refuses. The reports share a receipt id, disagree about its outcome,
  succeed at what was not allowed, and may name the wrong session; one cut at each of two
  points of a call, with a rival between, is all that a receipt can meet.

The store and the lock can come to rest, once ids, faults or candidates are used up, so
the runs do not check deadlock; what must still happen then is stated as a liveness
property.

Fairness. A process that is not killed runs on: weak fairness of its next step. Operators
do what the documents tell them to, in the end: recover the lock of a dead process
(`WF`, and time passes, `WF` of `GrowOld`), clear a stray file and run recover-transaction until it gets the lock among the
other writers (`SF`, because the lock is free only now and then; `acquire` polls), rerun a
promotion that the audit reports (`WF` of a fresh preview and of the promotion), rerun
apply-plan for a plan that the audit reports (`SF`, since the processes may be busy),
replay an
interrupted capture (`SF`, since other sources use the lock), run migrate while there are
legacy records (`SF`, likewise). In `Onboarding` a running command goes on, an operator who
was refused inspects a new plan and confirms it (`WF`), as the message tells them, and
somebody clears the evidence of a dead adoption. A Codex host that has begun to report repeats
its report until it has an answer (`WF`), and none has to begin. Nothing is assumed of capture
hosts, reviewers or other writers.

Every property is paired with a plausible bug (a `Name_Variant` operator beside the
definition it changes, marked as a mutant in its comment) under which the same run
reports it violated.

## 4. Where the code and its documents disagree

Each is a run that must find a violation; the counterexample is in TLC's output.

1. `lock_two_recoverers`. Two recover-lock commands both pass the inspection
   (`core/locking.py:250-265`); the first quarantines the dead lock, a live process
   acquires, and the second's `os.replace` (270) takes that one. The re-inspection only
   keeps it from being deleted. `MutualExclusion` then fails.
2. `candidate_both_outcomes`. A promotion that died before its mark can be rejected once
   the record has changed again: its transaction is committed and its candidate rejected.
3. `capture_fork`. A capture that died between envelope and checkpoint lets a rival
   request in at the same cursor, and the source's chain forks for good.
4. `plan_foreign_result`. apply-plan reads its results after `put_records` has given the
   lock back (`continuity/store.py:1010-1013`). Another batch may be replacing those files
   just then, and may even be rolled back later: the plan is marked applied with a revision
   that it did not write, and the audit reports drift from then on.

Two more ways to lose mutual exclusion have no run of their own; they are the escape
`strained` of `TakenOnlyUnderStrain`. The clean-up of `acquire` (`core/locking.py:362-368`)
removes any unsigned lock directory, whoever made it, and it runs for every exception but
`FileExistsError`: a process whose mkdir fails for another reason (no space, a sharing
violation on Windows, an interrupt while it waits) removes the directory that another has just
made and not yet signed; a third makes its own, and two sign. And staleness is a matter of age
alone (204-213): an operator who recovers the lock of a live process that has kept it past the
limit takes it away from that process.

One more needs a process that is interrupted between two calls, which the models leave out
beside the wait for the lock. The rollback handler of `put_records` (`core/project.py:312`)
also covers the clean-up after the commit: an interrupt there rolls the records back, and a
crash before the journal is rewritten leaves a journal that says committed over old records.

A process that dies inside a write leaves its temporary file (`core/io.py:104-115`), and nearly
every directory of the store is one in which an audit refuses what it does not expect. For the
record store that is modelled, with the operator who removes the file; for onboarding it is
too, and `AuditsReportStraysOnly` says that it is all that is ever wrong, though no command
removes it; in `writer.lock` it makes a lock that no recover-lock accepts
(`core/locking.py:132-143`), the escape `debris` of `LockIsReturned`. Section 6 says where it
is not modelled.

Another has no run of its own, but shows in `MigrationConverges`, which holds only with the
escape `Interrupted`. A batch cut short on a store that still has legacy facts is stuck.
recover-transaction writes the saved files back, but the audit that follows
(`core/project.py:447-456`) refuses the legacy records, so the journal stays open; and
migrate audits the whole store (`cli.py:826-827`), open transaction included, so it is rolled
back. `docs/continuity.md:160` names recover-transaction as what to do. A migration
that was itself cut short over an open transaction may also make that transaction drift, which
recover-transaction then refuses (`DriftIsExplained`).

Two more concern the audit. `docs/architecture.md:61` has any two current facts with
one key and different values conflict unless one transitively supersedes the other.
`_audit_conflicts` compares the facts of a group with one of them only (372-385), so with
`require_reciprocal_supersession` off, two that contradict each other pass if each is
related to that one. With it on, as `init` configures it, nothing is missed: that is
`FactsAgree`. And what the audit accepts depends on the day. With `fail_on_stale_verified`,
a fact may pass its review date while a transaction is open: recovery restores the records
and then fails its audit (`core/project.py:447-456`), and renewing the fact needs
`put_records`, which refuses while a transaction is open. The model's day stands still, so
`OpenIsClosed` does not cover this.

`docs/codex-bridge.md` says that reusing a receipt id for a different observation fails closed.
The call does fail, but its documents are appended to the ledger before the other observation
is found (`adapters/codex_bridge.py:586-603`), so a second evaluation of the same receipt stays
there; `WriteObservation` shows it, and the bridge's audit does not mind.

An init command that found the root empty before an adoption began writes its configuration
all the same (`core/project.py:60-74`). The root then has two, every later plan is blocked, and
the adopted project cannot be decided about: hence the escape `embedded # None` in
`AdoptedIsDecided`.

One more divergence has no consequence. `docs/continuity.md:151` has apply-plan check the
evidence again; `apply_mutation_plan` does not. `PlansHaveEvidence` is the reason why it
need not: evidence is never taken away.

## 5. What is proved

All theorems hold for every value of the constants that satisfies the named assumptions
of the modules (`LockAssumption`, `BatchAssumption`, `TransactionAssumption`, `InboxAssumption`,
`CaptureAssumption`, `LedgerAssumption`, `PlanAssumption`, `MigrationAssumption`,
`AuditAssumption`, `GuardAssumption`, `AdoptionAssumption`, `NoPlanAssumption`,
`OnboardingAssumption`, `IndexAssumption`, `CompilerAssumption`, `BridgeAssumption`), which TLC also evaluates for its instances.

**`RecordTransactionsProofs`.** The safety properties of `RecordTransactions` are not
inductive by themselves: that an open transaction is recoverable depends on where its
process stood when it died. The invariant that carries them has two parts.

- `TypeInv`: `TypeOK`, `ControlInv` (what the program counter says of lock, id, request
  and snapshot) and `JournalInv` (a journal that exists has its request; payloads only
  where a journal is).
- `IInv`: `OneOpenTransaction`; `OpenInv`, which relates an open journal's status to the
  evidence saved and to what the records may hold; `BatchInv` and `StageInv`, which say of
  the running batch how far it is (records already visited are new, those `left` are old,
  and the reverse while rolling back); `RecoveryInv` for recovery; `EndInv` for the
  stretch after the commit; and `AckedIsCommitted`.

`TypeStep` and `IInvStep` show each step preserves them, one step of the proof per action.
From it follow `TypeCorrect`, `AtMostOneOpen`, `AlwaysRecoverable`, `AckedStaysCommitted`.
`Refinement` proves that `Spec` implements `AtomicStore`: `Logical`, the store with its
open transaction undone, changes only when the journal is marked committed, at which
moment the audit has just accepted what is on disk. `CommittedStaysInPlace` is derived
from that: in the abstract store a record changes only by a committed batch that writes
it.

`FactsAlwaysAgree`, at the end of the module, has two parts. `AuditedFactsAgree` is
about the audit alone: `CurrentIsNotSuperseded` shows that in an accepted store no record
lists a current fact among those it supersedes, since the link would have to be reciprocal,
so supersession never excuses a conflict, and a fact that contradicts another contradicts
the one that stands for the group or has an ally that does. `LogicalIsAudited` is about
transactions: the store with its open transaction undone is always an accepted one, by
`Refinement`. `GuardAssumption` says that `Legal` is the audit's and that the policies
`require_reciprocal_supersession` and `detect_structured_conflicts` are on.

`CyclesAlwaysFound`, the last theorem, is about a pure function: `_supersession_cycle`, a
depth-first search with a stack of its own, whose entries are records to visit or to leave,
answers that there is a cycle exactly if some set of records exists of which each supersedes
another, for any number of records. `Sound` is its loop invariant: the active records are
those with an entry to leave, once each (`ActiveInv`); each entry is superseded by the last
active record below it (`ChainInv`), so that an active record met again closes a cycle; what
an active record supersedes is done or still above it (`PendingInv`); what is done supersedes
only what is done, and there is no cycle in it (`DoneInv`). `Cost` is its variant: with it
`SearchEnds` shows that `SearchBound` steps, N(N + 3) for N records, are enough, the bound that the model's
recursion is cut at.

**`WriterLockProofs`.** `LockTypeCorrect`, `LockExcludesUnlessTaken` and `LockNamesHolder`
hold of any number of recoveries at once and whatever fails. They rest on `HeldInv`: as long as
no live process's directory has been removed, only one process is at work between its mkdir and
its rmdir, on a directory that is there all the while, unsigned or signed as that process's
place in the code says. `TakenUnderStrain` assumes `OneRecoverer`, that recover-lock commands do
not overlap; the run `lock_two_recoverers` shows that the assumption is needed. It rests on
`StrainInv`: as long as no mkdir has failed and no live process has outlasted the limit, a lock
over the limit has nobody at work on it, and what a recovery has inspected is such a lock until
it renames it, since nobody can sign, release or replace it meanwhile. `LockExcludes` puts the
two together: where these two faults do not happen either, exclusion is unconditional.

**`CandidateInboxProofs`.** `CandidateTypeCorrect`, `MarkIsReceipt`, `OneMark`,
`RejectionStands` and `PromotionLosesNothing`. That a candidate marked promoted has its
receipt is not inductive: the mark is written from the memory of the command, so the
invariant also says that a receipt stays in the store and names the candidate
(`ReceiptInv`), that the command in between has it (`PromotingInv`), and that a rejection
file belongs to the candidate's mark (`RejectionInv`).

**`CaptureInboxProofs`.** `InboxTypeCorrect`; `NothingDangles` and
`CheckpointOnlyAdvances`, from what the running command has already written when it stands
at each of its three stages (`RefInv`); and `ReplayPreventsForks`, which assumes
`ReplayFirst` and `HostsAdvance` (the cursors of a source have an order that its requests
follow). Its invariant `ForkInv` says that a request written ahead of the checkpoint is
the only one there and is still owed a replay. The run `capture_fork` shows that
`ReplayFirst` is needed. Under the same two, `ChainsStayLinear`: a source that owes no replay
has one chain of envelopes from the null cursor to its checkpoint, and no candidate is without
its envelope. `WalkInv` has the chain up to the checkpoint at every moment, and `OrphanInv` a
candidate without an envelope only while its request is at work or owed.

**`MutationPlansProofs`.** `PlansTypeCorrect`; `LedgersStayAudited` and `EvidenceStays`,
which need no more than the types; `AppliedPlansStay`; and `MarkedPlansAreCommitted` and
`ResultsHaveAuthors`, which do need an invariant, since the mark is written from what a
process has kept from earlier sections. It says that a receipt under a plan's id is of
that plan's batch (`ReceiptInv`), and likewise the batch in progress, whose author waits
for it (`WritingInv`); that a process reads only after the commit (`JobInv`); and that what
lies in a record of a committed plan (`PlaceInv`), hence what a process has read there
(`SeenInv`), is the plan's value or one that another transaction writes. The lemmas of
"What only grows" carry these over any step of the others.
`TasksStayOrdered` says that the tasks reported for a ledger come each once and after all
that they depend on. It is an induction over the set of tasks still to be ordered: what
`topological_order` returns is never out of order, and it is complete if it is as long as
the ledger, which the audit of every append checks. `LedgerAssumption` says for it that a
submitted batch is finite.

**`MigrationsProofs`.** `MigrationsTypeCorrect`, `CompleteMigrationsStay`, `DriftHasACause`,
`MigrationsKeepMeaning`. Each is about what a step may do to a record that some earlier step
saved elsewhere, so the invariant relates the places: `BackupInv` says that, while a
migration runs, a record is as in the backup or the current form of that, and that it is then
still to be restored once restoring has begun; `PlanInv` that only legacy values are planned;
`DriftInv` that what the running migration would leave if undone (`Base`) is something the open
transaction recognises; `CompleteInv` that store, saved values and backup are all free of
legacy values once a migration is complete. `PutSteps` sums up what batches do to these.

**`OnboardingProofs`.** `OnboardingTypeCorrect`, `AdoptersAlwaysAlone`, `OnlyStraysReported`.
That an adoption is alone in its staging is not a matter of the marker only, which may have
been cleared since the last one: it rests on the plan that was confirmed, which is safe only
of a root without staging directories (`AgreedInv`), and on the second look at the root under
the marker. That the audits find nothing but strays wherever a command stops rests on what it renames being what
it has built (`StagingInv`), on a command past its adoption working on a sidecar of its own
identity (`AdoptedInv`), and on a decision being written only after its plan (`EvidenceInv`).
`ReviewedPlans` shows that a plan put together from a status and an adoption plan has the
actions that the validation expects. `KeepsPromise` proves the refinement: every step of a
command, with the adoption underneath, and every death is one step of `Onboarded` or nothing
to it. `NoPlanAssumption` says for it that no plan is `None`.

**`CodexBridgeProofs`.** `IndexAlwaysAgrees` rests on `RepositoryInv` (the records
on disk are a committed store, or the batch under way has one to go back to) and `IndexInv`:
what is saved is what a scan gave, on some day and under some configuration, of a committed
store. `ContextsStayCommitted` and `BridgeAlwaysPasses` rest on what a command holds between two
of its critical sections: a bundle compiled from a committed store, stored before its session
is (`PreparedInv`); a report that agrees with a session, and from its append on one that is in
the ledger (`ReportedInv`); and on `ObservedInv`, that every observation is of such a report. The other three theorems are about every bundle that `compile_context`
can return, for any store, query, sizes of records and number of terms:

- `TypesHold`: what it computes is a bundle; sums over records are numbers, and the ranking,
  a `CHOOSE` of an order, exists and lists each record once, best first;
- `RelationsStayFollowed`: the breadth-first search scores a record exactly if a path of
  eligible records of at most `depth` links leads to it from a direct match. The induction is
  over the rounds: after n of them the scored records are those within n links, the frontier
  those at exactly n;
- `BudgetsAreKept`: the induction is over the places of the ranking. What has been taken keeps
  to both limits and its bytes are the sum of its sizes; a record refused would not have
  fitted then and, since what is taken only grows, does not fit at the end.

Inductions over data are carried out with `NumbersInduction` and `UpTo`, which are facts about
sets of numbers and follow from the library's `WFMin`. That a recursive function exists
is shown by building it step by step (`LeadsExist`, `StepsExist`).

Only model-checked: the eight liveness properties (`LockIsReturned`, `OpenIsClosed`,
`CommittedIsReconciled`, `InterruptedIsFinished`, `CommittedIsMarked`, `MigrationConverges`,
`AdoptedIsDecided`, `InterruptedIsObserved`), since the prover does not reach fairness, and
the four violations. Every invariant, every action property and both refinements that a
run checks are theorems.

## 6. What is not modelled, and why

Configuration parsing, JSON schemas, content scanning of requests, the loading of policy packs
and the CLI are pure functions of their input: they refuse a command before it writes anything,
and the models' inputs are the ones they accept. `query_memory` shares its ranking with
`compile_context` and writes nothing. Interrupts are left out except in the wait for the lock,
where one is a failing mkdir (section 4). The temporary file of a write that died is left out of
`CandidateInbox`, `CaptureInbox`, `EpisodeLedgers`, `MutationPlans` and `CodexBridge`, which
take it as removed at once. In the code it makes audit-capture (`capture/store.py:353-359,
494-501`), audit-codex (`adapters/codex_bridge.py:621-627, 647-649`) and the audit of
`continuity/store.py:1043-1076` report an unexpected entry, so `ChainsAreLinear`,
`BridgeAuditPasses` and `LedgersPassAudit` are about the artifacts that these audits read, not
about the rest of what lies beside them; and listing candidates (472-475) and loading episodes
(677-683) fail until somebody removes it. Path checks (symlinks, traversal) and directory fsync are
below the level of these models: a replaced file is taken to be durable. Edits of files by
hand, and clocks that jump, are not modelled. A source's cursors are taken never to repeat
(a source that returns to an earlier cursor makes `audit-capture` report a cycle). The
remaining components are planned below. `scripts/` and the release tooling are not part of
the running system.

## 7. Plan

In order of what depends on it:

1. done: `WriterLock`, `RecordTransactions` over `AtomicStore`, with proofs;
   `CandidateInbox` and `CaptureInbox`, with proofs.
2. done: `EpisodeLedgers` over the two document modules, and `MutationPlans`, with proofs.
3. done: `RepositoryAudit`, with `AuditedTransactions` and its proof. Left: an audit beside
   a writer, reading file by file, and a day that moves.
4. done: `Migrations`, with the backup they use, and proofs. Left: `restore_backup` to a new
   directory, staged and renamed.
5. done: `Adoption` with `Onboarding`, over `Onboarded`, with proofs.
6. done: `ContextCompiler`, `ContextIndex` and `CodexBridge`, with proofs.
7. The telemetry limits, as recursive functions against a reference definition.
8. done: that capture chains are linear, that cycles of supersession are found and that tasks
   are ordered, as theorems.
