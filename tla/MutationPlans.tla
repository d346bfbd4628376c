---------------------------- MODULE MutationPlans ----------------------------
(***************************************************************************)
(* Mutation plans of continuity/store.py: a stored plan binds a batch of   *)
(* records to its evidence, and apply-plan writes the batch and marks the  *)
(* plan applied with the digests of the records.                           *)
(*                                                                         *)
(* Applying a plan is not one critical section.  A process loads the plan, *)
(* calls put_records, which takes the lock and gives it back, reads the    *)
(* records it has written, and takes the lock again for the mark.  Others  *)
(* run in between, and since the reading is not locked it can meet the     *)
(* files of a batch that is only half written or will be rolled back.  So  *)
(* put_records is AtomicStore here with its files showing: writing is the  *)
(* batch in progress, which AtomicStore applies or drops at its end.       *)
(***************************************************************************)
EXTENDS EpisodeLedgers, RecordBatches

CONSTANTS
  Plans,         \* plan ids; each is also the id of its transaction
  Bodies,        \* what a plan may say
  Appliers,      \* processes that run apply-plan
  WriterIds,     \* transaction ids of other batches, which bound their number
  OtherBatches,  \* what other commands write to the record store
  Nobody,        \* the other commands, as an author of a batch
  NoPlan, NoWrite,
  MaxFaults      \* bound on failed batches and on processes cut short

Statuses == {"proposed", "applied"}
BodyType == [receipt : DocIds, evaluation : DocIds, context : Contexts, batch : Requests]
PlanType == [body : Bodies, status : Statuses, result : Stores]
Steps == {"idle", "put", "wait", "hash", "mark"}
Ids == Plans \cup WriterIds
WriteType == [author : Appliers \cup {Nobody}, id : Ids, batch : Requests,
              done : SUBSET Records]

\* apply_mutation_plan overwrites, and expects of every record the revision that
\* the plan names, or that there is none.
ASSUME PlanAssumption ==
  /\ Plans \cap WriterIds = {}
  /\ Bodies \subseteq BodyType
  /\ \A b \in Bodies :
       b.batch.overwrite /\ b.batch.guarded /\ Touched(b.batch) # {}
  /\ OtherBatches \subseteq Requests
  /\ NoPlan \notin PlanType \cup Plans /\ NoWrite \notin WriteType
  /\ Nobody \notin Appliers
  /\ MaxFaults \in Nat

VARIABLES
  contents,  \* the records, as far as they are committed
  outcome,   \* the transaction receipts
  writing,   \* the batch that holds the lock, and which of its files are replaced
  plan,      \* MPL-<id>.json
  pc, job,   \* where each process stands, and with which plan
  left, seen,\* the records it has yet to read, and what it has read
  faults     \* faults so far

recordStore == <<contents, outcome>>
process == <<pc, job, left, seen>>
vars == <<evidence, recordStore, writing, plan, process, faults>>

AS == INSTANCE AtomicStore

TypeOK ==
  /\ EvidenceTypeOK
  /\ contents \in Stores
  /\ outcome \in [Ids -> AS!Outcomes]
  /\ writing \in WriteType \cup {NoWrite}
  /\ plan \in [Plans -> PlanType \cup {NoPlan}]
  /\ pc \in [Appliers -> Steps]
  /\ job \in [Appliers -> Plans \cup {NoPlan}]
  /\ left \in [Appliers -> SUBSET Records]
  /\ seen \in [Appliers -> Stores]
  /\ faults \in 0..MaxFaults

Unread == [r \in Records |-> Absent]

Init ==
  /\ EvidenceInit
  /\ AS!Init
  /\ writing = NoWrite
  /\ plan = [p \in Plans |-> NoPlan]
  /\ pc = [a \in Appliers |-> "idle"]
  /\ job = [a \in Appliers |-> NoPlan]
  /\ left = [a \in Appliers |-> {}]
  /\ seen = [a \in Appliers |-> Unread]
  /\ faults = 0

Batch(p) == plan[p].body.batch
LockFree == writing = NoWrite

\* The file of a record, as a process sees it that does not hold the lock.
OnDisk(r) ==
  IF writing # NoWrite /\ r \in writing.done THEN writing.batch.writes[r]
  ELSE contents[r]

InPlace(p) == \A r \in Touched(Batch(p)) : OnDisk(r) = Batch(p).writes[r]

-----------------------------------------------------------------------------
(* store_mutation_plan                                                     *)

\* _validate_plan_evidence.
HasEvidence(b) ==
  /\ \E d \in OfKind(Stored("orchestration"), "execution_receipt") :
       d.id = b.receipt /\ d.context = b.context
  /\ \E d \in OfKind(Stored("orchestration"), "evaluation") :
       d.id = b.evaluation /\ d.receipt = b.receipt /\ d.outcome = "pass"
  /\ b.context \in contexts

\* A plan is stored once: another body under its id is refused.  A mutant does
\* not ask for evidence.
StorePlan_Unproven(p, b) ==
  /\ LockFree
  /\ plan[p] = NoPlan
  /\ plan' = [plan EXCEPT ![p] = [body |-> b, status |-> "proposed", result |-> Unread]]
  /\ UNCHANGED <<evidence, recordStore, writing, process, faults>>

StorePlan(p, b) ==
  /\ LockFree
  /\ plan[p] = NoPlan
  /\ HasEvidence(b)
  /\ plan' = [plan EXCEPT ![p] = [body |-> b, status |-> "proposed", result |-> Unread]]
  /\ UNCHANGED <<evidence, recordStore, writing, process, faults>>

-----------------------------------------------------------------------------
(* apply_mutation_plan                                                     *)

Go(a, step) == pc' = [pc EXCEPT ![a] = step]

\* The plan is read without the lock; its body will not change, its status may.
LoadPlan(a, p) ==
  /\ pc[a] = "idle"
  /\ plan[p] # NoPlan
  /\ Go(a, "put")
  /\ job' = [job EXCEPT ![a] = p]
  /\ UNCHANGED <<evidence, recordStore, writing, plan, left, seen, faults>>

Begin(author, t, rq) ==
  /\ LockFree
  /\ outcome[t] = AS!Unused
  /\ AS!Admissible(contents, rq)
  /\ writing' = [author |-> author, id |-> t, batch |-> rq, done |-> {}]
  /\ UNCHANGED <<evidence, recordStore, plan, faults>>

\* put_records, with a transaction id that is new.
BeginPut(a) ==
  /\ pc[a] = "put"
  /\ Begin(a, job[a], Batch(job[a]))
  /\ Go(a, "wait")
  /\ UNCHANGED <<job, left, seen>>

\* Every record of the plan is read.  The mutant reads one of them.
StartReading_One(a) ==
  /\ Go(a, "hash")
  /\ \E r \in Touched(Batch(job[a])) : left' = [left EXCEPT ![a] = {r}]
  /\ seen' = [seen EXCEPT ![a] = Unread]
  /\ UNCHANGED job

StartReading(a) ==
  /\ Go(a, "hash")
  /\ left' = [left EXCEPT ![a] = Touched(Batch(job[a]))]
  /\ seen' = [seen EXCEPT ![a] = Unread]
  /\ UNCHANGED job

\* put_records answers with the receipt of an earlier call, if its results are
\* in place.  The first mutant takes a rolled back call for a committed one, the
\* second knows no receipts.
Answered_RolledBack(p) == outcome[p] # AS!Unused /\ InPlace(p)
Answered_Never(p) == FALSE
Answered(p) == outcome[p].state = "applied" /\ InPlace(p)

PutAnswered(a) ==
  /\ pc[a] = "put"
  /\ LockFree
  /\ Answered(job[a])
  /\ StartReading(a)
  /\ UNCHANGED <<evidence, recordStore, writing, plan, faults>>

\* Revisions have moved on, or an earlier call was rolled back or has drifted.
PutRefused(a) ==
  /\ pc[a] = "put"
  /\ LockFree
  /\ ~Answered(job[a])
  /\ outcome[job[a]] = AS!Unused => ~AS!Admissible(contents, Batch(job[a]))
  /\ Go(a, "idle")
  /\ UNCHANGED <<evidence, recordStore, writing, plan, job, left, seen, faults>>

\* The files of the batch in progress are replaced one by one.
ReplaceFile(r) ==
  /\ writing # NoWrite
  /\ r \in Touched(writing.batch) \ writing.done
  /\ writing' = [writing EXCEPT !.done = @ \cup {r}]
  /\ UNCHANGED <<evidence, recordStore, plan, process, faults>>

Written == writing # NoWrite /\ writing.done = Touched(writing.batch)

\* The batch commits.  The process that applies a plan goes on to read.
Commit ==
  /\ Written
  /\ AS!Apply(writing.id, writing.batch)
  /\ writing' = NoWrite
  /\ IF writing.author = Nobody THEN UNCHANGED process ELSE StartReading(writing.author)
  /\ UNCHANGED <<evidence, plan, faults>>

\* The audit refuses the batch, or it fails, or its process dies and an operator
\* recovers lock and transaction: all is as before, but its id is spent.
RollBack ==
  /\ writing # NoWrite
  /\ AS!Drop(writing.id, writing.batch)
  /\ \/ Written /\ AS!Effect(contents, writing.batch) \notin Legal /\ UNCHANGED faults
     \/ faults < MaxFaults /\ faults' = faults + 1
  /\ writing' = NoWrite
  /\ IF writing.author = Nobody THEN UNCHANGED pc ELSE Go(writing.author, "idle")
  /\ UNCHANGED <<evidence, plan, job, left, seen>>

\* sha256_file of each record of the plan, without the lock.
ReadRecord(a, r) ==
  /\ pc[a] = "hash"
  /\ r \in left[a]
  /\ OnDisk(r) # Absent
  /\ seen' = [seen EXCEPT ![a][r] = OnDisk(r)]
  /\ left' = [left EXCEPT ![a] = @ \ {r}]
  /\ IF left[a] = {r} THEN Go(a, "mark") ELSE UNCHANGED pc
  /\ UNCHANGED <<evidence, recordStore, writing, plan, job, faults>>

\* The plan is read again: if it is applied by now, the call answers with it, or
\* with an error if it has read other results.
MarkApplied(a) ==
  /\ pc[a] = "mark"
  /\ LockFree
  /\ IF plan[job[a]].status = "applied" THEN UNCHANGED plan
     ELSE plan' = [plan EXCEPT ![job[a]].status = "applied", ![job[a]].result = seen[a]]
  /\ Go(a, "idle")
  /\ UNCHANGED <<evidence, recordStore, writing, job, left, seen, faults>>

\* A process dies, or a call of it fails, while it holds no lock.
Die(a) ==
  /\ pc[a] \in {"put", "hash", "mark"}
  /\ faults < MaxFaults /\ faults' = faults + 1
  /\ Go(a, "idle")
  /\ UNCHANGED <<evidence, recordStore, writing, plan, job, left, seen>>

BeginOther(w, rq) == Begin(Nobody, w, rq) /\ UNCHANGED process

\* The evidence grows.
AddEvidence ==
  /\ LockFree
  /\ EvidenceNext
  /\ UNCHANGED <<recordStore, writing, plan, process, faults>>

Applying(a) ==
  \/ BeginPut(a) \/ PutAnswered(a) \/ PutRefused(a)
  \/ \E r \in Records : ReadRecord(a, r)
  \/ MarkApplied(a)

Next ==
  \/ AddEvidence
  \/ \E p \in Plans, b \in Bodies : StorePlan(p, b)
  \/ \E a \in Appliers :
       Applying(a) \/ Die(a) \/ \E p \in Plans : LoadPlan(a, p)
  \/ \E w \in WriterIds, rq \in OtherBatches : BeginOther(w, rq)
  \/ \E r \in Records : ReplaceFile(r)
  \/ Commit \/ RollBack

Spec == Init /\ [][Next]_vars

(***************************************************************************)
(* Commands run on until they die, and the operator follows the audit's    *)
(* "rerun apply-plan to reconcile".  Processes may be busy with other      *)
(* plans whenever the audit says so: that they are free for it again and   *)
(* again is enough.                                                        *)
(***************************************************************************)
NeedsReconciliation(p) ==
  plan[p] # NoPlan /\ plan[p].status = "proposed" /\ InPlace(p)

Fairness ==
  /\ WF_vars(\E r \in Records : ReplaceFile(r)) /\ WF_vars(Commit \/ RollBack)
  /\ \A a \in Appliers : WF_vars(Applying(a))
  /\ \A p \in Plans :
       SF_vars(NeedsReconciliation(p) /\ \E a \in Appliers : LoadPlan(a, p))

FairSpec == Spec /\ Fairness

-----------------------------------------------------------------------------
(* Properties                                                              *)

\* Every stored plan rests on evidence that is there, now and whenever it is
\* applied: a receipt made in the context it names, and a passing evaluation of
\* that receipt.
PlansHaveEvidence ==
  \A p \in Plans : plan[p] # NoPlan => HasEvidence(plan[p].body)

\* A plan is marked applied only when its own batch was committed, also by a
\* process that did not commit it.
AppliedIsCommitted ==
  \A p \in Plans :
    plan[p] # NoPlan /\ plan[p].status = "applied" =>
      outcome[p] = [state |-> "applied", request |-> Batch(p)]

\* The transactions that have written a record or are about to.
Wrote(t, r) ==
  \/ outcome[t] # AS!Unused /\ r \in Touched(outcome[t].request)
  \/ writing # NoWrite /\ writing.id = t /\ r \in Touched(writing.batch)

\* A result that a plan records and that is not the one it proposed is another
\* transaction's, never one that nobody wrote or a result left unread.
ForeignResultsHaveAuthors ==
  \A p \in Plans : plan[p] # NoPlan /\ plan[p].status = "applied" =>
    \A r \in Touched(Batch(p)) :
      plan[p].result[r] # Batch(p).writes[r] =>
        plan[p].result[r] # Absent /\ \E t \in Ids \ {p} : Wrote(t, r)

\* Applied once, a plan keeps its receipt: a second process that was applying it
\* neither replaces the results nor makes the plan pending again.
AppliedIsFinal ==
  [][\A p \in Plans :
       plan[p] # NoPlan /\ plan[p].status = "applied" => plan'[p] = plan[p]]_vars

\* A committed plan ends up marked, unless one of its records is changed first.
CommittedIsMarked ==
  \A p \in Plans :
    outcome[p].state = "applied" ~>
      /\ plan[p] # NoPlan
      /\ \/ plan[p].status = "applied"
         \/ \E r \in Touched(Batch(p)) : contents[r] # Batch(p).writes[r]

\* docs/continuity.md: the result of an applied plan is what its transaction's
\* receipt says, on which every replay converges.
ResultIsReceipt ==
  \A p \in Plans : plan[p] # NoPlan /\ plan[p].status = "applied" =>
    \A r \in Touched(Batch(p)) : plan[p].result[r] = Batch(p).writes[r]
=============================================================================
