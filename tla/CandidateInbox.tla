---------------------------- MODULE CandidateInbox ----------------------------
(***************************************************************************)
(* The candidate inbox of continuity/store.py: captured candidates are     *)
(* reviewed through hash-bound previews, and then promoted into the record *)
(* store or rejected for good.                                             *)
(*                                                                         *)
(* The record store is AtomicStore, which put_records implements           *)
(* (RecordTransactions): a promotion is the batch of one record submitted  *)
(* under the id derived from "promote:<candidate>", here the candidate     *)
(* itself.  A digest is equal exactly when its contents are, so a preview  *)
(* digest is the preview, and a record's SHA-256 is its contents.          *)
(*                                                                         *)
(* Every command runs under the writer lock, so commands do not overlap.   *)
(* A promotion has two durable effects, the record and then the            *)
(* candidate's mark, and its process may die or fail between them.         *)
(***************************************************************************)
EXTENDS RecordBatches, Naturals

CONSTANTS
  Candidates,    \* candidate ids; each is also its promotion's transaction id
  WriterIds,     \* transaction ids of other batches, which bound their number
  OtherBatches,  \* what other commands write to the record store
  Proposals,     \* what a captured candidate may propose
  Nothing,       \* no candidate, no decision, no preview, no promotion
  MaxFaults      \* bound on failed batches and on promotions cut short

Operations == {"create", "update"}
ProposalType == [record : Records, value : Values, operation : Operations,
                 expected : Contents]

\* A create carries no expected digest; put_record then checks none, and relies
\* on overwrite being off.  The mutant overwrites always.
PromotionBatch_Overwrite(p) ==
  [writes |-> [r \in Records |-> IF r = p.record THEN p.value ELSE Absent],
   overwrite |-> TRUE,
   guarded |-> p.expected # Absent,
   expected |-> [r \in Records |-> IF r = p.record THEN p.expected ELSE Absent]]

PromotionBatch(p) ==
  [writes |-> [r \in Records |-> IF r = p.record THEN p.value ELSE Absent],
   overwrite |-> p.operation = "update",
   guarded |-> p.expected # Absent,
   expected |-> [r \in Records |-> IF r = p.record THEN p.expected ELSE Absent]]

Statuses == {"pending", "promoted"}
CandidateType == [proposal : Proposals, status : Statuses, result : Contents]
Situations == {"pending", "promoted", "rejected", "promotion-needs-reconciliation",
               "blocked-rejection-drift", "blocked-missing-record",
               "blocked-current-record", "blocked-stale-revision"}
PreviewType == [candidate : CandidateType, situation : Situations, current : Contents]
RejectionType == [candidate : CandidateType, preview : PreviewType]

\* _prepare_candidate refuses a create that expects a revision and an update
\* that expects none.
ASSUME InboxAssumption ==
  /\ Candidates \cap WriterIds = {}
  /\ Proposals \subseteq {p \in ProposalType : p.operation = "create" <=> p.expected = Absent}
  /\ OtherBatches \cup {PromotionBatch(p) : p \in Proposals} \subseteq Requests
  /\ Nothing \notin Candidates \cup CandidateType \cup PreviewType \cup RejectionType
  /\ MaxFaults \in Nat

VARIABLES
  contents,   \* the records
  outcome,    \* the transaction receipts
  candidate,  \* CND-<id>.json
  rejection,  \* candidate-decisions/CND-<id>.json
  reviewed,   \* the preview of each candidate that a reviewer has in hand
  promoting,  \* the candidate whose record is in place and whose mark is due
  faults      \* faults so far

vars == <<contents, outcome, candidate, rejection, reviewed, promoting, faults>>
recordStore == <<contents, outcome>>

AS == INSTANCE AtomicStore WITH Ids <- Candidates \cup WriterIds

Is(c) == candidate[c] # Nothing
Record(c) == candidate[c].proposal.record
Value(c) == candidate[c].proposal.value
Observed(c) == contents[Record(c)]

TypeOK ==
  /\ contents \in Stores
  /\ outcome \in [Candidates \cup WriterIds -> AS!Outcomes]
  /\ candidate \in [Candidates -> CandidateType \cup {Nothing}]
  /\ rejection \in [Candidates -> RejectionType \cup {Nothing}]
  /\ reviewed \in [Candidates -> PreviewType \cup {Nothing}]
  /\ promoting \in Candidates \cup {Nothing}
  /\ faults \in 0..MaxFaults

Init ==
  /\ AS!Init
  /\ candidate = [c \in Candidates |-> Nothing]
  /\ rejection = [c \in Candidates |-> Nothing]
  /\ reviewed = [c \in Candidates |-> Nothing]
  /\ promoting = Nothing
  /\ faults = 0

-----------------------------------------------------------------------------
(* Previews                                                                *)

\* _effective_situation of an undecided candidate, from the record it is about.
PendingSituation(c) ==
  LET p == candidate[c].proposal IN
  CASE Observed(c) = Absent ->
         IF p.operation = "create" THEN "pending" ELSE "blocked-missing-record"
    [] Observed(c) = p.value -> "promotion-needs-reconciliation"
    [] Observed(c) \notin {Absent, p.value} /\ p.operation = "create" ->
         "blocked-current-record"
    [] Observed(c) \notin {Absent, p.value} /\ p.operation = "update" ->
         IF Observed(c) = p.expected THEN "pending" ELSE "blocked-stale-revision"

Situation(c) ==
  IF rejection[c] # Nothing
  THEN IF rejection[c].candidate = candidate[c] THEN "rejected" ELSE "blocked-rejection-drift"
  ELSE IF candidate[c].status = "promoted" THEN "promoted" ELSE PendingSituation(c)

Preview(c) ==
  [candidate |-> candidate[c], situation |-> Situation(c), current |-> Observed(c)]

-----------------------------------------------------------------------------
(* The commands                                                            *)

LockFree == promoting = Nothing

\* An idempotency key captured before is answered with its candidate, or refused
\* if the request differs.
Capture(c, p) ==
  /\ LockFree
  /\ ~Is(c)
  /\ candidate' = [candidate EXCEPT ![c] =
       [proposal |-> p, status |-> "pending", result |-> Absent]]
  /\ UNCHANGED <<recordStore, rejection, reviewed, promoting, faults>>

Review(c) ==
  /\ LockFree
  /\ Is(c)
  /\ reviewed' = [reviewed EXCEPT ![c] = Preview(c)]
  /\ UNCHANGED <<recordStore, candidate, rejection, promoting, faults>>

\* A second rejection is answered with the first one, or refused.
Reject(c) ==
  /\ LockFree
  /\ Is(c) /\ candidate[c].status # "promoted"
  /\ rejection[c] = Nothing
  /\ reviewed[c] = Preview(c)
  /\ Situation(c) # "promotion-needs-reconciliation"
  /\ rejection' = [rejection EXCEPT ![c] =
       [candidate |-> candidate[c], preview |-> reviewed[c]]]
  /\ UNCHANGED <<recordStore, candidate, reviewed, promoting, faults>>

\* What promote_candidate checks before it submits its batch.  The mutant
\* forgets to look for a rejection.
MayPromote_IgnoresRejection(c) ==
  /\ LockFree
  /\ Is(c) /\ candidate[c].status # "promoted"
  /\ reviewed[c] = Preview(c)

MayPromote(c) ==
  /\ LockFree
  /\ Is(c) /\ candidate[c].status # "promoted"
  /\ rejection[c] = Nothing
  /\ reviewed[c] = Preview(c)

\* The batch is new and commits.
PromoteRecord(c) ==
  /\ MayPromote(c)
  /\ AS!Apply(c, PromotionBatch(candidate[c].proposal))
  /\ promoting' = c
  /\ UNCHANGED <<candidate, rejection, reviewed, faults>>

\* The receipt of an earlier attempt answers, while its result is in place.  The
\* first mutant does not look whether it is, the second knows no receipts.
Receipt_Drifted(c) == outcome[c].state = "applied"
Receipt_None(c) == FALSE
Receipt(c) == outcome[c].state = "applied" /\ Observed(c) = Value(c)

PromoteFromReceipt(c) ==
  /\ MayPromote(c)
  /\ Receipt(c)
  /\ promoting' = c
  /\ UNCHANGED <<recordStore, candidate, rejection, reviewed, faults>>

\* The batch is rolled back, because the audit refuses its result or because
\* a call of it fails.  The receipt then answers every later attempt with an error.
PromotionRolledBack(c) ==
  /\ MayPromote(c)
  /\ LET batch == PromotionBatch(candidate[c].proposal) IN
       /\ AS!Admissible(contents, batch)
       /\ AS!Drop(c, batch)
       /\ \/ AS!Effect(contents, batch) \notin Legal /\ UNCHANGED faults
          \/ faults < MaxFaults /\ faults' = faults + 1
  /\ UNCHANGED <<candidate, rejection, reviewed, promoting>>

MarkPromoted ==
  /\ promoting # Nothing
  /\ candidate' = [candidate EXCEPT
       ![promoting].status = "promoted",
       ![promoting].result = Observed(promoting)]
  /\ promoting' = Nothing
  /\ UNCHANGED <<recordStore, rejection, reviewed, faults>>

\* The process dies, or the write of the mark fails.  A dead process's lock is
\* recovered by an operator.
MarkLost ==
  /\ promoting # Nothing
  /\ faults < MaxFaults /\ faults' = faults + 1
  /\ promoting' = Nothing
  /\ UNCHANGED <<recordStore, candidate, rejection, reviewed>>

\* Other commands write records: put-fact, plans, migrations.
OtherWrite(w, batch) ==
  /\ LockFree
  /\ AS!Apply(w, batch)
  /\ UNCHANGED <<candidate, rejection, reviewed, promoting, faults>>

Promote(c) == PromoteRecord(c) \/ PromoteFromReceipt(c)

Next ==
  \/ \E c \in Candidates, p \in Proposals : Capture(c, p)
  \/ \E c \in Candidates :
       Review(c) \/ Reject(c) \/ Promote(c) \/ PromotionRolledBack(c)
  \/ MarkPromoted \/ MarkLost
  \/ \E w \in WriterIds, batch \in OtherBatches : OtherWrite(w, batch)

Spec == Init /\ [][Next]_vars

(***************************************************************************)
(* A promotion that is not cut short goes on to its mark, and the operator *)
(* follows the audit's "rerun promotion to reconcile": a new preview, and  *)
(* the promotion again.                                                    *)
(***************************************************************************)
NeedsReconciliation(c) == Is(c) /\ Situation(c) = "promotion-needs-reconciliation"

Fairness ==
  /\ WF_vars(MarkPromoted)
  /\ \A c \in Candidates :
       /\ WF_vars(NeedsReconciliation(c) /\ Review(c))
       /\ WF_vars(NeedsReconciliation(c) /\ Promote(c))

FairSpec == Spec /\ Fairness

-----------------------------------------------------------------------------
(* Properties                                                              *)

\* A candidate is marked promoted only when its batch committed, and the record
\* digest in its receipt is the one that was proposed and reviewed, even when
\* the mark is written by a later attempt than the record.
PromotedIsCommitted ==
  \A c \in Candidates :
    Is(c) /\ candidate[c].status = "promoted" =>
      /\ outcome[c] = [state |-> "applied",
                       request |-> PromotionBatch(candidate[c].proposal)]
      /\ candidate[c].result = Value(c)

\* No candidate is marked promoted and holds a rejection.
MarkedOnce ==
  \A c \in Candidates :
    ~(Is(c) /\ candidate[c].status = "promoted" /\ rejection[c] # Nothing)

\* A rejection is final: the decision stays, the candidate it binds stays as it
\* was, and no promotion of it takes effect any more.
RejectionIsFinal ==
  [][\A c \in Candidates :
       rejection[c] # Nothing =>
         /\ rejection'[c] = rejection[c] /\ candidate'[c] = candidate[c]
         /\ outcome'[c] = outcome[c]]_vars

\* A promotion that takes effect replaces exactly the revision its candidate was
\* captured against: no other writer's update is lost.
NoLostUpdate ==
  [][\A c \in Candidates :
       outcome[c] = AS!Unused /\ outcome'[c].state = "applied" =>
         Observed(c) = candidate[c].proposal.expected]_vars

\* A committed promotion ends up marked, unless its record was changed since or
\* its candidate rejected.
CommittedIsReconciled ==
  \A c \in Candidates :
    outcome[c].state = "applied" ~>
      Is(c) /\ \/ candidate[c].status = "promoted"
               \/ Observed(c) # Value(c)
               \/ rejection[c] # Nothing

\* docs/continuity.md: one candidate cannot acquire both durable outcomes, a
\* committed promotion and a rejection.
OneDurableOutcome ==
  \A c \in Candidates : ~(outcome[c].state = "applied" /\ rejection[c] # Nothing)
=============================================================================
