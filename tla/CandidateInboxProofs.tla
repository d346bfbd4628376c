------------------------- MODULE CandidateInboxProofs -------------------------
(***************************************************************************)
(* Theorems about CandidateInbox, for every set of candidates, proposals,  *)
(* other writers and audits, and any number of promotions cut short.       *)
(***************************************************************************)
EXTENDS CandidateInbox, TLAPS

\* A receipt under a candidate's id is of the batch that the candidate proposes.
ReceiptInv ==
  \A c \in Candidates :
    outcome[c].state # "unused" =>
      /\ Is(c)
      /\ outcome[c].request = PromotionBatch(candidate[c].proposal)

\* Between its commit and its mark, a promotion's candidate is undecided, its
\* receipt says committed, and its record is what it proposes.
PromotingInv ==
  promoting # Nothing =>
    /\ Is(promoting) /\ candidate[promoting].status = "pending"
    /\ rejection[promoting] = Nothing
    /\ outcome[promoting].state = "applied"
    /\ Observed(promoting) = Value(promoting)

\* A rejection binds its candidate as it is: audit-continuity finds no drift.
RejectionInv ==
  \A c \in Candidates :
    rejection[c] # Nothing => Is(c) /\ rejection[c].candidate = candidate[c]

IInv ==
  /\ TypeOK
  /\ ReceiptInv /\ PromotingInv /\ RejectionInv
  /\ PromotedIsCommitted /\ MarkedOnce

-----------------------------------------------------------------------------
(* Candidates and their batches                                            *)

\* The parts of a candidate.
LEMMA CandidateFields ==
  ASSUME NEW x \in CandidateType
  PROVE  /\ x.proposal \in Proposals /\ x.status \in Statuses /\ x.result \in Contents
         /\ x.proposal.record \in Records /\ x.proposal.value \in Values
         /\ x.proposal.operation \in Operations /\ x.proposal.expected \in Contents
         /\ x.proposal.operation = "create" <=> x.proposal.expected = Absent
         /\ x # Nothing
  BY InboxAssumption DEF CandidateType, ProposalType

\* A promotion writes its record and no other one, and is admissible only on the
\* revision its candidate expects.
LEMMA PromotionEffect ==
  ASSUME NEW p \in Proposals, contents \in Stores
  PROVE  /\ PromotionBatch(p) \in Requests
         /\ AS!Effect(contents, PromotionBatch(p)) \in Stores
         /\ AS!Effect(contents, PromotionBatch(p))[p.record] = p.value
         /\ AS!Admissible(contents, PromotionBatch(p)) => contents[p.record] = p.expected
<1>1. /\ p.record \in Records /\ p.value \in Values /\ p.value # Absent
      /\ p.expected \in Contents /\ p.operation = "create" <=> p.expected = Absent
  BY InboxAssumption, BatchAssumption DEF ProposalType
<1>2. AS!Touched(PromotionBatch(p)) = {p.record}
  BY <1>1 DEF AS!Touched, PromotionBatch
<1>3. PromotionBatch(p) \in Requests
  BY InboxAssumption
<1>4. AS!Effect(contents, PromotionBatch(p)) =
        [r \in Records |-> IF r = p.record THEN p.value ELSE contents[r]]
  BY <1>2 DEF AS!Effect, PromotionBatch
<1>5. AS!Admissible(contents, PromotionBatch(p)) => contents[p.record] = p.expected
  BY <1>1, <1>2 DEF AS!Admissible, PromotionBatch, Operations
<1>6. QED
  BY <1>1, <1>3, <1>4, <1>5 DEF Stores, Contents

\* A batch that takes effect or is dropped changes one outcome, and leaves a
\* store of records.
LEMMA BatchStep ==
  ASSUME TypeOK, NEW t \in Candidates \cup WriterIds, NEW rq \in Requests,
         AS!Apply(t, rq) \/ AS!Drop(t, rq)
  PROVE  /\ contents' \in Stores
         /\ outcome' \in [Candidates \cup WriterIds -> AS!Outcomes]
         /\ \A u \in Candidates \cup WriterIds : u # t => outcome'[u] = outcome[u]
         /\ outcome[t].state = "unused" /\ outcome'[t].request = rq
         /\ outcome'[t].state = IF AS!Apply(t, rq) THEN "applied" ELSE "dropped"
  BY BatchAssumption DEF TypeOK, AS!Apply, AS!Drop, AS!Outcomes, AS!Unused

\* A preview is one of the situations of the code, with nothing left undecided.
LEMMA PreviewTyped ==
  ASSUME TypeOK, NEW c \in Candidates, Is(c)
  PROVE  Preview(c) \in PreviewType
<1>1. candidate[c] \in CandidateType
  BY DEF TypeOK, Is
<1>2. /\ candidate[c].proposal.record \in Records
      /\ candidate[c].proposal.operation \in Operations
  BY <1>1, CandidateFields
<1>3. Observed(c) \in Contents
  BY <1>2 DEF Observed, Record, TypeOK, Stores
<1>4. PendingSituation(c) \in Situations
  <2> DEFINE p == candidate[c].proposal
  <2>1. CASE Observed(c) = Absent
    <3>1. p.value # Absent
      BY <1>1, CandidateFields, BatchAssumption
    <3>2. PendingSituation(c) =
            IF p.operation = "create" THEN "pending" ELSE "blocked-missing-record"
      BY <2>1, <3>1 DEF PendingSituation
    <3>3. QED
      BY <3>2 DEF Situations
  <2>2. CASE Observed(c) = p.value
    <3>1. p.value # Absent
      BY <1>1, CandidateFields, BatchAssumption
    <3>2. PendingSituation(c) = "promotion-needs-reconciliation"
      BY <2>2, <3>1 DEF PendingSituation
    <3>3. QED
      BY <3>2 DEF Situations
  <2>3. CASE Observed(c) \notin {Absent, p.value} /\ p.operation = "create"
    <3>1. PendingSituation(c) = "blocked-current-record"
      BY <2>3 DEF PendingSituation
    <3>2. QED
      BY <3>1 DEF Situations
  <2>4. CASE Observed(c) \notin {Absent, p.value} /\ p.operation = "update"
    <3>1. PendingSituation(c) =
            IF Observed(c) = p.expected THEN "pending" ELSE "blocked-stale-revision"
      BY <2>4 DEF PendingSituation
    <3>2. QED
      BY <3>1 DEF Situations
  <2>5. QED
    BY <1>2, <2>1, <2>2, <2>3, <2>4 DEF Operations
<1>5. Situation(c) \in Situations
  BY <1>4 DEF Situation, Situations
<1>6. QED
  BY <1>1, <1>3, <1>5 DEF Preview, PreviewType

-----------------------------------------------------------------------------
(* The inductive invariant                                                 *)

\* Nothing is captured, promoted or rejected initially.
LEMMA IInvInit == Init => IInv
  BY InboxAssumption, BatchAssumption
     DEF Init, AS!Init, AS!Outcomes, AS!Unused, IInv, TypeOK, ReceiptInv, PromotingInv,
         RejectionInv, PromotedIsCommitted, MarkedOnce, Is

\* Every step preserves the types, action by action.
LEMMA TypeStep == TypeOK /\ PromotingInv /\ [Next]_vars => TypeOK'
<1> SUFFICES ASSUME TypeOK, PromotingInv, [Next]_vars PROVE TypeOK'
  OBVIOUS
<1> USE InboxAssumption
<1>1. ASSUME NEW c \in Candidates, NEW p \in Proposals, Capture(c, p) PROVE TypeOK'
  <2>1. [proposal |-> p, status |-> "pending", result |-> Absent] \in CandidateType
    BY DEF CandidateType, Statuses, Contents
  <2>2. QED
    BY <1>1, <2>1 DEF Capture, TypeOK, recordStore
<1>2. ASSUME NEW c \in Candidates, Review(c) PROVE TypeOK'
  <2>1. Preview(c) \in PreviewType
    BY <1>2, PreviewTyped DEF Review
  <2>2. QED
    BY <1>2, <2>1 DEF Review, TypeOK, recordStore
<1>3. ASSUME NEW c \in Candidates, Reject(c) PROVE TypeOK'
  <2>1. Preview(c) \in PreviewType /\ candidate[c] \in CandidateType
    BY <1>3, PreviewTyped DEF Reject, TypeOK, Is
  <2>2. [candidate |-> candidate[c], preview |-> reviewed[c]] \in RejectionType
    BY <1>3, <2>1 DEF Reject, RejectionType
  <2>3. QED
    BY <1>3, <2>2 DEF Reject, TypeOK, recordStore
<1>4. ASSUME NEW c \in Candidates, PromoteRecord(c) PROVE TypeOK'
  <2>1. PromotionBatch(candidate[c].proposal) \in Requests
    BY <1>4, CandidateFields, PromotionEffect DEF PromoteRecord, MayPromote, TypeOK, Is
  <2>2. QED
    BY <1>4, <2>1, BatchStep DEF PromoteRecord, TypeOK
<1>5. ASSUME NEW c \in Candidates, PromoteFromReceipt(c) PROVE TypeOK'
  BY <1>5 DEF PromoteFromReceipt, TypeOK, recordStore
<1>6. ASSUME NEW c \in Candidates, PromotionRolledBack(c) PROVE TypeOK'
  <2>1. PromotionBatch(candidate[c].proposal) \in Requests
    BY <1>6, CandidateFields, PromotionEffect DEF PromotionRolledBack, MayPromote, TypeOK, Is
  <2>2. AS!Drop(c, PromotionBatch(candidate[c].proposal)) /\ faults' \in 0..MaxFaults
    BY <1>6 DEF PromotionRolledBack, TypeOK
  <2>3. QED
    BY <1>6, <2>1, <2>2, BatchStep DEF PromotionRolledBack, TypeOK
<1>7. CASE MarkPromoted
  <2>1. promoting \in Candidates /\ candidate[promoting] \in CandidateType
    BY <1>7 DEF MarkPromoted, TypeOK, PromotingInv, Is
  <2>2. Observed(promoting) \in Contents
    BY <2>1, CandidateFields DEF Observed, Record, TypeOK, Stores
  <2>3. [candidate[promoting] EXCEPT !.status = "promoted", !.result = Observed(promoting)]
          \in CandidateType
    BY <2>1, <2>2 DEF CandidateType, Statuses
  <2>4. candidate' = [candidate EXCEPT ![promoting] =
          [candidate[promoting] EXCEPT !.status = "promoted", !.result = Observed(promoting)]]
    BY <1>7, <2>1 DEF MarkPromoted, TypeOK
  <2>5. QED
    BY <1>7, <2>1, <2>3, <2>4 DEF MarkPromoted, TypeOK, recordStore
<1>8. CASE MarkLost
  BY <1>8 DEF MarkLost, TypeOK, recordStore
<1>9. ASSUME NEW w \in WriterIds, NEW batch \in OtherBatches, OtherWrite(w, batch)
      PROVE TypeOK'
  BY <1>9, BatchStep DEF OtherWrite, TypeOK
<1>10. CASE UNCHANGED vars
  BY <1>10 DEF vars, TypeOK
<1>11. QED
  BY <1>1, <1>2, <1>3, <1>4, <1>5, <1>6, <1>7, <1>8, <1>9, <1>10 DEF Next, Promote

\* What a promotion may start from.
LEMMA MayPromoteIs ==
  ASSUME TypeOK, NEW c \in Candidates, MayPromote(c)
  PROVE  /\ promoting = Nothing /\ Is(c) /\ candidate[c].status = "pending"
         /\ candidate[c] \in CandidateType /\ rejection[c] = Nothing
         /\ PromotionBatch(candidate[c].proposal) \in Requests
<1>1. candidate[c] \in CandidateType
  BY DEF MayPromote, TypeOK, Is
<1>2. candidate[c].status = "pending"
  BY <1>1, CandidateFields DEF MayPromote, Statuses
<1>3. PromotionBatch(candidate[c].proposal) \in Requests
  BY <1>1, CandidateFields, PromotionEffect DEF TypeOK
<1>4. QED
  BY <1>1, <1>2, <1>3 DEF MayPromote, LockFree

\* A rejection stays, and so does the candidate it binds.
LEMMA DecisionStep ==
  ASSUME IInv, [Next]_vars, NEW c \in Candidates, rejection[c] # Nothing
  PROVE  rejection'[c] = rejection[c] /\ candidate'[c] = candidate[c]
<1>1. TypeOK /\ Is(c) /\ (promoting # Nothing => promoting # c)
  BY DEF IInv, PromotingInv, RejectionInv
<1>2. ASSUME NEW d \in Candidates, Reject(d)
      PROVE  rejection'[c] = rejection[c] /\ candidate'[c] = candidate[c]
  BY <1>1, <1>2 DEF Reject, TypeOK
<1>3. ASSUME NEW d \in Candidates, NEW p \in Proposals, Capture(d, p)
      PROVE  rejection'[c] = rejection[c] /\ candidate'[c] = candidate[c]
  <2>1. d # c
    BY <1>1, <1>3 DEF Capture
  <2>2. QED
    BY <1>1, <1>3, <2>1 DEF Capture, TypeOK
<1>4. CASE MarkPromoted
  BY <1>1, <1>4 DEF MarkPromoted, TypeOK
<1>5. CASE candidate' = candidate /\ rejection' = rejection
  BY <1>5
<1>6. QED
  BY <1>2, <1>3, <1>4, <1>5
     DEF Next, Promote, Review, PromoteRecord, PromoteFromReceipt, PromotionRolledBack,
         MarkLost, OtherWrite, vars

\* Every step keeps rejections bound to their candidates.
LEMMA RejectionStep == IInv /\ [Next]_vars => RejectionInv'
<1> SUFFICES ASSUME IInv, [Next]_vars, NEW c \in Candidates, rejection'[c] # Nothing
             PROVE  candidate'[c] # Nothing /\ rejection'[c].candidate = candidate'[c]
  BY DEF RejectionInv, Is
<1>0. TypeOK /\ RejectionInv
  BY DEF IInv
<1>1. CASE rejection[c] # Nothing
  BY <1>0, <1>1, DecisionStep DEF RejectionInv, Is
<1>2. CASE rejection[c] = Nothing
  <2>1. Reject(c)
    <3>1. ASSUME NEW d \in Candidates, Reject(d) PROVE d = c
      BY <1>0, <1>2, <3>1 DEF Reject, TypeOK
    <3>2. rejection' # rejection
      BY <1>2
    <3>3. QED
      BY <3>1, <3>2
         DEF Next, Promote, Capture, Review, PromoteRecord, PromoteFromReceipt,
             PromotionRolledBack, MarkPromoted, MarkLost, OtherWrite, vars
  <2>2. QED
    BY <1>0, <2>1 DEF Reject, TypeOK, Is
<1>3. QED
  BY <1>1, <1>2

\* Every step preserves the inductive invariant, action by action.
LEMMA IInvStep == IInv /\ [Next]_vars => IInv'
<1> SUFFICES ASSUME IInv, [Next]_vars PROVE IInv'
  OBVIOUS
<1> USE InboxAssumption
<1>0. /\ TypeOK /\ TypeOK' /\ ReceiptInv /\ PromotingInv /\ RejectionInv
      /\ PromotedIsCommitted /\ MarkedOnce
  BY TypeStep DEF IInv
<1>r. RejectionInv'
  BY RejectionStep
<1> SUFFICES ReceiptInv' /\ PromotingInv' /\ PromotedIsCommitted' /\ MarkedOnce'
  BY <1>0, <1>r DEF IInv
<1>1. ASSUME NEW c \in Candidates, NEW p \in Proposals, Capture(c, p)
      PROVE ReceiptInv' /\ PromotingInv' /\ PromotedIsCommitted' /\ MarkedOnce'
  <2>1. /\ ~Is(c) /\ candidate'[c].status = "pending" /\ promoting' = Nothing
        /\ \A d \in Candidates : d # c => candidate'[d] = candidate[d]
        /\ outcome' = outcome /\ contents' = contents /\ rejection' = rejection
    BY <1>0, <1>1 DEF Capture, LockFree, TypeOK, recordStore
  <2>2. outcome[c].state = "unused"
    BY <1>0, <2>1 DEF ReceiptInv
  <2>3. ReceiptInv'
    BY <1>0, <2>1, <2>2 DEF ReceiptInv, Is
  <2>4. PromotedIsCommitted' /\ MarkedOnce'
    BY <1>0, <2>1 DEF PromotedIsCommitted, MarkedOnce, Is, Value
  <2>5. QED
    BY <2>1, <2>3, <2>4 DEF PromotingInv
<1>2. ASSUME NEW c \in Candidates, Review(c)
      PROVE ReceiptInv' /\ PromotingInv' /\ PromotedIsCommitted' /\ MarkedOnce'
  BY <1>0, <1>2 DEF Review, recordStore, ReceiptInv, PromotingInv, PromotedIsCommitted,
                    MarkedOnce, Is, Value, Observed, Record
<1>3. ASSUME NEW c \in Candidates, Reject(c)
      PROVE ReceiptInv' /\ PromotingInv' /\ PromotedIsCommitted' /\ MarkedOnce'
  <2>1. /\ promoting' = Nothing /\ candidate[c].status # "promoted"
        /\ \A d \in Candidates : d # c => rejection'[d] = rejection[d]
        /\ outcome' = outcome /\ candidate' = candidate
    BY <1>0, <1>3 DEF Reject, LockFree, TypeOK, recordStore
  <2>2. QED
    BY <1>0, <2>1 DEF ReceiptInv, PromotingInv, PromotedIsCommitted, MarkedOnce, Is, Value
<1>4. ASSUME NEW c \in Candidates, PromoteRecord(c)
      PROVE ReceiptInv' /\ PromotingInv' /\ PromotedIsCommitted' /\ MarkedOnce'
  <2> DEFINE batch == PromotionBatch(candidate[c].proposal)
  <2>1. /\ Is(c) /\ candidate[c].status = "pending" /\ rejection[c] = Nothing
        /\ candidate[c] \in CandidateType /\ batch \in Requests
    BY <1>0, <1>4, MayPromoteIs DEF PromoteRecord
  <2>2. /\ AS!Apply(c, batch) /\ promoting' = c
        /\ candidate' = candidate /\ rejection' = rejection
    BY <1>4 DEF PromoteRecord
  <2>3. /\ \A u \in Candidates : u # c => outcome'[u] = outcome[u]
        /\ outcome'[c].state = "applied" /\ outcome'[c].request = batch
    BY <1>0, <2>1, <2>2, BatchStep
  <2>4. contents'[candidate[c].proposal.record] = candidate[c].proposal.value
    <3>1. contents' = AS!Effect(contents, batch)
      BY <2>2 DEF AS!Apply
    <3>2. QED
      BY <1>0, <2>1, <3>1, CandidateFields, PromotionEffect DEF TypeOK
  <2>5. ReceiptInv'
    BY <1>0, <2>1, <2>2, <2>3 DEF ReceiptInv, Is
  <2>6. PromotingInv'
    BY <2>1, <2>2, <2>3, <2>4 DEF PromotingInv, Is, Observed, Record, Value
  <2>7. PromotedIsCommitted' /\ MarkedOnce'
    BY <1>0, <2>1, <2>2, <2>3 DEF PromotedIsCommitted, MarkedOnce, Is, Value
  <2>8. QED
    BY <2>5, <2>6, <2>7
<1>5. ASSUME NEW c \in Candidates, PromoteFromReceipt(c)
      PROVE ReceiptInv' /\ PromotingInv' /\ PromotedIsCommitted' /\ MarkedOnce'
  <2>1. /\ Is(c) /\ candidate[c].status = "pending" /\ rejection[c] = Nothing
    BY <1>0, <1>5, MayPromoteIs DEF PromoteFromReceipt
  <2>2. /\ promoting' = c /\ Receipt(c)
        /\ UNCHANGED <<contents, outcome, candidate, rejection>>
    BY <1>5 DEF PromoteFromReceipt, recordStore
  <2>3. QED
    BY <1>0, <2>1, <2>2 DEF ReceiptInv, PromotingInv, PromotedIsCommitted, MarkedOnce, Is,
                            Value, Observed, Record, Receipt
<1>6. ASSUME NEW c \in Candidates, PromotionRolledBack(c)
      PROVE ReceiptInv' /\ PromotingInv' /\ PromotedIsCommitted' /\ MarkedOnce'
  <2> DEFINE batch == PromotionBatch(candidate[c].proposal)
  <2>1. /\ Is(c) /\ candidate[c].status = "pending" /\ promoting = Nothing
        /\ batch \in Requests
    BY <1>0, <1>6, MayPromoteIs DEF PromotionRolledBack
  <2>2. /\ AS!Drop(c, batch) /\ promoting' = promoting
        /\ candidate' = candidate /\ rejection' = rejection
    BY <1>6 DEF PromotionRolledBack
  <2>3. /\ \A u \in Candidates : u # c => outcome'[u] = outcome[u]
        /\ outcome'[c].request = batch
    BY <1>0, <2>1, <2>2, BatchStep
  <2>4. QED
    BY <1>0, <2>1, <2>2, <2>3 DEF ReceiptInv, PromotingInv, PromotedIsCommitted,
                                  MarkedOnce, Is, Value
<1>7. CASE MarkPromoted
  <2>1. /\ promoting \in Candidates /\ candidate[promoting] \in CandidateType
        /\ rejection[promoting] = Nothing /\ outcome[promoting].state = "applied"
        /\ Observed(promoting) = Value(promoting)
        /\ outcome[promoting].request = PromotionBatch(candidate[promoting].proposal)
    BY <1>0, <1>7 DEF MarkPromoted, TypeOK, PromotingInv, ReceiptInv, Is
  <2>2. /\ promoting' = Nothing /\ outcome' = outcome /\ rejection' = rejection
        /\ candidate'[promoting].proposal = candidate[promoting].proposal
        /\ candidate'[promoting].result = Observed(promoting)
        /\ \A d \in Candidates : d # promoting => candidate'[d] = candidate[d]
    <3>1. candidate' = [candidate EXCEPT ![promoting] =
            [candidate[promoting] EXCEPT !.status = "promoted", !.result = Observed(promoting)]]
      BY <1>0, <1>7, <2>1 DEF MarkPromoted, TypeOK
    <3>2. QED
      BY <1>0, <1>7, <2>1, <3>1 DEF MarkPromoted, TypeOK, CandidateType, recordStore
  <2>3. outcome[promoting] = [state |-> "applied",
                              request |-> PromotionBatch(candidate[promoting].proposal)]
    BY <1>0, <2>1 DEF TypeOK, AS!Outcomes
  <2>4. candidate'[promoting] # Nothing
    <3>1. candidate'[promoting] = [candidate[promoting] EXCEPT
            !.status = "promoted", !.result = Observed(promoting)]
      BY <1>0, <1>7, <2>1 DEF MarkPromoted, TypeOK
    <3>2. candidate'[promoting] \in CandidateType
      <4>1. Observed(promoting) \in Contents
        BY <1>0, <2>1, CandidateFields DEF Observed, Record, TypeOK, Stores
      <4>2. QED
        BY <2>1, <3>1, <4>1 DEF CandidateType, Statuses
    <3>3. QED
      BY <3>2, CandidateFields
  <2>5. ReceiptInv'
    BY <1>0, <2>1, <2>2, <2>4 DEF ReceiptInv, Is
  <2>6. PromotedIsCommitted'
    BY <1>0, <2>1, <2>2, <2>3 DEF PromotedIsCommitted, Is, Value
  <2>7. MarkedOnce' /\ PromotingInv'
    BY <1>0, <2>1, <2>2 DEF MarkedOnce, PromotingInv, Is
  <2>8. QED
    BY <2>5, <2>6, <2>7
<1>8. CASE MarkLost
  BY <1>0, <1>8 DEF MarkLost, recordStore, ReceiptInv, PromotingInv, PromotedIsCommitted,
                    MarkedOnce, Is, Value
<1>9. ASSUME NEW w \in WriterIds, NEW batch \in OtherBatches, OtherWrite(w, batch)
      PROVE ReceiptInv' /\ PromotingInv' /\ PromotedIsCommitted' /\ MarkedOnce'
  <2>1. /\ promoting' = Nothing /\ candidate' = candidate /\ rejection' = rejection
    BY <1>9 DEF OtherWrite, LockFree
  <2>2. \A c \in Candidates : outcome'[c] = outcome[c]
    BY <1>0, <1>9, BatchStep DEF OtherWrite
  <2>3. QED
    BY <1>0, <2>1, <2>2 DEF ReceiptInv, PromotingInv, PromotedIsCommitted, MarkedOnce, Is,
                            Value
<1>10. CASE UNCHANGED vars
  BY <1>0, <1>10 DEF vars, ReceiptInv, PromotingInv, PromotedIsCommitted, MarkedOnce, Is,
                     Value, Observed, Record
<1>11. QED
  BY <1>1, <1>2, <1>3, <1>4, <1>5, <1>6, <1>7, <1>8, <1>9, <1>10 DEF Next, Promote

\* The inductive invariant holds of every behaviour.
LEMMA Inductive == Spec => []IInv
  BY IInvInit, IInvStep, PTL DEF Spec

-----------------------------------------------------------------------------
(* The theorems                                                            *)

\* Candidates, decisions and previews keep their types: in particular a preview
\* is always of one of the situations that the code knows.
THEOREM CandidateTypeCorrect == Spec => []TypeOK
<1>1. IInv => TypeOK
  BY DEF IInv
<1>2. QED
  BY <1>1, Inductive, PTL

\* However often a promotion is cut short and rerun, the mark it ends with is the
\* receipt of the batch that was reviewed, and has the digest of its record.
THEOREM MarkIsReceipt == Spec => []PromotedIsCommitted
<1>1. IInv => PromotedIsCommitted
  BY DEF IInv
<1>2. QED
  BY <1>1, Inductive, PTL

\* No candidate is both marked promoted and rejected.
THEOREM OneMark == Spec => []MarkedOnce
<1>1. IInv => MarkedOnce
  BY DEF IInv
<1>2. QED
  BY <1>1, Inductive, PTL

\* Only a promotion of a candidate, or a batch of it that is rolled back, gives
\* it an outcome.
LEMMA OutcomeStep ==
  ASSUME IInv, Next, NEW c \in Candidates, outcome'[c] # outcome[c]
  PROVE  PromoteRecord(c) \/ PromotionRolledBack(c)
<1> USE InboxAssumption
<1>0. TypeOK
  BY DEF IInv
<1>1. ASSUME NEW d \in Candidates, PromoteRecord(d) PROVE d = c
  <2>1. PromotionBatch(candidate[d].proposal) \in Requests
    BY <1>0, <1>1, MayPromoteIs DEF PromoteRecord
  <2>2. QED
    BY <1>0, <1>1, <2>1, BatchStep DEF PromoteRecord
<1>2. ASSUME NEW d \in Candidates, PromotionRolledBack(d) PROVE d = c
  <2>1. PromotionBatch(candidate[d].proposal) \in Requests
    BY <1>0, <1>2, MayPromoteIs DEF PromotionRolledBack
  <2>2. AS!Drop(d, PromotionBatch(candidate[d].proposal))
    BY <1>2 DEF PromotionRolledBack
  <2>3. QED
    BY <1>0, <2>1, <2>2, BatchStep
<1>3. ASSUME NEW w \in WriterIds, NEW batch \in OtherBatches, OtherWrite(w, batch)
      PROVE FALSE
  <2>1. AS!Apply(w, batch) /\ batch \in Requests /\ w # c
    BY <1>3 DEF OtherWrite
  <2>2. QED
    BY <1>0, <2>1, BatchStep
<1>4. CASE outcome' = outcome
  BY <1>4
<1>5. QED
  BY <1>1, <1>2, <1>3, <1>4
     DEF Next, Promote, Capture, Review, Reject, PromoteFromReceipt, MarkPromoted,
         MarkLost, recordStore

\* After a rejection nothing of its candidate changes: not the decision, not the
\* candidate it binds, and no promotion of it commits, however stale the
\* reviewer's preview.
THEOREM RejectionStands == Spec => RejectionIsFinal
<1> DEFINE Stands(c) ==
      rejection[c] # Nothing =>
        /\ rejection'[c] = rejection[c] /\ candidate'[c] = candidate[c]
        /\ outcome'[c] = outcome[c]
<1>1. ASSUME IInv, Next, NEW c \in Candidates, rejection[c] # Nothing
      PROVE  /\ rejection'[c] = rejection[c] /\ candidate'[c] = candidate[c]
             /\ outcome'[c] = outcome[c]
  <2>1. rejection'[c] = rejection[c] /\ candidate'[c] = candidate[c]
    BY <1>1, DecisionStep
  <2>2. outcome'[c] = outcome[c]
    BY <1>1, OutcomeStep DEF PromoteRecord, PromotionRolledBack, MayPromote
  <2>3. QED
    BY <2>1, <2>2
<1>2. IInv /\ [Next]_vars => [\A c \in Candidates : Stands(c)]_vars
  BY <1>1
<1>3. QED
  BY <1>2, Inductive, PTL DEF Spec, RejectionIsFinal

\* A promotion commits only on the revision that its candidate was captured
\* against: an update on that very revision, a creation on no record.
THEOREM PromotionLosesNothing == Spec => NoLostUpdate
<1> DEFINE Keeps(c) ==
      outcome[c] = AS!Unused /\ outcome'[c].state = "applied" =>
        Observed(c) = candidate[c].proposal.expected
<1>1. ASSUME IInv, Next, NEW c \in Candidates, outcome[c] = AS!Unused,
             outcome'[c].state = "applied"
      PROVE  Observed(c) = candidate[c].proposal.expected
  <2> DEFINE batch == PromotionBatch(candidate[c].proposal)
  <2>1. TypeOK /\ outcome'[c] # outcome[c]
    BY <1>1 DEF IInv, AS!Unused
  <2>2. CASE PromoteRecord(c)
    <3>1. candidate[c] \in CandidateType /\ AS!Apply(c, batch)
      BY <2>1, <2>2, MayPromoteIs DEF PromoteRecord
    <3>2. candidate[c].proposal \in Proposals /\ contents \in Stores
      BY <2>1, <3>1, CandidateFields DEF TypeOK
    <3>3. QED
      BY <3>1, <3>2, PromotionEffect DEF AS!Apply, Observed, Record
  <2>3. CASE PromotionRolledBack(c)
    <3>1. batch \in Requests
      BY <2>1, <2>3, MayPromoteIs DEF PromotionRolledBack
    <3>2. AS!Drop(c, batch)
      BY <2>3 DEF PromotionRolledBack
    <3>3. outcome'[c].state = "dropped"
      BY <2>1, <3>2 DEF AS!Drop, TypeOK
    <3>4. QED
      BY <1>1, <3>3
  <2>4. QED
    BY <1>1, <2>1, <2>2, <2>3, OutcomeStep
<1>2. IInv /\ [Next]_vars => [\A c \in Candidates : Keeps(c)]_vars
  BY <1>1
<1>3. QED
  BY <1>2, Inductive, PTL DEF Spec, NoLostUpdate
===============================================================================
