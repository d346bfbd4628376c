------------------------- MODULE MutationPlansProofs -------------------------
(***************************************************************************)
(* Proofs of the safety properties of MutationPlans, for every set of      *)
(* plans, processes, batches and submissions of evidence and any number of *)
(* faults: evidence only grows, so that a plan keeps what it rests on, and *)
(* what a process is about to mark applied is committed by then, whoever   *)
(* committed it.                                                           *)
(***************************************************************************)
EXTENDS MutationPlans, FiniteSetTheorems, WellFoundedInduction, TLAPS

\* A receipt under a plan's id is of the plan's batch.
ReceiptInv ==
  \A t \in Ids : outcome[t] # AS!Unused =>
    /\ outcome[t].request \in Requests
    /\ t \in Plans => plan[t] # NoPlan /\ outcome[t].request = Batch(t)

\* So is the batch in progress under a plan's id, whose receipt is to come; its
\* author waits for it, or is none of the processes that apply plans.
WritingInv ==
  writing # NoWrite =>
    /\ outcome[writing.id] = AS!Unused
    /\ writing.done \subseteq Touched(writing.batch)
    /\ writing.id \in Plans =>
         plan[writing.id] # NoPlan /\ writing.batch = Batch(writing.id)
    /\ writing.author # Nobody =>
         /\ writing.author \in Appliers
         /\ pc[writing.author] = "wait" /\ job[writing.author] = writing.id

\* A process works on a stored plan, and reads and marks once it is committed.
JobInv ==
  \A a \in Appliers : pc[a] # "idle" =>
    /\ job[a] \in Plans /\ plan[job[a]] # NoPlan
    /\ pc[a] \in {"hash", "mark"} => outcome[job[a]].state = "applied"

\* A value in a record of plan p is the one p proposes, or another's.
Accounted(p, r, v) == v = Batch(p).writes[r] \/ \E t \in Ids \ {p} : Wrote(t, r)

PlaceInv ==
  \A p \in Plans : outcome[p].state = "applied" =>
    \A r \in Touched(Batch(p)) : Accounted(p, r, contents[r])

\* The same of what a process has read; when it marks, it has read everything.
SeenInv ==
  \A a \in Appliers : pc[a] \in {"hash", "mark"} =>
    /\ pc[a] = "mark" => left[a] = {}
    /\ \A r \in Touched(Batch(job[a])) \ left[a] :
         seen[a][r] # Absent /\ Accounted(job[a], r, seen[a][r])

IInv ==
  /\ TypeOK
  /\ ReceiptInv /\ WritingInv /\ JobInv /\ PlaceInv /\ SeenInv
  /\ AppliedIsCommitted /\ ForeignResultsHaveAuthors

-----------------------------------------------------------------------------
(* Plans, batches and evidence                                             *)

\* The parts of a plan.
LEMMA PlanFields ==
  ASSUME NEW x \in PlanType
  PROVE  /\ x.body \in Bodies /\ x.status \in Statuses /\ x.result \in Stores
         /\ x.body.batch \in Requests /\ x # NoPlan
         /\ x.body.batch.writes \in Stores
  BY PlanAssumption, BatchAssumption DEF PlanType, BodyType, RequestType

\* A batch that takes effect or is dropped spends one id, and leaves a store of
\* records.
LEMMA BatchStep ==
  ASSUME TypeOK, NEW t \in Ids, NEW rq \in Requests, AS!Apply(t, rq) \/ AS!Drop(t, rq)
  PROVE  /\ contents' \in Stores
         /\ outcome' \in [Ids -> AS!Outcomes]
         /\ \A u \in Ids : u # t => outcome'[u] = outcome[u]
         /\ outcome[t] = AS!Unused /\ outcome'[t] # AS!Unused
         /\ outcome'[t].request = rq
         /\ outcome'[t].state = IF AS!Apply(t, rq) THEN "applied" ELSE "dropped"
<1>1. CASE AS!Apply(t, rq)
  <2>1. contents' \in Stores
    BY <1>1, BatchAssumption DEF AS!Apply
  <2>2. outcome' = [outcome EXCEPT ![t] = [state |-> "applied", request |-> rq]]
        /\ outcome[t] = AS!Unused
    BY <1>1 DEF AS!Apply
  <2>3. QED
    BY <1>1, <2>1, <2>2 DEF TypeOK, AS!Outcomes, AS!Unused
<1>2. CASE ~AS!Apply(t, rq) /\ AS!Drop(t, rq)
  BY <1>2 DEF TypeOK, AS!Drop, AS!Outcomes, AS!Unused
<1>3. QED
  BY <1>1, <1>2

\* Evidence is typed, and only grows.
LEMMA EvidenceGrows ==
  ASSUME EvidenceTypeOK, EvidenceNext \/ UNCHANGED evidence
  PROVE  /\ EvidenceTypeOK'
         /\ contexts \subseteq contexts'
         /\ Stored("orchestration") \subseteq Stored("orchestration")'
<1>1. ASSUME NEW x \in Contexts, StoreContext(x)
      PROVE  /\ EvidenceTypeOK' /\ contexts \subseteq contexts'
             /\ Stored("orchestration") \subseteq Stored("orchestration")'
  BY <1>1 DEF StoreContext, EvidenceTypeOK, Stored
<1>2. ASSUME NEW l \in Ledgers, NEW batch \in Submissions[l], AppendEpisode(l, batch)
      PROVE  /\ EvidenceTypeOK' /\ contexts \subseteq contexts'
             /\ Stored("orchestration") \subseteq Stored("orchestration")'
  <2>1. batch \subseteq ExecutionDocument \cup W!WorkflowDocument
    BY LedgerAssumption DEF Document
  <2>2. /\ episodes' = [episodes EXCEPT ![l] = episodes[l] \cup {batch \ Stored(l)}]
        /\ contexts' = contexts
    BY <1>2 DEF AppendEpisode
  <2>3. episodes' \in [Ledgers -> SUBSET SUBSET (ExecutionDocument \cup W!WorkflowDocument)]
    BY <2>1, <2>2 DEF EvidenceTypeOK
  <2>4. episodes["orchestration"] \subseteq episodes'["orchestration"]
    BY <2>2 DEF EvidenceTypeOK, Ledgers
  <2>5. QED
    BY <2>2, <2>3, <2>4 DEF EvidenceTypeOK, Stored
<1>3. CASE UNCHANGED evidence
  BY <1>3 DEF evidence, EvidenceTypeOK, Stored
<1>4. QED
  BY <1>1, <1>2, <1>3 DEF EvidenceNext

-----------------------------------------------------------------------------
(* Types                                                                   *)

\* Nothing is stored, written or applied initially.
LEMMA IInvInit == Init => IInv
<1> SUFFICES ASSUME Init PROVE IInv
  OBVIOUS
<1>1. /\ contents \in Stores /\ outcome = [t \in Ids |-> AS!Unused]
      /\ AS!Unused \in AS!Outcomes /\ AS!Unused.state = "unused"
  BY BatchAssumption DEF Init, AS!Init, AS!Outcomes, AS!Unused
<1>2. EvidenceTypeOK
  BY DEF Init, EvidenceInit, EvidenceTypeOK
<1>3. Unread \in Stores
  BY DEF Unread, Stores, Contents
<1>4. TypeOK
  BY <1>1, <1>2, <1>3, PlanAssumption DEF Init, TypeOK, Steps
<1>5. /\ ReceiptInv /\ WritingInv /\ JobInv /\ PlaceInv /\ SeenInv
      /\ AppliedIsCommitted /\ ForeignResultsHaveAuthors
  BY <1>1 DEF Init, Ids, ReceiptInv, WritingInv, JobInv, PlaceInv, SeenInv,
              AppliedIsCommitted, ForeignResultsHaveAuthors
<1>6. QED
  BY <1>4, <1>5 DEF IInv

\* Reading starts with every record of a stored plan.
LEMMA StartReadingTyped ==
  ASSUME TypeOK, NEW a \in Appliers, StartReading(a)
  PROVE  /\ pc' \in [Appliers -> Steps] /\ job' \in [Appliers -> Plans \cup {NoPlan}]
         /\ left' \in [Appliers -> SUBSET Records] /\ seen' \in [Appliers -> Stores]
<1>1. Unread \in Stores
  BY DEF Unread, Stores, Contents
<1>2. Touched(Batch(job[a])) \subseteq Records
  BY DEF Touched
<1>3. QED
  BY <1>1, <1>2 DEF StartReading, Go, TypeOK, Steps

\* Every step preserves the types, action by action.
LEMMA TypeStep == TypeOK /\ WritingInv /\ JobInv /\ [Next]_vars => TypeOK'
<1> SUFFICES ASSUME TypeOK, WritingInv, JobInv, [Next]_vars PROVE TypeOK'
  OBVIOUS
<1> USE PlanAssumption
<1>1. ASSUME AddEvidence PROVE TypeOK'
  <2>1. EvidenceTypeOK'
    BY <1>1, EvidenceGrows DEF AddEvidence, TypeOK
  <2>2. QED
    BY <1>1, <2>1 DEF AddEvidence, TypeOK, recordStore, process
<1>2. ASSUME NEW p \in Plans, NEW b \in Bodies, StorePlan(p, b) PROVE TypeOK'
  <2>1. [body |-> b, status |-> "proposed", result |-> Unread] \in PlanType
    BY DEF PlanType, Statuses, Unread, Stores, Contents
  <2>2. EvidenceTypeOK'
    BY <1>2, EvidenceGrows DEF StorePlan, TypeOK
  <2>3. QED
    BY <1>2, <2>1, <2>2 DEF StorePlan, TypeOK, recordStore, process
<1>3. ASSUME NEW t \in Ids, NEW author \in Appliers \cup {Nobody}, NEW rq \in Requests,
             Begin(author, t, rq)
      PROVE  /\ writing' \in WriteType /\ EvidenceTypeOK'
             /\ UNCHANGED <<contents, outcome, plan, faults>>
  <2>1. EvidenceTypeOK'
    BY <1>3, EvidenceGrows DEF Begin, TypeOK
  <2>2. QED
    BY <1>3, <2>1 DEF Begin, WriteType, recordStore
<1>4. ASSUME NEW a \in Appliers, BeginPut(a) PROVE TypeOK'
  <2>1. job[a] \in Plans /\ Batch(job[a]) \in Requests
    BY <1>4, PlanFields DEF BeginPut, JobInv, TypeOK, Batch
  <2>2. writing' \in WriteType /\ EvidenceTypeOK' /\ UNCHANGED <<contents, outcome, plan, faults>>
    BY <1>3, <1>4, <2>1 DEF BeginPut, Ids
  <2>3. QED
    BY <1>4, <2>2 DEF BeginPut, Go, TypeOK, Steps
<1>5. ASSUME NEW a \in Appliers, PutAnswered(a) PROVE TypeOK'
  <2>1. EvidenceTypeOK'
    BY <1>5, EvidenceGrows DEF PutAnswered, TypeOK
  <2>2. QED
    BY <1>5, <2>1, StartReadingTyped DEF PutAnswered, TypeOK, recordStore
<1>6. ASSUME NEW a \in Appliers, PutRefused(a) PROVE TypeOK'
  <2>1. EvidenceTypeOK'
    BY <1>6, EvidenceGrows DEF PutRefused, TypeOK
  <2>2. QED
    BY <1>6, <2>1 DEF PutRefused, Go, TypeOK, Steps, recordStore
<1>7. ASSUME NEW r \in Records, ReplaceFile(r) PROVE TypeOK'
  <2>1. EvidenceTypeOK'
    BY <1>7, EvidenceGrows DEF ReplaceFile, TypeOK
  <2>2. writing' \in WriteType
    BY <1>7 DEF ReplaceFile, TypeOK, WriteType
  <2>3. QED
    BY <1>7, <2>1, <2>2 DEF ReplaceFile, TypeOK, recordStore, process
<1>8. ASSUME Commit PROVE TypeOK'
  <2>1. writing # NoWrite /\ writing \in WriteType
    BY <1>8 DEF Commit, Written, TypeOK
  <2>2. writing.id \in Ids /\ writing.batch \in Requests
    BY <2>1 DEF WriteType
  <2>3. contents' \in Stores /\ outcome' \in [Ids -> AS!Outcomes]
    BY <1>8, <2>2, BatchStep DEF Commit
  <2>4. EvidenceTypeOK'
    BY <1>8, EvidenceGrows DEF Commit, TypeOK
  <2>5. CASE writing.author = Nobody
    BY <1>8, <2>3, <2>4, <2>5 DEF Commit, TypeOK, process
  <2>6. CASE writing.author # Nobody
    <3>1. StartReading(writing.author) /\ writing.author \in Appliers
      BY <1>8, <2>1, <2>6 DEF Commit, WritingInv
    <3>2. QED
      BY <1>8, <2>3, <2>4, <3>1, StartReadingTyped DEF Commit, TypeOK
  <2>7. QED
    BY <2>5, <2>6
<1>9. ASSUME RollBack PROVE TypeOK'
  <2>1. writing # NoWrite /\ writing \in WriteType
    BY <1>9 DEF RollBack, TypeOK
  <2>2. writing.id \in Ids /\ writing.batch \in Requests
    BY <2>1 DEF WriteType
  <2>3. contents' \in Stores /\ outcome' \in [Ids -> AS!Outcomes]
    BY <1>9, <2>2, BatchStep DEF RollBack
  <2>4. EvidenceTypeOK'
    BY <1>9, EvidenceGrows DEF RollBack, TypeOK
  <2>5. faults' \in 0..MaxFaults
    BY <1>9 DEF RollBack, TypeOK
  <2>6. QED
    BY <1>9, <2>3, <2>4, <2>5 DEF RollBack, Go, TypeOK, Steps
<1>10. ASSUME NEW a \in Appliers, NEW r \in Records, ReadRecord(a, r) PROVE TypeOK'
  <2>1. EvidenceTypeOK'
    BY <1>10, EvidenceGrows DEF ReadRecord, TypeOK
  <2>2. OnDisk(r) \in Contents
    BY BatchAssumption DEF OnDisk, TypeOK, WriteType, RequestType, Stores
  <2>3. seen' \in [Appliers -> Stores]
    BY <1>10, <2>2 DEF ReadRecord, TypeOK, Stores
  <2>4. QED
    BY <1>10, <2>1, <2>3 DEF ReadRecord, Go, TypeOK, Steps, recordStore
<1>11. ASSUME NEW a \in Appliers, MarkApplied(a) PROVE TypeOK'
  <2>1. EvidenceTypeOK'
    BY <1>11, EvidenceGrows DEF MarkApplied, TypeOK
  <2>2. job[a] \in Plans /\ plan[job[a]] \in PlanType
    BY <1>11 DEF MarkApplied, JobInv, TypeOK
  <2>3. plan' \in [Plans -> PlanType \cup {NoPlan}]
    BY <1>11, <2>2 DEF MarkApplied, TypeOK, PlanType, Statuses
  <2>4. QED
    BY <1>11, <2>1, <2>3 DEF MarkApplied, Go, TypeOK, Steps, recordStore
<1>12. ASSUME NEW a \in Appliers, Die(a) PROVE TypeOK'
  <2>1. EvidenceTypeOK'
    BY <1>12, EvidenceGrows DEF Die, TypeOK
  <2>2. QED
    BY <1>12, <2>1 DEF Die, Go, TypeOK, Steps, recordStore
<1>13. ASSUME NEW a \in Appliers, NEW p \in Plans, LoadPlan(a, p) PROVE TypeOK'
  <2>1. EvidenceTypeOK'
    BY <1>13, EvidenceGrows DEF LoadPlan, TypeOK
  <2>2. QED
    BY <1>13, <2>1 DEF LoadPlan, Go, TypeOK, Steps, recordStore
<1>14. ASSUME NEW w \in WriterIds, NEW rq \in OtherBatches, BeginOther(w, rq) PROVE TypeOK'
  <2>1. writing' \in WriteType /\ EvidenceTypeOK' /\ UNCHANGED <<contents, outcome, plan, faults>>
    BY <1>3, <1>14 DEF BeginOther, Ids
  <2>2. QED
    BY <1>14, <2>1 DEF BeginOther, TypeOK, process
<1>15. CASE UNCHANGED vars
  <2>1. EvidenceTypeOK'
    BY <1>15, EvidenceGrows DEF vars, TypeOK
  <2>2. QED
    BY <1>15, <2>1 DEF vars, TypeOK, recordStore, process
<1>16. QED
  BY <1>1, <1>2, <1>4, <1>5, <1>6, <1>7, <1>8, <1>9, <1>10, <1>11, <1>12, <1>13, <1>14, <1>15
     DEF Next, Applying

-----------------------------------------------------------------------------
(* What only grows                                                         *)

\* A plan keeps its body, and once applied everything.
LEMMA PlansStay ==
  ASSUME TypeOK, JobInv, [Next]_vars, NEW p \in Plans, plan[p] # NoPlan
  PROVE  /\ plan'[p] # NoPlan /\ plan'[p].body = plan[p].body
         /\ plan[p].status = "applied" => plan'[p] = plan[p]
<1>1. plan[p] \in PlanType
  BY DEF TypeOK
<1>2. ASSUME NEW q \in Plans, NEW b \in Bodies, StorePlan(q, b)
      PROVE  plan'[p] = plan[p]
  BY <1>2 DEF StorePlan, TypeOK
<1>3. ASSUME NEW a \in Appliers, MarkApplied(a), plan' # plan, job[a] = p
      PROVE  /\ plan'[p] # NoPlan /\ plan'[p].body = plan[p].body
             /\ plan[p].status # "applied"
  <2>1. plan'[p] = [plan[p] EXCEPT !.status = "applied", !.result = seen[a]]
        /\ plan[p].status # "applied"
    BY <1>3 DEF MarkApplied, TypeOK
  <2>2. plan'[p].body = plan[p].body /\ plan'[p] \in PlanType
    BY <1>1, <2>1 DEF PlanType, TypeOK, Statuses
  <2>3. QED
    BY <2>1, <2>2, PlanFields
<1>4. ASSUME NEW a \in Appliers, MarkApplied(a), plan' = plan \/ job[a] # p
      PROVE  plan'[p] = plan[p]
  BY <1>4 DEF MarkApplied, TypeOK
<1>5. CASE plan' = plan
  BY <1>5
<1>6. QED
  BY <1>2, <1>3, <1>4, <1>5
     DEF Next, Applying, AddEvidence, BeginPut, BeginOther, Begin, PutAnswered, PutRefused,
         ReplaceFile, Commit, RollBack, ReadRecord, Die, LoadPlan, vars

\* A batch ends with a receipt under an id that had none, and no other step
\* touches a receipt.
LEMMA BatchEnds ==
  ASSUME TypeOK, WritingInv, Commit \/ RollBack
  PROVE  /\ writing # NoWrite /\ writing.id \in Ids /\ writing.batch \in Requests
         /\ \A u \in Ids : u # writing.id => outcome'[u] = outcome[u]
         /\ outcome[writing.id] = AS!Unused /\ outcome'[writing.id] # AS!Unused
         /\ outcome'[writing.id].request = writing.batch
         /\ Commit => /\ outcome'[writing.id].state = "applied"
                      /\ contents' = AS!Effect(contents, writing.batch)
         /\ RollBack => /\ outcome'[writing.id].state = "dropped"
                        /\ contents' = contents
<1>1. writing # NoWrite /\ writing \in WriteType
  BY DEF Commit, Written, RollBack, TypeOK
<1>2. writing.id \in Ids /\ writing.batch \in Requests
  BY <1>1 DEF WriteType
<1>3. CASE Commit
  <2>1. AS!Apply(writing.id, writing.batch)
    BY <1>3 DEF Commit
  <2>2. contents' = AS!Effect(contents, writing.batch)
    BY <2>1 DEF AS!Apply
  <2>3. RollBack => AS!Drop(writing.id, writing.batch)
    BY DEF RollBack
  <2>4. outcome'[writing.id].state # "dropped"
    BY <1>2, <2>1, BatchStep
  <2>5. AS!Drop(writing.id, writing.batch) => outcome'[writing.id].state = "dropped"
    BY <1>2 DEF AS!Drop, TypeOK
  <2>6. QED
    BY <1>1, <1>2, <2>1, <2>2, <2>3, <2>4, <2>5, BatchStep
<1>4. CASE RollBack
  <2>1. AS!Drop(writing.id, writing.batch)
    BY <1>4 DEF RollBack
  <2>2. contents' = contents
    BY <2>1 DEF AS!Drop
  <2>3. outcome'[writing.id].state = "dropped"
    BY <1>2, <2>1 DEF AS!Drop, TypeOK
  <2>4. ~AS!Apply(writing.id, writing.batch)
    BY <1>2, <2>3, BatchStep
  <2>5. ~Commit
    BY <2>4 DEF Commit
  <2>6. QED
    BY <1>1, <1>2, <2>1, <2>2, <2>3, <2>5, BatchStep
<1>5. QED
  BY <1>3, <1>4

\* Records change, and batches end, only by a commit or a roll back.
LEMMA OnlyBatchesChangeRecords ==
  ASSUME [Next]_vars, ~Commit, ~RollBack
  PROVE  UNCHANGED <<contents, outcome>>
BY DEF Next, Applying, AddEvidence, StorePlan, BeginPut, BeginOther, Begin, PutAnswered,
       PutRefused, ReplaceFile, ReadRecord, MarkApplied, Die, LoadPlan, vars, recordStore

\* A receipt stays.
LEMMA ReceiptsStay ==
  ASSUME TypeOK, WritingInv, [Next]_vars, NEW t \in Ids, outcome[t] # AS!Unused
  PROVE  outcome'[t] = outcome[t]
BY BatchEnds, OnlyBatchesChangeRecords

\* A writer of a record stays one.
LEMMA WritersStay ==
  ASSUME TypeOK, WritingInv, [Next]_vars, NEW t \in Ids, NEW r \in Records, Wrote(t, r)
  PROVE  Wrote(t, r)'
<1>1. CASE outcome[t] # AS!Unused
  <2>1. outcome'[t] = outcome[t]
    BY <1>1, ReceiptsStay
  <2>2. r \in Touched(outcome[t].request)
    BY <1>1 DEF Wrote, WritingInv
  <2>3. QED
    BY <1>1, <2>1, <2>2 DEF Wrote, Touched
<1>2. CASE outcome[t] = AS!Unused
  <2>1. writing # NoWrite /\ writing.id = t /\ r \in Touched(writing.batch)
    BY <1>2 DEF Wrote
  <2>2. CASE Commit \/ RollBack
    BY <2>1, <2>2, BatchEnds DEF Wrote, Touched
  <2>3. ASSUME NEW q \in Records, ReplaceFile(q) PROVE Wrote(t, r)'
    <3>1. writing \in WriteType
      BY <2>1 DEF TypeOK
    <3>2. writing'.id = t /\ writing'.batch = writing.batch /\ writing' \in WriteType
      BY <2>1, <2>3, <3>1 DEF ReplaceFile, WriteType
    <3>3. QED
      BY <2>1, <3>2, PlanAssumption DEF Wrote, Touched
  <2>4. CASE writing' = writing
    BY <2>1, <2>4, <1>2 DEF Wrote, Touched
  <2>5. QED
    BY <2>1, <2>2, <2>3, <2>4
       DEF Next, Applying, AddEvidence, StorePlan, BeginPut, BeginOther, Begin, LockFree,
           PutAnswered, PutRefused, ReadRecord, MarkApplied, Die, LoadPlan, vars
<1>3. QED
  BY <1>1, <1>2

\* So a value accounted for stays so.
LEMMA AccountsStay ==
  ASSUME TypeOK, WritingInv, JobInv, [Next]_vars,
         NEW p \in Plans, plan[p] # NoPlan, NEW r \in Records, NEW v, Accounted(p, r, v)
  PROVE  /\ v = Batch(p)'.writes[r] \/ \E t \in Ids \ {p} : Wrote(t, r)'
         /\ Batch(p)' = Batch(p)
<1>1. Batch(p)' = Batch(p)
  BY PlansStay DEF Batch
<1>2. QED
  BY <1>1, WritersStay DEF Accounted

-----------------------------------------------------------------------------
(* The inductive invariant                                                 *)

\* Every receipt under a plan's id is of the plan's batch, and stays so.
LEMMA ReceiptStep == IInv /\ [Next]_vars => ReceiptInv'
<1> SUFFICES ASSUME IInv, [Next]_vars, NEW t \in Ids, outcome'[t] # AS!Unused
             PROVE  /\ outcome'[t].request \in Requests
                    /\ t \in Plans => plan'[t] # NoPlan /\ outcome'[t].request = Batch(t)'
  BY DEF ReceiptInv
<1>1. TypeOK /\ ReceiptInv /\ WritingInv /\ JobInv
  BY DEF IInv
<1>2. ASSUME t \in Plans, plan[t] # NoPlan
      PROVE  plan'[t] # NoPlan /\ Batch(t)' = Batch(t)
  BY <1>1, <1>2, PlansStay DEF Batch
<1>3. CASE outcome[t] # AS!Unused
  BY <1>1, <1>2, <1>3, ReceiptsStay DEF ReceiptInv
<1>4. CASE outcome[t] = AS!Unused
  <2>1. (Commit \/ RollBack) /\ t = writing.id
    BY <1>1, <1>4, BatchEnds, OnlyBatchesChangeRecords
  <2>2. writing # NoWrite /\ outcome'[t].request = writing.batch /\ writing.batch \in Requests
    BY <1>1, <2>1, BatchEnds
  <2>3. QED
    BY <1>1, <1>2, <2>1, <2>2 DEF WritingInv
<1>5. QED
  BY <1>3, <1>4

\* What lies in the record of a committed plan is its own or another's.
LEMMA PlaceStep == IInv /\ [Next]_vars => PlaceInv'
<1> SUFFICES ASSUME IInv, [Next]_vars, NEW p \in Plans, outcome'[p].state = "applied",
                    NEW r \in Records, r \in Touched(Batch(p))'
             PROVE  Accounted(p, r, contents[r])'
  BY DEF PlaceInv, Touched
<1>1. TypeOK /\ ReceiptInv /\ WritingInv /\ JobInv /\ PlaceInv /\ p \in Ids
  BY DEF IInv, Ids
<1>2. ASSUME outcome[p].state = "applied", contents'[r] = contents[r]
      PROVE  Accounted(p, r, contents[r])'
  <2>1. outcome[p] # AS!Unused
    BY <1>2 DEF AS!Unused
  <2>2. plan[p] # NoPlan
    BY <1>1, <2>1 DEF ReceiptInv
  <2>3. Batch(p)' = Batch(p)
    BY <1>1, <2>2, PlansStay DEF Batch
  <2>4. Accounted(p, r, contents[r])
    BY <1>1, <1>2, <2>3 DEF PlaceInv, Touched
  <2>5. QED
    BY <1>1, <1>2, <2>2, <2>4, AccountsStay DEF Accounted
<1>3. CASE Commit
  <2>1. /\ writing # NoWrite /\ writing.id \in Ids
        /\ \A u \in Ids : u # writing.id => outcome'[u] = outcome[u]
        /\ outcome'[writing.id] # AS!Unused
        /\ outcome'[writing.id].request = writing.batch
        /\ contents' = AS!Effect(contents, writing.batch)
    BY <1>1, <1>3, BatchEnds
  <2>2. contents'[r] = IF r \in Touched(writing.batch) THEN writing.batch.writes[r]
                       ELSE contents[r]
    BY <2>1 DEF AS!Effect, AS!Touched, Touched
  <2>3. CASE p = writing.id
    <3>1. plan[p] # NoPlan /\ writing.batch = Batch(p)
      BY <1>1, <2>1, <2>3 DEF WritingInv
    <3>2. Batch(p)' = Batch(p)
      BY <1>1, <3>1, PlansStay DEF Batch
    <3>3. QED
      BY <2>2, <3>1, <3>2 DEF Accounted, Touched
  <2>4. CASE p # writing.id /\ r \in Touched(writing.batch)
    BY <2>1, <2>4 DEF Accounted, Wrote, Touched
  <2>5. CASE p # writing.id /\ r \notin Touched(writing.batch)
    BY <1>1, <1>2, <2>1, <2>2, <2>5
  <2>6. QED
    BY <2>3, <2>4, <2>5
<1>4. CASE RollBack
  BY <1>1, <1>2, <1>4, BatchEnds
<1>5. CASE ~Commit /\ ~RollBack
  BY <1>2, <1>5, OnlyBatchesChangeRecords
<1>6. QED
  BY <1>3, <1>4, <1>5

\* What a process has read is of the plan or another's, and it does not mark
\* before it has read all.
LEMMA SeenStep == IInv /\ [Next]_vars => SeenInv'
<1> SUFFICES ASSUME IInv, [Next]_vars, NEW a \in Appliers, pc'[a] \in {"hash", "mark"}
             PROVE  /\ pc'[a] = "mark" => left'[a] = {}
                    /\ \A r \in Touched(Batch(job[a]))' \ left'[a] :
                         seen'[a][r] # Absent /\ Accounted(job[a], r, seen[a][r])'
  BY DEF SeenInv
<1>1. TypeOK /\ ReceiptInv /\ WritingInv /\ JobInv /\ PlaceInv /\ SeenInv
  BY DEF IInv
\* Before a read, if there is one.
<1>2. ASSUME pc[a] \in {"hash", "mark"}, job'[a] = job[a],
             NEW r \in Records, r \in Touched(Batch(job[a]))', r \notin left[a]
      PROVE  seen[a][r] # Absent
             /\ (seen'[a] = seen[a] => Accounted(job[a], r, seen[a][r])')
             /\ (seen'[a][r] = seen[a][r] => Accounted(job[a], r, seen[a][r])')
  <2>1. job[a] \in Plans /\ plan[job[a]] # NoPlan
    BY <1>1, <1>2 DEF JobInv
  <2>2. Batch(job[a])' = Batch(job[a])
    BY <1>1, <1>2, <2>1, PlansStay DEF Batch
  <2>3. seen[a][r] # Absent /\ Accounted(job[a], r, seen[a][r])
    BY <1>1, <1>2, <2>2 DEF SeenInv, Touched
  <2>4. \/ seen[a][r] = Batch(job[a]).writes[r]
        \/ \E t \in Ids \ {job[a]} : Wrote(t, r)'
    BY <1>1, <2>1, <2>3, WritersStay DEF Accounted
  <2>5. QED
    BY <1>2, <2>2, <2>3, <2>4 DEF Accounted
<1>3. CASE pc'[a] = pc[a] /\ job'[a] = job[a] /\ left'[a] = left[a] /\ seen'[a] = seen[a]
  BY <1>1, <1>2, <1>3 DEF SeenInv, Touched
<1>4. CASE StartReading(a) /\ plan' = plan
  BY <1>1, <1>4 DEF StartReading, Go, TypeOK, Touched, Batch
<1>5. ASSUME NEW q \in Records, ReadRecord(a, q)
      PROVE  /\ pc'[a] = "mark" => left'[a] = {}
             /\ \A r \in Touched(Batch(job[a]))' \ left'[a] :
                  seen'[a][r] # Absent /\ Accounted(job[a], r, seen[a][r])'
  <2>1. /\ pc[a] = "hash" /\ q \in left[a] /\ OnDisk(q) # Absent
        /\ left' = [left EXCEPT ![a] = left[a] \ {q}]
        /\ pc'[a] = "mark" => left[a] = {q}
        /\ job' = job /\ plan' = plan /\ outcome' = outcome /\ writing' = writing
    BY <1>1, <1>5 DEF ReadRecord, Go, TypeOK, recordStore
  <2>2. /\ seen'[a][q] = OnDisk(q)
        /\ \A r \in Records : r # q => seen'[a][r] = seen[a][r]
    BY <1>1, <1>5 DEF ReadRecord, TypeOK, Stores
  <2>3. ASSUME q \in Touched(Batch(job[a]))
        PROVE  Accounted(job[a], q, OnDisk(q))
    <3>1. job[a] \in Plans /\ outcome[job[a]].state = "applied"
      BY <1>1, <2>1 DEF JobInv
    <3>2. CASE writing # NoWrite /\ q \in writing.done
      <4>1. writing.id # job[a] /\ q \in Touched(writing.batch)
        BY <1>1, <3>1, <3>2 DEF WritingInv, AS!Unused
      <4>2. writing.id \in Ids
        BY <1>1, <3>2 DEF TypeOK, WriteType
      <4>3. QED
        BY <3>2, <4>1, <4>2 DEF Accounted, Wrote
    <3>3. CASE ~(writing # NoWrite /\ q \in writing.done)
      BY <1>1, <2>3, <3>1, <3>3 DEF OnDisk, PlaceInv
    <3>4. QED
      BY <3>2, <3>3
  <2>4. ASSUME NEW r \in Records, r \in Touched(Batch(job[a]))', r \notin left'[a]
        PROVE  seen'[a][r] # Absent /\ Accounted(job[a], r, seen[a][r])'
    <3>1. CASE r = q
      <4>1. q \in Touched(Batch(job[a]))
        BY <2>1, <2>4, <3>1 DEF Touched, Batch
      <4>2. QED
        BY <2>1, <2>2, <2>3, <3>1, <4>1 DEF Accounted, Wrote, Batch, Touched
    <3>2. CASE r # q
      <4>1. r \notin left[a]
        BY <1>1, <2>1, <2>4, <3>2 DEF TypeOK
      <4>2. QED
        BY <1>2, <2>1, <2>2, <2>4, <3>2, <4>1
    <3>3. QED
      BY <3>1, <3>2
  <2>5. QED
    BY <1>1, <2>1, <2>4 DEF Touched, TypeOK
<1>6. ASSUME NEW b \in Appliers,
             \/ BeginPut(b) \/ PutRefused(b) \/ MarkApplied(b) \/ Die(b)
             \/ \E p \in Plans : LoadPlan(b, p)
      PROVE  pc'[a] = pc[a] /\ job'[a] = job[a] /\ left'[a] = left[a] /\ seen'[a] = seen[a]
  <2>1. b # a
    BY <1>1, <1>6 DEF BeginPut, PutRefused, MarkApplied, Die, LoadPlan, Go, TypeOK
  <2>2. QED
    BY <1>1, <1>6, <2>1 DEF BeginPut, PutRefused, MarkApplied, Die, LoadPlan, Go, TypeOK
<1>7. ASSUME NEW b \in Appliers, b # a,
             StartReading(b) \/ \E r \in Records : ReadRecord(b, r)
      PROVE  pc'[a] = pc[a] /\ job'[a] = job[a] /\ left'[a] = left[a] /\ seen'[a] = seen[a]
  BY <1>1, <1>7 DEF StartReading, ReadRecord, Go, TypeOK
<1>8. CASE Commit
  <2>1. CASE writing.author = Nobody
    BY <1>3, <1>8, <2>1 DEF Commit, process
  <2>2. CASE writing.author # Nobody
    <3>1. StartReading(writing.author) /\ writing.author \in Appliers /\ plan' = plan
      BY <1>1, <1>8, <2>2 DEF Commit, WritingInv, Written
    <3>2. QED
      BY <1>3, <1>4, <1>7, <3>1
  <2>3. QED
    BY <2>1, <2>2
<1>9. CASE RollBack
  <2>1. pc'[a] = pc[a]
    BY <1>1, <1>9 DEF RollBack, Go, TypeOK
  <2>2. QED
    BY <1>3, <1>9, <2>1 DEF RollBack
<1>10. ASSUME NEW b \in Appliers, PutAnswered(b)
       PROVE  /\ pc'[a] = "mark" => left'[a] = {}
              /\ \A r \in Touched(Batch(job[a]))' \ left'[a] :
                   seen'[a][r] # Absent /\ Accounted(job[a], r, seen[a][r])'
  <2>1. StartReading(b) /\ plan' = plan
    BY <1>10 DEF PutAnswered
  <2>2. QED
    BY <1>3, <1>4, <1>7, <2>1
<1>11. CASE UNCHANGED process
  BY <1>3, <1>11 DEF process
<1>12. ASSUME NEW b \in Appliers, NEW q \in Records, ReadRecord(b, q)
       PROVE  /\ pc'[a] = "mark" => left'[a] = {}
              /\ \A r \in Touched(Batch(job[a]))' \ left'[a] :
                   seen'[a][r] # Absent /\ Accounted(job[a], r, seen[a][r])'
  BY <1>3, <1>5, <1>7, <1>12
<1>13. QED
  BY <1>3, <1>6, <1>8, <1>9, <1>10, <1>11, <1>12
     DEF Next, Applying, AddEvidence, StorePlan, BeginOther, ReplaceFile, vars, process

\* Processes work on stored plans, and read and mark after the commit.
LEMMA JobStep == IInv /\ [Next]_vars => JobInv'
<1> SUFFICES ASSUME IInv, [Next]_vars, NEW a \in Appliers, pc'[a] # "idle"
             PROVE  /\ job'[a] \in Plans /\ plan'[job'[a]] # NoPlan
                    /\ pc'[a] \in {"hash", "mark"} => outcome'[job'[a]].state = "applied"
  BY DEF JobInv
<1>1. TypeOK /\ WritingInv /\ JobInv
  BY DEF IInv
\* Going on with a plan, not yet at its records or no longer before its commit.
<1>2. ASSUME pc[a] # "idle", job'[a] = job[a],
             pc'[a] \in {"hash", "mark"} =>
               pc[a] \in {"hash", "mark"} \/ outcome'[job[a]].state = "applied"
      PROVE  /\ job'[a] \in Plans /\ plan'[job'[a]] # NoPlan
             /\ pc'[a] \in {"hash", "mark"} => outcome'[job'[a]].state = "applied"
  <2>1. job[a] \in Plans /\ plan[job[a]] # NoPlan
        /\ (pc[a] \in {"hash", "mark"} => outcome[job[a]].state = "applied")
    BY <1>1, <1>2 DEF JobInv
  <2>2. plan'[job[a]] # NoPlan
    BY <1>1, <2>1, PlansStay
  <2>3. outcome[job[a]].state = "applied" => outcome'[job[a]] = outcome[job[a]]
    BY <1>1, <2>1, ReceiptsStay DEF AS!Unused, Ids
  <2>4. QED
    BY <1>2, <2>1, <2>2, <2>3
<1>3. CASE pc'[a] = pc[a] /\ job'[a] = job[a]
  BY <1>2, <1>3
<1>4. ASSUME NEW b \in Appliers, NEW p \in Plans, LoadPlan(b, p), b = a
      PROVE  /\ job'[a] \in Plans /\ plan'[job'[a]] # NoPlan
             /\ pc'[a] \in {"hash", "mark"} => outcome'[job'[a]].state = "applied"
  BY <1>1, <1>4 DEF LoadPlan, Go, TypeOK
<1>5. ASSUME NEW b \in Appliers, BeginPut(b), b = a
      PROVE  pc[a] # "idle" /\ job'[a] = job[a] /\ pc'[a] = "wait"
  BY <1>1, <1>5 DEF BeginPut, Go, TypeOK
<1>6. ASSUME NEW b \in Appliers, PutAnswered(b), b = a
      PROVE  pc[a] # "idle" /\ job'[a] = job[a] /\ outcome'[job[a]].state = "applied"
  BY <1>6 DEF PutAnswered, StartReading, Answered, recordStore
<1>7. ASSUME NEW b \in Appliers, NEW r \in Records, ReadRecord(b, r), b = a
      PROVE  pc[a] \in {"hash", "mark"} /\ job'[a] = job[a]
  BY <1>7 DEF ReadRecord
<1>8. ASSUME NEW b \in Appliers, PutRefused(b) \/ MarkApplied(b) \/ Die(b)
      PROVE  pc'[a] = pc[a] /\ job'[a] = job[a]
  BY <1>1, <1>8 DEF PutRefused, MarkApplied, Die, Go, TypeOK
<1>9. ASSUME NEW b \in Appliers, b # a,
             \/ BeginPut(b) \/ StartReading(b)
             \/ \E r \in Records : ReadRecord(b, r)
             \/ \E p \in Plans : LoadPlan(b, p)
      PROVE  pc'[a] = pc[a] /\ job'[a] = job[a]
  BY <1>1, <1>9 DEF BeginPut, StartReading, ReadRecord, LoadPlan, Go, TypeOK
<1>10. CASE Commit
  <2>1. CASE writing.author = Nobody
    BY <1>3, <1>10, <2>1 DEF Commit, process
  <2>2. CASE writing.author = a
    <3>1. StartReading(a) /\ pc[a] = "wait" /\ job[a] = writing.id
      BY <1>1, <1>10, <2>2, PlanAssumption DEF Commit, WritingInv, Written
    <3>2. outcome'[job[a]].state = "applied"
      BY <1>1, <1>10, <3>1, BatchEnds
    <3>3. QED
      BY <1>2, <3>1, <3>2 DEF StartReading
  <2>3. CASE writing.author \notin {Nobody, a}
    <3>1. StartReading(writing.author) /\ writing.author \in Appliers
      BY <1>1, <1>10, <2>3 DEF Commit, WritingInv, Written
    <3>2. QED
      BY <1>3, <1>9, <2>3, <3>1
  <2>4. QED
    BY <2>1, <2>2, <2>3
<1>11. CASE RollBack
  BY <1>1, <1>3, <1>11 DEF RollBack, Go, TypeOK
<1>12. CASE UNCHANGED process
  BY <1>3, <1>12 DEF process
<1>13. ASSUME NEW b \in Appliers, PutAnswered(b), b # a PROVE pc'[a] = pc[a] /\ job'[a] = job[a]
  BY <1>9, <1>13 DEF PutAnswered
<1>14. ASSUME NEW b \in Appliers, Applying(b) \/ Die(b) \/ \E p \in Plans : LoadPlan(b, p)
       PROVE  /\ job'[a] \in Plans /\ plan'[job'[a]] # NoPlan
              /\ pc'[a] \in {"hash", "mark"} => outcome'[job'[a]].state = "applied"
  <2>1. CASE b = a
    BY <1>2, <1>3, <1>4, <1>5, <1>6, <1>7, <1>8, <1>14, <2>1 DEF Applying
  <2>2. CASE b # a
    BY <1>3, <1>8, <1>9, <1>13, <1>14, <2>2 DEF Applying
  <2>3. QED
    BY <2>1, <2>2
<1>15. QED
  BY <1>3, <1>10, <1>11, <1>12, <1>14
     DEF Next, AddEvidence, StorePlan, BeginOther, ReplaceFile, vars, process

\* The batch in progress has no receipt yet, and its author waits for it.
LEMMA WritingStep == IInv /\ [Next]_vars => WritingInv'
<1> SUFFICES ASSUME IInv, [Next]_vars, writing' # NoWrite PROVE WritingInv'
  BY DEF WritingInv
<1>1. TypeOK /\ WritingInv /\ JobInv
  BY DEF IInv
\* While a batch is in progress, its author does nothing but wait.
<1>2. ASSUME writing # NoWrite, UNCHANGED recordStore,
             writing'.id = writing.id, writing'.batch = writing.batch,
             writing'.author = writing.author, writing'.done \subseteq Touched(writing.batch),
             writing.author # Nobody =>
               pc'[writing.author] = pc[writing.author]
               /\ job'[writing.author] = job[writing.author]
      PROVE  WritingInv'
  <2>1. writing.id \in Plans =>
          plan'[writing.id] # NoPlan /\ writing.batch = Batch(writing.id)'
    BY <1>1, <1>2, PlansStay DEF WritingInv, Batch
  <2>2. QED
    BY <1>1, <1>2, <2>1 DEF WritingInv, recordStore, Touched
<1>3. ASSUME NEW author \in Appliers \cup {Nobody}, NEW t \in Ids, NEW rq \in Requests,
             Begin(author, t, rq),
             t \in Plans => plan[t] # NoPlan /\ rq = Batch(t),
             author # Nobody => pc'[author] = "wait" /\ job'[author] = t
      PROVE  WritingInv'
  <2>1. /\ writing' = [author |-> author, id |-> t, batch |-> rq, done |-> {}]
        /\ outcome' = outcome /\ outcome[t] = AS!Unused /\ plan' = plan
    BY <1>3 DEF Begin, recordStore
  <2>2. QED
    BY <1>3, <2>1 DEF WritingInv, Batch
<1>4. ASSUME NEW a \in Appliers, BeginPut(a) PROVE WritingInv'
  <2>1. /\ job[a] \in Plans /\ plan[job[a]] # NoPlan /\ plan[job[a]] \in PlanType
        /\ pc'[a] = "wait" /\ job'[a] = job[a]
    BY <1>1, <1>4 DEF BeginPut, Go, JobInv, TypeOK
  <2>2. Batch(job[a]) \in Requests
    BY <2>1, PlanFields DEF Batch
  <2>3. QED
    BY <1>3, <1>4, <2>1, <2>2 DEF BeginPut, Ids
<1>5. ASSUME NEW w \in WriterIds, NEW rq \in OtherBatches, BeginOther(w, rq) PROVE WritingInv'
  BY <1>3, <1>5, PlanAssumption DEF BeginOther, Ids
<1>6. ASSUME NEW r \in Records, ReplaceFile(r) PROVE WritingInv'
  <2>1. writing \in WriteType /\ writing # NoWrite
    BY <1>1, <1>6 DEF ReplaceFile, TypeOK
  <2>2. /\ writing'.id = writing.id /\ writing'.batch = writing.batch
        /\ writing'.author = writing.author /\ writing'.done = writing.done \cup {r}
    BY <1>6, <2>1 DEF ReplaceFile, WriteType
  <2>3. QED
    BY <1>1, <1>2, <1>6, <2>1, <2>2 DEF ReplaceFile, process, WritingInv
<1>7. CASE Commit \/ RollBack
  BY <1>7 DEF Commit, RollBack
<1>8. ASSUME NEW a \in Appliers,
             \/ PutAnswered(a) \/ PutRefused(a) \/ MarkApplied(a) \/ Die(a)
             \/ \E r \in Records : ReadRecord(a, r)
             \/ \E p \in Plans : LoadPlan(a, p)
      PROVE  WritingInv'
  <2>1. writing' = writing /\ UNCHANGED recordStore /\ pc[a] # "wait"
    BY <1>8 DEF PutAnswered, PutRefused, MarkApplied, Die, ReadRecord, LoadPlan
  <2>2. ASSUME writing.author # Nobody
        PROVE  /\ pc'[writing.author] = pc[writing.author]
               /\ job'[writing.author] = job[writing.author]
    <3>1. writing.author \in Appliers /\ pc[writing.author] = "wait"
      BY <1>1, <2>1, <2>2 DEF WritingInv
    <3>2. QED
      BY <1>1, <1>8, <2>1, <3>1
         DEF PutAnswered, PutRefused, MarkApplied, Die, ReadRecord, LoadPlan, StartReading, Go,
             TypeOK
  <2>3. QED
    BY <1>1, <1>2, <2>1, <2>2 DEF WritingInv
<1>9. CASE UNCHANGED <<recordStore, writing, process>>
  BY <1>1, <1>2, <1>9 DEF process, WritingInv
<1>10. QED
  BY <1>4, <1>5, <1>6, <1>7, <1>8, <1>9
     DEF Next, Applying, AddEvidence, StorePlan, vars

\* What is newly marked is what its process has read, after the commit.
LEMMA NewlyApplied ==
  ASSUME IInv, [Next]_vars, NEW p \in Plans, plan'[p] # NoPlan,
         plan'[p].status = "applied", plan'[p] # plan[p]
  PROVE  /\ plan[p] # NoPlan /\ outcome[p].state = "applied"
         /\ \A r \in Touched(Batch(p)) :
              plan'[p].result[r] # Absent /\ Accounted(p, r, plan'[p].result[r])
<1>1. TypeOK /\ JobInv /\ SeenInv
  BY DEF IInv
<1>2. PICK a \in Appliers : MarkApplied(a) /\ job[a] = p
  <2>1. ASSUME NEW q \in Plans, NEW b \in Bodies, StorePlan(q, b) PROVE FALSE
    BY <1>1, <2>1 DEF StorePlan, TypeOK
  <2>2. plan' # plan
    OBVIOUS
  <2>3. PICK a \in Appliers : MarkApplied(a)
    BY <2>1, <2>2
       DEF Next, Applying, AddEvidence, BeginPut, BeginOther, Begin, PutAnswered, PutRefused,
           ReplaceFile, Commit, RollBack, ReadRecord, Die, LoadPlan, vars
  <2>4. job[a] = p
    BY <1>1, <2>3 DEF MarkApplied, TypeOK
  <2>5. QED
    BY <2>3, <2>4
<1>3. pc[a] = "mark" /\ plan[p] # NoPlan /\ plan[p] \in PlanType
      /\ outcome[p].state = "applied"
  BY <1>1, <1>2 DEF MarkApplied, JobInv, TypeOK
<1>4. plan'[p] = [plan[p] EXCEPT !.status = "applied", !.result = seen[a]]
  BY <1>1, <1>2 DEF MarkApplied, TypeOK
<1>5. plan'[p].result = seen[a]
  BY <1>3, <1>4 DEF PlanType
<1>6. QED
  BY <1>1, <1>2, <1>3, <1>5 DEF SeenInv

\* A plan is marked applied only after its own commit.
LEMMA CommittedStep == IInv /\ [Next]_vars => AppliedIsCommitted'
<1> SUFFICES ASSUME IInv, [Next]_vars, NEW p \in Plans, plan'[p] # NoPlan,
                    plan'[p].status = "applied"
             PROVE  outcome'[p] = [state |-> "applied", request |-> Batch(p)']
  BY DEF AppliedIsCommitted
<1>1. TypeOK /\ ReceiptInv /\ WritingInv /\ JobInv /\ AppliedIsCommitted /\ p \in Ids
  BY DEF IInv, Ids
<1>2. plan[p] # NoPlan /\ outcome[p].state = "applied"
  <2>1. CASE plan'[p] = plan[p]
    <3>1. outcome[p] = [state |-> "applied", request |-> Batch(p)]
      BY <1>1, <2>1 DEF AppliedIsCommitted
    <3>2. QED
      BY <2>1, <3>1
  <2>2. CASE plan'[p] # plan[p]
    BY <2>2, NewlyApplied
  <2>3. QED
    BY <2>1, <2>2
<1>3. outcome[p] # AS!Unused
  BY <1>2 DEF AS!Unused
<1>4. outcome[p] = [state |-> "applied", request |-> Batch(p)]
  BY <1>1, <1>2, <1>3 DEF ReceiptInv, TypeOK, AS!Outcomes
<1>5. QED
  BY <1>1, <1>2, <1>3, <1>4, PlansStay, ReceiptsStay DEF Batch

\* A result that is not the plan's own is another transaction's.
LEMMA ForeignStep == IInv /\ [Next]_vars => ForeignResultsHaveAuthors'
<1> SUFFICES ASSUME IInv, [Next]_vars, NEW p \in Plans, plan'[p] # NoPlan,
                    plan'[p].status = "applied", NEW r \in Records, r \in Touched(Batch(p))',
                    plan'[p].result[r] # Batch(p)'.writes[r]
             PROVE  plan'[p].result[r] # Absent /\ \E t \in Ids \ {p} : Wrote(t, r)'
  BY DEF ForeignResultsHaveAuthors, Touched
<1>1. TypeOK /\ WritingInv /\ JobInv /\ ForeignResultsHaveAuthors
  BY DEF IInv
<1>2. plan[p] # NoPlan
  BY <1>1, NewlyApplied
<1>3. Batch(p)' = Batch(p)
  BY <1>1, <1>2, PlansStay DEF Batch
<1>4. plan'[p].result[r] # Absent /\ Accounted(p, r, plan'[p].result[r])
  <2>1. CASE plan'[p] = plan[p]
    BY <1>1, <1>3, <2>1 DEF ForeignResultsHaveAuthors, Accounted, Touched
  <2>2. CASE plan'[p] # plan[p]
    BY <1>3, <2>2, NewlyApplied DEF Touched
  <2>3. QED
    BY <2>1, <2>2
<1>5. PICK t \in Ids \ {p} : Wrote(t, r)
  BY <1>3, <1>4 DEF Accounted
<1>6. Wrote(t, r)'
  BY <1>1, <1>5, WritersStay
<1>7. QED
  BY <1>4, <1>6

\* The invariant is inductive.
LEMMA IInvStep == IInv /\ [Next]_vars => IInv'
<1> SUFFICES ASSUME IInv, [Next]_vars PROVE IInv'
  OBVIOUS
<1>1. TypeOK'
  BY TypeStep DEF IInv
<1>2. QED
  BY <1>1, ReceiptStep, WritingStep, JobStep, PlaceStep, SeenStep, CommittedStep, ForeignStep
     DEF IInv

\* IInv is an invariant.
LEMMA Invariance == Spec => []IInv
BY IInvInit, IInvStep, PTL DEF Spec

-----------------------------------------------------------------------------
(* The theorems                                                            *)

\* TypeOK is an invariant of MutationPlans.
THEOREM PlansTypeCorrect == Spec => []TypeOK
<1>1. IInv => TypeOK
  BY DEF IInv
<1>2. QED
  BY <1>1, Invariance, PTL

\* apply_mutation_plan marks a plan applied only when the batch it holds has been
\* committed, also when another process committed it.
THEOREM MarkedPlansAreCommitted == Spec => []AppliedIsCommitted
<1>1. IInv => AppliedIsCommitted
  BY DEF IInv
<1>2. QED
  BY <1>1, Invariance, PTL

\* A result of an applied plan that it did not propose is what another transaction
\* has written, or was writing when apply_mutation_plan read the file.
THEOREM ResultsHaveAuthors == Spec => []ForeignResultsHaveAuthors
<1>1. IInv => ForeignResultsHaveAuthors
  BY DEF IInv
<1>2. QED
  BY <1>1, Invariance, PTL

\* A plan that is applied keeps its receipt, whatever late processes do.
THEOREM AppliedPlansStay == Spec => AppliedIsFinal
<1>1. IInv /\ [Next]_vars =>
        \A p \in Plans :
          plan[p] # NoPlan /\ plan[p].status = "applied" => plan'[p] = plan[p]
  BY PlansStay DEF IInv
<1>2. QED
  BY <1>1, Invariance, PTL DEF Spec, AppliedIsFinal

\* A stored plan keeps the receipt, the passing evaluation and the context it
\* rests on: store_mutation_plan has asked for them, and evidence is only added.
THEOREM EvidenceStays == Spec => []PlansHaveEvidence
<1>1. Init => PlansHaveEvidence
  BY DEF Init, PlansHaveEvidence
<1>2. IInv /\ PlansHaveEvidence /\ [Next]_vars => PlansHaveEvidence'
  <2> SUFFICES ASSUME IInv, PlansHaveEvidence, [Next]_vars,
                      NEW p \in Plans, plan'[p] # NoPlan
               PROVE  HasEvidence(plan[p].body)'
    BY DEF PlansHaveEvidence
  <2>1. TypeOK /\ JobInv /\ EvidenceTypeOK
    BY DEF IInv, TypeOK
  <2>2. HasEvidence(plan'[p].body)
    <3>1. CASE plan[p] # NoPlan
      BY <2>1, <3>1, PlansStay DEF PlansHaveEvidence
    <3>2. CASE plan[p] = NoPlan
      <4>1. PICK q \in Plans, b \in Bodies : StorePlan(q, b)
        <5>1. ASSUME NEW a \in Appliers, MarkApplied(a) PROVE FALSE
          <6>1. job[a] \in Plans /\ plan[job[a]] # NoPlan
            BY <2>1, <5>1 DEF MarkApplied, JobInv
          <6>2. QED
            BY <2>1, <3>2, <5>1, <6>1 DEF MarkApplied, TypeOK
        <5>2. plan' # plan
          BY <3>2
        <5>3. QED
          BY <5>1, <5>2
             DEF Next, Applying, AddEvidence, BeginPut, BeginOther, Begin, PutAnswered,
                 PutRefused, ReplaceFile, Commit, RollBack, ReadRecord, Die, LoadPlan, vars
      <4>2. q = p
        BY <2>1, <3>2, <4>1 DEF StorePlan, TypeOK
      <4>3. plan'[p].body = b
        BY <2>1, <4>1, <4>2 DEF StorePlan, TypeOK
      <4>4. QED
        BY <4>1, <4>3 DEF StorePlan
    <3>3. QED
      BY <3>1, <3>2
  <2>3. EvidenceNext \/ UNCHANGED evidence
    BY DEF Next, Applying, AddEvidence, StorePlan, BeginPut, BeginOther, Begin, PutAnswered,
           PutRefused, ReplaceFile, Commit, RollBack, ReadRecord, MarkApplied, Die, LoadPlan,
           vars
  <2>4. /\ contexts \subseteq contexts'
        /\ Stored("orchestration") \subseteq Stored("orchestration")'
    BY <2>1, <2>3, EvidenceGrows
  <2>5. QED
    BY <2>2, <2>4 DEF HasEvidence, OfKind
<1>3. QED
  BY <1>1, <1>2, Invariance, PTL DEF Spec

-----------------------------------------------------------------------------
(* The order of tasks                                                      *)

\* Induction, as a fact about sets of numbers.
LEMMA NumbersInduction ==
  ASSUME NEW S \in SUBSET Nat, 0 \in S, \A n \in S : n + 1 \in S
  PROVE  S = Nat
<1> SUFFICES ASSUME Nat \ S # {} PROVE FALSE
  OBVIOUS
<1> DEFINE Rest == Nat \ S
<1>1. Rest \subseteq Nat /\ Rest # {}
  OBVIOUS
<1> HIDE DEF Rest
<1>2. PICK x \in Rest : \A y \in Rest : ~(<<y, x>> \in OpToRel(<, Nat))
  BY <1>1, NatLessThanWellFounded, WFMin, Zenon
<1>3. x \in Nat /\ \A y \in Rest : ~(y < x)
  BY <1>1, <1>2 DEF OpToRel
<1>4. x # 0
  BY <1>3 DEF Rest
<1>5. x - 1 \in Nat /\ x - 1 < x
  BY <1>3, <1>4
<1>6. x - 1 \in S
  BY <1>3, <1>5 DEF Rest
<1>7. (x - 1) + 1 = x
  BY <1>3
<1>8. x \in S
  BY <1>6, <1>7
<1>9. QED
  BY <1>2, <1>8 DEF Rest

\* The tasks that topological_order may take next, and the one it takes.
Ready(todo) == {t \in todo : t.dependencies \cap IdsOf(todo) = {}}
First(todo) == CHOOSE t \in Ready(todo) : TRUE
Unfolded(f, todo) ==
  IF Ready(todo) = {} THEN <<>> ELSE <<First(todo)>> \o f[todo \ {First(todo)}]

\* The task taken next is one that may be.
LEMMA FirstIsReady ==
  ASSUME NEW todo, Ready(todo) # {}
  PROVE  First(todo) \in Ready(todo) /\ First(todo) \in todo
  BY Zenon DEF First, Ready

\* There is a function as the recursion asks for.
LEMMA OrderExists ==
  ASSUME NEW T, IsFiniteSet(T)
  PROVE  \E f : f = [todo \in SUBSET T |-> Unfolded(f, todo)]
<1> DEFINE Small(n) == {todo \in SUBSET T : Cardinality(todo) <= n}
           Solved == {n \in Nat : \E f : f = [todo \in Small(n) |-> Unfolded(f, todo)]}
<1>1. \A todo \in SUBSET T :
        /\ IsFiniteSet(todo) /\ Cardinality(todo) \in Nat /\ Cardinality(todo) <= Cardinality(T)
        /\ Cardinality(todo) = 0 => todo = {}
        /\ \A t \in todo : Cardinality(todo \ {t}) = Cardinality(todo) - 1
  <2> SUFFICES ASSUME NEW todo \in SUBSET T
      PROVE /\ IsFiniteSet(todo) /\ Cardinality(todo) \in Nat /\ Cardinality(todo) <= Cardinality(T)
            /\ Cardinality(todo) = 0 => todo = {}
            /\ \A t \in todo : Cardinality(todo \ {t}) = Cardinality(todo) - 1
    OBVIOUS
  <2>1. IsFiniteSet(todo) /\ Cardinality(todo) <= Cardinality(T)
    BY FS_Subset
  <2>2. QED
    BY <2>1, FS_CardinalityType, FS_EmptySet, FS_RemoveElement
<1>2. 0 \in Solved
  <2> DEFINE f == [todo \in Small(0) |-> <<>>]
  <2>1. \A todo \in Small(0) : Ready(todo) = {}
    BY <1>1 DEF Ready
  <2>2. f = [todo \in Small(0) |-> Unfolded(f, todo)]
    BY <2>1 DEF Unfolded
  <2>3. QED
    BY <2>2
<1>3. ASSUME NEW n \in Solved PROVE n + 1 \in Solved
  <2>1. PICK f : f = [todo \in Small(n) |-> Unfolded(f, todo)]
    OBVIOUS
  <2> DEFINE g == [todo \in Small(n + 1) |-> Unfolded(f, todo)]
  <2>2. \A todo \in Small(n) : todo \in Small(n + 1)
    BY <1>1
  <2>3. \A todo \in Small(n) : g[todo] = f[todo]
    <3> SUFFICES ASSUME NEW todo \in Small(n) PROVE g[todo] = f[todo]
      OBVIOUS
    <3>1. f[todo] = Unfolded(f, todo)
      BY <2>1, Zenon
    <3>2. QED
      BY <2>2, <3>1, Zenon
  <2>4. ASSUME NEW todo \in Small(n + 1), Ready(todo) # {}
        PROVE  todo \ {First(todo)} \in Small(n)
    <3>1. First(todo) \in todo
      BY <2>4, FirstIsReady
    <3>2. QED
      BY <1>1, <3>1
  <2>5. ASSUME NEW todo \in Small(n + 1) PROVE Unfolded(f, todo) = Unfolded(g, todo)
    <3>1. CASE Ready(todo) = {}
      BY <3>1 DEF Unfolded
    <3>2. CASE Ready(todo) # {}
      <4>1. g[todo \ {First(todo)}] = f[todo \ {First(todo)}]
        BY <2>3, <2>4, <3>2
      <4> HIDE DEF g
      <4>2. QED
        BY <3>2, <4>1, Zenon DEF Unfolded
    <3>3. QED
      BY <3>1, <3>2
  <2>6. g = [todo \in Small(n + 1) |-> Unfolded(g, todo)]
    BY <2>5, Zenon
  <2> HIDE DEF g, Small
  <2>7. n + 1 \in Nat /\ \E h : h = [todo \in Small(n + 1) |-> Unfolded(h, todo)]
    BY <2>6
  <2>8. QED
    BY <2>7
<1>4. Solved = Nat
  <2> HIDE DEF Small
  <2>1. Solved \in SUBSET Nat
    OBVIOUS
  <2> HIDE DEF Solved
  <2>2. QED
    BY <1>2, <1>3, <2>1, NumbersInduction
<1>5. Cardinality(T) \in Solved
  BY <1>4, FS_CardinalityType
<1>6. Small(Cardinality(T)) = SUBSET T
  BY <1>1
<1>7. QED
  BY <1>5, <1>6

\* topological_order is that function, of all the tasks.
LEMMA OrderUnfolds ==
  ASSUME NEW T, IsFiniteSet(T)
  PROVE  \E order : /\ order = [todo \in SUBSET T |-> Unfolded(order, todo)]
                    /\ TopologicalOrder(T) = order[T]
<1> DEFINE order == CHOOSE f : f = [todo \in SUBSET T |-> Unfolded(f, todo)]
<1>1. TopologicalOrder(T) = order[T]
  BY Zenon DEF TopologicalOrder, Unfolded, Ready, First
<1>2. order = [todo \in SUBSET T |-> Unfolded(order, todo)]
  BY OrderExists, Zenon
<1>3. QED
  BY <1>1, <1>2, Zenon

\* What the order is for any set of tasks: each of them at most once, and none before
\* a task of the set that it depends on.
InOrder(s, todo) ==
  /\ s \in Seq(todo) /\ Len(s) <= Cardinality(todo)
  /\ \A i, j \in 1..Len(s) :
       /\ s[i] = s[j] => i = j
       /\ s[i].id \in s[j].dependencies => i < j

\* What topological_order gives is in order.
LEMMA OrderInOrder ==
  ASSUME NEW T, IsFiniteSet(T) PROVE InOrder(TopologicalOrder(T), T)
<1>1. PICK order : /\ order = [todo \in SUBSET T |-> Unfolded(order, todo)]
                   /\ TopologicalOrder(T) = order[T]
  BY OrderUnfolds
<1> DEFINE Good == {n \in Nat : \A todo \in SUBSET T :
                      Cardinality(todo) = n => InOrder(order[todo], todo)}
<1>2. \A todo \in SUBSET T : IsFiniteSet(todo) /\ Cardinality(todo) \in Nat
  BY FS_Subset, FS_CardinalityType
<1>3. \A todo \in SUBSET T : Ready(todo) = {} => InOrder(order[todo], todo)
  <2> SUFFICES ASSUME NEW todo \in SUBSET T, Ready(todo) = {}
               PROVE  InOrder(order[todo], todo)
    OBVIOUS
  <2>1. order[todo] = Unfolded(order, todo)
    BY <1>1, Zenon
  <2>2. order[todo] = <<>>
    BY <2>1 DEF Unfolded
  <2>3. QED
    BY <1>2, <2>2 DEF InOrder
<1>4. 0 \in Good
  <2> SUFFICES ASSUME NEW todo \in SUBSET T, Cardinality(todo) = 0
               PROVE  InOrder(order[todo], todo)
    OBVIOUS
  <2>1. todo = {}
    BY <1>2, FS_EmptySet
  <2>2. Ready(todo) = {}
    BY <2>1 DEF Ready
  <2>3. QED
    BY <1>3, <2>2
<1>5. ASSUME NEW n \in Good PROVE n + 1 \in Good
  <2> SUFFICES ASSUME NEW todo \in SUBSET T, Cardinality(todo) = n + 1, Ready(todo) # {}
               PROVE  InOrder(order[todo], todo)
    BY <1>3
  <2> DEFINE t == First(todo)
             rest == todo \ {t}
             s == order[rest]
  <2>1. t \in todo /\ t.dependencies \cap IdsOf(todo) = {}
    BY FirstIsReady DEF Ready
  <2>2. rest \in SUBSET T /\ Cardinality(rest) = n
    BY <1>2, <2>1, FS_RemoveElement
  <2>3. InOrder(s, rest)
    BY <2>2
  <2>4. order[todo] = <<t>> \o s
    <3>1. order[todo] = Unfolded(order, todo)
      BY <1>1, Zenon
    <3>2. QED
      BY <3>1 DEF Unfolded
  <2> HIDE DEF t, s
  <2>5. /\ s \in Seq(rest) /\ Len(s) <= n
        /\ \A i, j \in 1..Len(s) :
             /\ s[i] = s[j] => i = j
             /\ s[i].id \in s[j].dependencies => i < j
    BY <2>2, <2>3 DEF InOrder
  <2>6. \A i \in 1..Len(s) : s[i] \in todo /\ s[i] # t
    BY <2>5
  <2> DEFINE all == <<t>> \o s
  <2>7. /\ all \in Seq(todo) /\ Len(all) = Len(s) + 1 /\ Len(s) \in Nat
        /\ all[1] = t
        /\ \A i \in 2..Len(all) : all[i] = s[i - 1] /\ i - 1 \in 1..Len(s)
    BY <2>1, <2>5
  <2> HIDE DEF all
  <2>8. ASSUME NEW i \in 1..Len(all), NEW j \in 1..Len(all)
        PROVE  /\ all[i] = all[j] => i = j
               /\ all[i].id \in all[j].dependencies => i < j
    <3>1. all[i] \in todo /\ all[i].id \in IdsOf(todo)
      BY <2>1, <2>6, <2>7 DEF IdsOf
    <3>2. CASE j = 1
      BY <2>1, <2>6, <2>7, <3>1, <3>2
    <3>3. CASE j # 1 /\ i = 1
      BY <2>6, <2>7, <3>3
    <3>4. CASE j # 1 /\ i # 1
      <4>1. /\ i - 1 \in 1..Len(s) /\ j - 1 \in 1..Len(s)
            /\ all[i] = s[i - 1] /\ all[j] = s[j - 1]
        BY <2>7, <3>4
      <4>2. /\ s[i - 1] = s[j - 1] => i - 1 = j - 1
            /\ s[i - 1].id \in s[j - 1].dependencies => i - 1 < j - 1
        BY <2>5, <4>1
      <4>3. QED
        BY <4>1, <4>2
    <3>5. QED
      BY <3>2, <3>3, <3>4
  <2>9. QED
    BY <2>4, <2>5, <2>7, <2>8 DEF InOrder, all
<1>6. Good = Nat
  <2>1. Good \in SUBSET Nat
    OBVIOUS
  <2> HIDE DEF Good
  <2>2. QED
    BY <1>4, <1>5, <2>1, NumbersInduction
<1>7. Cardinality(T) \in Good
  BY <1>2, <1>6
<1>8. QED
  BY <1>1, <1>7

\* An order that is as long as the set of tasks has all of them.
LEMMA OrderedHasAll ==
  ASSUME NEW T, IsFiniteSet(T), Ordered(T)
  PROVE  LET order == TopologicalOrder(T) IN
         /\ {order[i] : i \in DOMAIN order} = T
         /\ \A i, j \in DOMAIN order :
              /\ order[i] = order[j] => i = j
              /\ order[i].id \in order[j].dependencies => i < j
<1> DEFINE s == TopologicalOrder(T)
           R == {s[i] : i \in 1..Len(s)}
<1>1. InOrder(s, T) /\ Len(s) = Cardinality(T)
  BY OrderInOrder DEF Ordered
<1> HIDE DEF s
<1>2. /\ s \in Seq(T) /\ DOMAIN s = 1..Len(s) /\ Len(s) \in Nat
      /\ \A i, j \in 1..Len(s) :
           /\ s[i] = s[j] => i = j
           /\ s[i].id \in s[j].dependencies => i < j
  BY <1>1 DEF InOrder
<1>3. R \in SUBSET T
  BY <1>2
<1>4. Cardinality(R) = Len(s)
  <2>1. s \in Bijection(1..Len(s), R)
    BY <1>2 DEF Bijection, Injection, Surjection, IsInjective
  <2>2. ExistsBijection(1..Len(s), R)
    BY <2>1 DEF ExistsBijection
  <2>3. QED
    BY <1>2, <2>2, FS_CountingElements
<1>5. R = T
  BY <1>1, <1>3, <1>4, FS_Subset
<1>6. QED
  BY <1>2, <1>5 DEF s

-----------------------------------------------------------------------------
(* Ledgers                                                                 *)

\* Every append leaves each ledger in order: _append_episode writes what is new
\* of a set of documents that, with those stored, passes the audit, and contexts
\* that receipts name stay.
THEOREM LedgersStayAudited == Spec => []LedgersPassAudit
<1>1. Init => LedgersPassAudit
  <2> SUFFICES ASSUME Init, NEW l \in Ledgers PROVE Audited(l, Stored(l))
    BY DEF LedgersPassAudit, Init, EvidenceInit
  <2>1. Stored(l) = {}
    BY DEF Init, EvidenceInit, Stored
  <2>2. ExecutionOK({}) /\ ReceiptsHaveContexts({})
    <3>1. Ordered({})
      BY OrderInOrder, FS_EmptySet DEF InOrder, Ordered
    <3>2. \A k : OfKind({}, k) = {}
      BY DEF OfKind
    <3>3. QED
      BY <3>1, <3>2 DEF ExecutionOK, Unique, TasksHaveManifests, ManifestsHaveTasks,
                        ReceiptsHaveSources, EvaluationsHaveReceipts, ReceiptsHaveContexts
  <2>3. W!WorkflowOK({})
    BY DEF W!WorkflowOK, W!HandoffsHaveRequests, W!AcceptancesHaveHandoffs, W!DecidedOnce,
           W!StatusesAgree, W!Handoffs, W!Acceptances, W!Requested
  <2>4. QED
    BY <2>1, <2>2, <2>3 DEF Audited
<1>2. LedgersPassAudit /\ [Next]_vars /\ IInv => LedgersPassAudit'
  <2> SUFFICES ASSUME IInv, LedgersPassAudit, EvidenceNext \/ UNCHANGED evidence
               PROVE  LedgersPassAudit'
    BY DEF Next, Applying, AddEvidence, StorePlan, BeginPut, BeginOther, Begin, PutAnswered,
           PutRefused, ReplaceFile, Commit, RollBack, ReadRecord, MarkApplied, Die, LoadPlan,
           vars
  <2>1. EvidenceTypeOK
    BY DEF IInv, TypeOK
  <2>2. ASSUME NEW l \in Ledgers, episodes'[l] = episodes[l]
        PROVE  /\ Audited(l, Stored(l))'
               /\ \A e, f \in episodes'[l] : e # f => e \cap f = {}
    <3>1. Audited(l, Stored(l)) /\ Stored(l)' = Stored(l)
      BY <2>2 DEF LedgersPassAudit, Stored
    <3>2. contexts \subseteq contexts'
      BY <2>1, EvidenceGrows
    <3>3. QED
      BY <2>2, <3>1, <3>2 DEF Audited, ReceiptsHaveContexts, LedgersPassAudit
  <2>3. ASSUME NEW m \in Ledgers, NEW batch \in Submissions[m], AppendEpisode(m, batch)
        PROVE  LedgersPassAudit'
    <3>1. episodes' = [episodes EXCEPT ![m] = episodes[m] \cup {batch \ Stored(m)}]
          /\ Audited(m, Stored(m) \cup batch) /\ contexts' = contexts
      BY <2>3 DEF AppendEpisode
    <3>2. episodes'[m] = episodes[m] \cup {batch \ Stored(m)}
          /\ \A l \in Ledgers : l # m => episodes'[l] = episodes[l]
      BY <2>1, <3>1 DEF EvidenceTypeOK
    <3>3. Stored(m)' = Stored(m) \cup batch
      BY <3>2 DEF Stored
    <3>4. Audited(m, Stored(m))'
      BY <3>1, <3>3 DEF Audited, ReceiptsHaveContexts
    <3>5. \A e, f \in episodes'[m] : e # f => e \cap f = {}
      <4>1. \A e \in episodes[m] : e \cap (batch \ Stored(m)) = {}
        BY DEF Stored
      <4>2. QED
        BY <3>2, <4>1 DEF LedgersPassAudit
    <3>6. QED
      BY <2>2, <3>2, <3>4, <3>5 DEF LedgersPassAudit
  <2>4. CASE episodes' = episodes
    BY <2>2, <2>4 DEF LedgersPassAudit
  <2>5. QED
    BY <2>3, <2>4 DEF EvidenceNext, StoreContext, evidence
<1>3. QED
  BY <1>1, <1>2, Invariance, PTL DEF Spec

\* The order of the tasks that audit-execution reports is theirs: every task of the
\* ledger once, after all it depends on.  What topological_order returns is never out
\* of order, and the ledger passes its audit only with an order that leaves no task out.
THEOREM TasksStayOrdered == Spec => []TasksAreOrdered
<1> DEFINE Finite == IsFiniteSet(Stored("orchestration"))
<1>1. Init => Finite
  BY FS_EmptySet DEF Init, EvidenceInit, Stored, Ledgers
<1>2. IInv /\ Finite /\ [Next]_vars => Finite'
  <2> SUFFICES ASSUME IInv, Finite, EvidenceNext \/ UNCHANGED evidence PROVE Finite'
    BY DEF Next, Applying, AddEvidence, StorePlan, BeginPut, BeginOther, Begin, PutAnswered,
           PutRefused, ReplaceFile, Commit, RollBack, ReadRecord, MarkApplied, Die, LoadPlan,
           vars
  <2>1. ASSUME NEW l \in Ledgers, NEW batch \in Submissions[l], AppendEpisode(l, batch)
        PROVE  Finite'
    <3>1. episodes' = [episodes EXCEPT ![l] = episodes[l] \cup {batch \ Stored(l)}]
      BY <2>1 DEF AppendEpisode
    <3>2. CASE l = "orchestration"
      <4>1. Stored(l)' = Stored(l) \cup batch
        <5>1. episodes'[l] = episodes[l] \cup {batch \ Stored(l)}
          BY <3>1 DEF IInv, TypeOK, EvidenceTypeOK
        <5>2. QED
          BY <5>1 DEF Stored
      <4>2. IsFiniteSet(batch)
        BY LedgerAssumption
      <4>3. IsFiniteSet(Stored(l) \cup batch)
        BY <3>2, <4>2, FS_Union
      <4>4. QED
        BY <3>2, <4>1, <4>3
    <3>3. CASE l # "orchestration"
      BY <3>1, <3>3 DEF IInv, TypeOK, EvidenceTypeOK, Stored, Ledgers
    <3>4. QED
      BY <3>2, <3>3
  <2>2. QED
    BY <2>1 DEF EvidenceNext, StoreContext, evidence, Stored
<1>3. LedgersPassAudit /\ Finite => TasksAreOrdered
  <2> SUFFICES ASSUME LedgersPassAudit, Finite PROVE TasksAreOrdered
    OBVIOUS
  <2>1. Ordered(OfKind(Stored("orchestration"), "task"))
    BY DEF LedgersPassAudit, Ledgers, Audited, ExecutionOK
  <2>2. IsFiniteSet(OfKind(Stored("orchestration"), "task"))
    BY FS_Subset DEF OfKind
  <2>3. QED
    BY <2>1, <2>2, OrderedHasAll, Zenon DEF TasksAreOrdered
<1>4. QED
  BY <1>1, <1>2, <1>3, Invariance, LedgersStayAudited, PTL DEF Spec
=============================================================================
