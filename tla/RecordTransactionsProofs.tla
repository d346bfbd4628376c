----------------------- MODULE RecordTransactionsProofs -----------------------
(***************************************************************************)
(* Theorems about RecordTransactions, for every set of records, values,    *)
(* requests and transaction ids and any number of faults; and, with the    *)
(* repository audit as the guard of commits, about AuditedTransactions and *)
(* about the audit's search for cycles of supersession.                    *)
(***************************************************************************)
EXTENDS AuditedTransactions, FiniteSetTheorems, SequenceTheorems, WellFoundedInduction, TLAPS

BatchSteps == (PutSteps \ {"check"}) \cup RollbackSteps
WorkSteps == PutSteps \cup RollbackSteps \cup {"restore", "reaudit"}

\* The command in progress holds the lock and knows its id and its request.
ControlInv ==
  /\ pc = "idle" <=> lock # "held"
  /\ pc # "idle" => cur \in Ids
  /\ pc \in WorkSteps => req \in Requests
  /\ pc = "recheck" => IsOpen(cur)

JournalInv == \A t \in Ids : journal[t].status # "none" => journal[t].request \in Requests

\* Each record of an open batch is as it was or as the batch leaves it, is
\* untouched while "preparing", and has its original saved from then on.
Undoable(t) ==
  LET j == journal[t] IN
  \A r \in Touched(j.request) :
    /\ store[r] \in {j.before[r], j.request.writes[r]}
    /\ j.status = "preparing" => store[r] = j.before[r]
    /\ j.status # "preparing" => r \in evidence[t]

OpenInv == \A t \in Ids : IsOpen(t) => Undoable(t)

\* A put in progress, up to its commit: its journal says what it remembers, and
\* undoing what it did gives back the store it read.
BatchInv ==
  pc \in BatchSteps =>
    /\ \A t \in Ids : IsOpen(t) => t = cur
    /\ journal[cur].status \in OpenStatuses \cup {"none"}
    /\ journal[cur].status # "none" => journal[cur].request = req /\ journal[cur].before = snap
    /\ \A r \in Records \ Touched(req) : store[r] = snap[r]
    /\ \A r \in Touched(req) : store[r] \in {snap[r], req.writes[r]}
    /\ journal[cur].status \in {"none", "preparing"} => store = snap
    /\ AS!Admissible(snap, req)

\* Where each step of a put stands with its journal, its payloads, its records.
StageInv ==
  /\ pc = "journal" => journal[cur].status = "none"
  /\ pc \in {"mkdir", "save"} => journal[cur].status = "preparing"
  /\ pc = "save" => Touched(req) \ left \subseteq evidence[cur]
  /\ pc = "prepared" => journal[cur].status = "prepared"
  /\ pc \in {"apply", "commit"} => journal[cur].status = "applying"
  /\ pc = "apply" => \A r \in Touched(req) \ left : store[r] = req.writes[r]
  /\ pc = "commit" => store = AS!Effect(snap, req) /\ store \in Legal
  /\ pc \in {"apply", "restore"} \cup RollbackSteps => left \subseteq Touched(req)
  /\ pc = "rollback" => \A r \in Touched(req) \ left : store[r] = snap[r]

\* A recovery in progress works on an open journal, and what it has visited is
\* restored.
RecoveryInv ==
  /\ pc \in {"restore", "reaudit"} =>
       /\ IsOpen(cur)
       /\ journal[cur].request = req /\ journal[cur].before = snap
       /\ \A r \in Touched(req) \ left : store[r] = snap[r]
  /\ pc = "reaudit" => left = {}

EndInv ==
  /\ pc \in {"cleanup_ok", "release_ok"} => journal[cur].status = "committed"
  /\ pc = "cleanup" => journal[cur].status = "rolled_back"

IInv ==
  /\ OneOpenTransaction /\ OpenInv /\ BatchInv /\ StageInv /\ RecoveryInv
  /\ EndInv /\ AckedIsCommitted

TypeInv == TypeOK /\ ControlInv /\ JournalInv

-----------------------------------------------------------------------------
(* Requests and stores are what they are said to be                        *)

\* The fields of a request, as functions of the records.
LEMMA RequestFields ==
  ASSUME NEW rq \in Requests
  PROVE  /\ rq.writes \in Stores /\ rq.expected \in Stores
         /\ rq.overwrite \in BOOLEAN /\ rq.guarded \in BOOLEAN
         /\ Touched(rq) \subseteq Records
         /\ \A r \in Records : rq.writes[r] \in Contents
  BY BatchAssumption DEF RequestType, Touched, Stores

\* Replacing one record of a store gives a store that differs there only.
LEMMA StoreUpdate ==
  ASSUME NEW s \in Stores, NEW r \in Records, NEW v \in Contents
  PROVE  /\ [s EXCEPT ![r] = v] \in Stores
         /\ [s EXCEPT ![r] = v][r] = v
         /\ \A q \in Records : q # r => [s EXCEPT ![r] = v][q] = s[q]
  BY DEF Stores

\* The initial store and journal are a store and a journal.
LEMMA EmptyTyped == NoStore \in Stores /\ NoJournal \in Journals
  BY DEF NoStore, NoJournal, Journals, Stores, Contents, Statuses, OpenStatuses

\* What a journal write of the current command leaves on disk.
LEMMA JournaledStep ==
  ASSUME TypeOK, cur \in Ids, req \in Requests, NEW s \in Statuses, Journaled(s)
  PROVE  /\ journal' \in [Ids -> Journals]
         /\ journal'[cur] = [status |-> s, request |-> req, before |-> snap]
         /\ \A t \in Ids : t # cur => journal'[t] = journal[t]
         /\ JournalInv => JournalInv'
<1>1. [status |-> s, request |-> req, before |-> snap] \in Journals
  BY DEF TypeOK, Journals
<1>2. journal' \in [Ids -> Journals]
  BY <1>1 DEF TypeOK, Journaled
<1>3. journal'[cur] = [status |-> s, request |-> req, before |-> snap]
  BY DEF TypeOK, Journaled
<1>4. \A t \in Ids : t # cur => journal'[t] = journal[t]
  BY DEF TypeOK, Journaled
<1>5. JournalInv => JournalInv'
  BY <1>3, <1>4 DEF JournalInv
<1>6. QED
  BY <1>2, <1>3, <1>4, <1>5

\* Saving or dropping payloads of one id keeps the type of the evidence.
LEMMA EvidenceTyped ==
  ASSUME TypeOK, NEW kept \in SUBSET Records
  PROVE  [evidence EXCEPT ![cur] = kept] \in [Ids -> SUBSET Records]
  BY DEF TypeOK

-----------------------------------------------------------------------------
(* Types and control                                                       *)

\* The types and the control invariant hold initially.
LEMMA TypeInit == Init => TypeInv
  BY EmptyTyped, BatchAssumption, TransactionAssumption
     DEF Init, TypeInv, TypeOK, ControlInv, JournalInv, NoJournal, Steps, WorkSteps,
         PutSteps, RollbackSteps, NoStore

\* Every step preserves the types and the control invariant.
LEMMA TypeStep == TypeInv /\ [Next]_vars => TypeInv'
<1> SUFFICES ASSUME TypeInv, [Next]_vars PROVE TypeInv'
  OBVIOUS
<1> USE BatchAssumption, TransactionAssumption, RequestFields, EmptyTyped
<1> USE DEF TypeInv, TypeOK, ControlInv, JournalInv, IsOpen, Steps, WorkSteps, PutSteps,
            RollbackSteps, RecoverySteps, files, memory, Advance, Fault
<1>1. ASSUME NEW t \in Ids, NEW rq \in Requests, AcquireForPut(t, rq) PROVE TypeInv'
  BY <1>1 DEF AcquireForPut
<1>2. ASSUME NEW t \in Ids, AcquireForRecovery(t) PROVE TypeInv'
  BY <1>2 DEF AcquireForRecovery
<1>3. CASE Replay
  BY <1>3 DEF Replay
<1>4. CASE Refuse
  BY <1>4 DEF Refuse
<1>5. CASE Accept
  BY <1>5 DEF Accept
<1>6. CASE WritePreparing
  <2>1. cur \in Ids /\ req \in Requests
    BY <1>6 DEF WritePreparing
  <2>2. Journaled("preparing") /\ "preparing" \in Statuses
    BY <1>6 DEF WritePreparing, Statuses, OpenStatuses
  <2>3. journal' \in [Ids -> Journals] /\ JournalInv'
    BY <2>1, <2>2, JournaledStep
  <2>4. QED
    BY <1>6, <2>1, <2>3 DEF WritePreparing
<1>7. CASE MakePayloadDir
  BY <1>7 DEF MakePayloadDir
<1>8. CASE WritePrepared
  <2>1. cur \in Ids /\ req \in Requests
    BY <1>8 DEF WritePrepared
  <2>2. Journaled("prepared") /\ "prepared" \in Statuses
    BY <1>8 DEF WritePrepared, Statuses, OpenStatuses
  <2>3. journal' \in [Ids -> Journals] /\ JournalInv'
    BY <2>1, <2>2, JournaledStep
  <2>4. QED
    BY <1>8, <2>1, <2>3 DEF WritePrepared
<1>9. CASE WriteApplying
  <2>1. cur \in Ids /\ req \in Requests
    BY <1>9 DEF WriteApplying
  <2>2. Journaled("applying") /\ "applying" \in Statuses
    BY <1>9 DEF WriteApplying, Statuses, OpenStatuses
  <2>3. journal' \in [Ids -> Journals] /\ JournalInv'
    BY <2>1, <2>2, JournaledStep
  <2>4. QED
    BY <1>9, <2>1, <2>3 DEF WriteApplying
<1>10. CASE AuditBatch
  BY <1>10 DEF AuditBatch
<1>11. CASE AuditRejects
  BY <1>11 DEF AuditRejects
<1>12. CASE WriteCommitted
  <2>1. cur \in Ids /\ req \in Requests
    BY <1>12 DEF WriteCommitted
  <2>2. Journaled("committed") /\ "committed" \in Statuses
    BY <1>12 DEF WriteCommitted, Statuses, OpenStatuses
  <2>3. journal' \in [Ids -> Journals] /\ JournalInv'
    BY <2>1, <2>2, JournaledStep
  <2>4. QED
    BY <1>12, <2>1, <2>3 DEF WriteCommitted
<1>13. ASSUME NEW r \in Records, SavePayloads(r) PROVE TypeInv'
  BY <1>13 DEF SavePayloads
<1>14. ASSUME NEW r \in Records, ApplyRecord(r) PROVE TypeInv'
  <2>1. req.writes[r] \in Contents
    BY <1>14 DEF ApplyRecord, Stores
  <2>2. store' \in Stores
    BY <1>14, <2>1, StoreUpdate DEF ApplyRecord
  <2>3. QED
    BY <1>14, <2>2 DEF ApplyRecord
<1>15. CASE WriteRolledBack
  <2>1. cur \in Ids /\ req \in Requests
    BY <1>15 DEF WriteRolledBack
  <2>2. Journaled("rolled_back") /\ "rolled_back" \in Statuses
    BY <1>15 DEF WriteRolledBack, Statuses, OpenStatuses
  <2>3. journal' \in [Ids -> Journals] /\ JournalInv'
    BY <2>1, <2>2, JournaledStep
  <2>4. QED
    BY <1>15, <2>1, <2>3 DEF WriteRolledBack
<1>16. CASE LeaveOpen
  BY <1>16 DEF LeaveOpen
<1>17. ASSUME NEW r \in Records, RestoreOriginal(r) PROVE TypeInv'
  <2>1. snap[r] \in Contents
    BY <1>17 DEF RestoreOriginal, Stores
  <2>2. store' \in Stores
    BY <1>17, <2>1, StoreUpdate DEF RestoreOriginal
  <2>3. QED
    BY <1>17, <2>2 DEF RestoreOriginal
<1>18. CASE CheckRecovery
  <2>1. journal[cur] \in Journals /\ journal[cur].request \in Requests
    BY <1>18 DEF CheckRecovery, OpenStatuses
  <2>2. snap' \in Stores /\ req' \in Requests /\ left' \subseteq Records
    BY <1>18, <2>1 DEF CheckRecovery, Journals
  <2>3. pc' \in {"restore", "release"}
    BY <1>18 DEF CheckRecovery
  <2>4. QED
    BY <1>18, <2>2, <2>3 DEF CheckRecovery
<1>19. CASE AuditRecovery
  BY <1>19 DEF AuditRecovery
<1>20. CASE WriteRecovered
  <2>1. cur \in Ids /\ req \in Requests
    BY <1>20 DEF WriteRecovered
  <2>2. Journaled("rolled_back") /\ "rolled_back" \in Statuses
    BY <1>20 DEF WriteRecovered, Statuses, OpenStatuses
  <2>3. journal' \in [Ids -> Journals] /\ JournalInv'
    BY <2>1, <2>2, JournaledStep
  <2>4. QED
    BY <1>20, <2>1, <2>3 DEF WriteRecovered
<1>21. ASSUME NEW r \in Records, RestoreFromEvidence(r) PROVE TypeInv'
  <2>1. snap[r] \in Contents
    BY <1>21 DEF RestoreFromEvidence, Stores
  <2>2. store' \in Stores
    BY <1>21, <2>1, StoreUpdate DEF RestoreFromEvidence
  <2>3. QED
    BY <1>21, <2>2 DEF RestoreFromEvidence
<1>22. CASE CleanUp
  <2>1. evidence' \in [Ids -> SUBSET Records]
    BY <1>22, EvidenceTyped DEF CleanUp
  <2>2. pc' \in {"release_ok", "release"}
    BY <1>22 DEF CleanUp, After
  <2>3. QED
    BY <1>22, <2>1, <2>2 DEF CleanUp
<1>23. CASE Release
  BY <1>23 DEF Release, Forget
<1>24. CASE PutFails
  BY <1>24 DEF PutFails
<1>25. CASE CleanUpFails
  <2>1. evidence' \in [Ids -> SUBSET Records]
    BY <1>25, EvidenceTyped DEF CleanUpFails
  <2>2. pc' \in {"release_ok", "release"}
    BY <1>25 DEF CleanUpFails, After
  <2>3. QED
    BY <1>25, <2>1, <2>2 DEF CleanUpFails
<1>26. CASE RecoveryFails
  BY <1>26 DEF RecoveryFails
<1>27. CASE Crash
  <2>1. debris' \subseteq {"records", "transactions"}
    BY <1>27 DEF Crash, WritesIn
  <2>2. QED
    BY <1>27, <2>1 DEF Crash, Forget
<1>28. ASSUME NEW r \in Records, RestoreFails(r) PROVE TypeInv'
  BY <1>28 DEF RestoreFails
<1>29. CASE RecoverLock
  BY <1>29 DEF RecoverLock
<1>30. CASE ClearDebris
  BY <1>30 DEF ClearDebris
<1>31. CASE UNCHANGED vars
  BY <1>31 DEF vars
<1>32. QED
  BY <1>1, <1>2, <1>3, <1>4, <1>5, <1>6, <1>7, <1>8, <1>9, <1>10, <1>11, <1>12, <1>13, <1>14, <1>15, <1>16, <1>17, <1>18, <1>19, <1>20, <1>21, <1>22, <1>23, <1>24, <1>25, <1>26, <1>27, <1>28, <1>29, <1>30, <1>31
     DEF Next, Progress, PutProgress, RollbackProgress, RecoveryProgress, Failure

-----------------------------------------------------------------------------
(* The inductive invariant                                                 *)

\* The inductive invariant holds initially, when nothing is open.
LEMMA InvInit == Init => IInv
  BY DEF Init, IInv, OneOpenTransaction, OpenInv, BatchInv, StageInv, RecoveryInv,
         EndInv, AckedIsCommitted, IsOpen, NoJournal, OpenStatuses, BatchSteps,
         PutSteps, RollbackSteps

\* The abstract store touches what the concrete one does.
LEMMA SameTouched == \A rq : AS!Touched(rq) = Touched(rq)
  BY DEF AS!Touched, Touched

\* The abstract effect of a batch, record by record.
LEMMA EffectAt ==
  ASSUME NEW s, NEW rq, NEW r \in Records
  PROVE  AS!Effect(s, rq)[r] = IF r \in Touched(rq) THEN rq.writes[r] ELSE s[r]
  BY SameTouched DEF AS!Effect

\* Writing the journal of an id that no caller has been answered for, or
\* writing "committed", takes nothing back.
LEMMA OldAckedKept ==
  ASSUME TypeOK, AckedIsCommitted, \A t \in Ids : t # cur => journal'[t] = journal[t],
         journal[cur].status # "committed" \/ journal'[cur].status = "committed",
         acked' = acked
  PROVE  AckedIsCommitted'
  BY DEF TypeOK, AckedIsCommitted

\* Every step preserves the inductive invariant, action by action.
LEMMA InvStep == TypeInv /\ TypeInv' /\ IInv /\ [Next]_vars => IInv'
<1> SUFFICES ASSUME TypeInv, TypeInv', IInv, [Next]_vars PROVE IInv'
  OBVIOUS
<1> USE BatchAssumption, TransactionAssumption
<1> USE DEF TypeInv, ControlInv, IInv, OneOpenTransaction, OpenInv, Undoable, BatchInv, StageInv, RecoveryInv, EndInv, AckedIsCommitted, IsOpen, WorkSteps, BatchSteps, PutSteps,
            RollbackSteps, RecoverySteps, files, memory, Advance, Fault, OpenStatuses
<1>1. ASSUME NEW t \in Ids, NEW rq \in Requests, AcquireForPut(t, rq) PROVE IInv'
  BY <1>1 DEF AcquireForPut
<1>2. ASSUME NEW t \in Ids, AcquireForRecovery(t) PROVE IInv'
  BY <1>2 DEF AcquireForRecovery
<1>3. CASE Replay
  BY <1>3 DEF Replay
<1>4. CASE Refuse
  BY <1>4 DEF Refuse
<1>5. CASE Accept
  <2>1. \A t \in Ids : ~IsOpen(t)
    BY <1>5 DEF Accept, StoreNeedsRecovery
  <2>2. AS!Admissible(snap, req)'
    BY <1>5, SameTouched DEF Accept, Refused, AS!Admissible
  <2>3. BatchInv'
    BY <1>5, <2>1, <2>2 DEF Accept, IsNewId
  <2>4. QED
    BY <1>5, <2>1, <2>3 DEF Accept, IsNewId
<1>6. CASE WritePreparing
  <2>1. /\ journal'[cur] = [status |-> "preparing", request |-> req, before |-> snap]
        /\ \A t \in Ids : t # cur => journal'[t] = journal[t]
    BY <1>6, JournaledStep DEF WritePreparing, Statuses
  <2>2. \A t \in Ids : IsOpen(t)' => t = cur
    BY <1>6, <2>1 DEF WritePreparing
  <2>3. OpenInv'
    BY <1>6, <2>1, <2>2 DEF WritePreparing
  <2>4. BatchInv'
    BY <1>6, <2>1, <2>2 DEF WritePreparing
  <2>5. StageInv' /\ RecoveryInv' /\ EndInv'
    BY <1>6, <2>1 DEF WritePreparing
  <2>6. AckedIsCommitted'
    BY <1>6, <2>1, OldAckedKept DEF WritePreparing
  <2>7. QED
    BY <2>2, <2>3, <2>4, <2>5, <2>6
<1>7. CASE MakePayloadDir
  BY <1>7 DEF MakePayloadDir
<1>8. CASE WritePrepared
  <2>1. /\ journal'[cur] = [status |-> "prepared", request |-> req, before |-> snap]
        /\ \A t \in Ids : t # cur => journal'[t] = journal[t]
    BY <1>8, JournaledStep DEF WritePrepared, Statuses
  <2>2. \A t \in Ids : IsOpen(t)' => t = cur
    BY <1>8, <2>1 DEF WritePrepared
  <2>3. OpenInv'
    BY <1>8, <2>1, <2>2 DEF WritePrepared
  <2>4. BatchInv'
    BY <1>8, <2>1, <2>2 DEF WritePrepared
  <2>5. StageInv' /\ RecoveryInv' /\ EndInv'
    BY <1>8, <2>1 DEF WritePrepared
  <2>6. AckedIsCommitted'
    BY <1>8, <2>1, OldAckedKept DEF WritePrepared
  <2>7. QED
    BY <2>2, <2>3, <2>4, <2>5, <2>6
<1>9. CASE WriteApplying
  <2>1. /\ journal'[cur] = [status |-> "applying", request |-> req, before |-> snap]
        /\ \A t \in Ids : t # cur => journal'[t] = journal[t]
    BY <1>9, JournaledStep DEF WriteApplying, Statuses
  <2>2. \A t \in Ids : IsOpen(t)' => t = cur
    BY <1>9, <2>1 DEF WriteApplying
  <2>3. OpenInv'
    BY <1>9, <2>1, <2>2 DEF WriteApplying
  <2>4. BatchInv'
    BY <1>9, <2>1, <2>2 DEF WriteApplying
  <2>5. StageInv' /\ RecoveryInv' /\ EndInv'
    BY <1>9, <2>1 DEF WriteApplying
  <2>6. AckedIsCommitted'
    BY <1>9, <2>1, OldAckedKept DEF WriteApplying
  <2>7. QED
    BY <2>2, <2>3, <2>4, <2>5, <2>6
<1>10. CASE AuditBatch
  <2>1. \A r \in Records : store[r] = AS!Effect(snap, req)[r]
    BY <1>10, EffectAt DEF AuditBatch
  <2>2. store = AS!Effect(snap, req)
    BY <2>1 DEF TypeOK, Stores, AS!Effect
  <2>3. StageInv'
    BY <1>10, <2>2 DEF AuditBatch, AuditPasses
  <2>4. QED
    BY <1>10, <2>3 DEF AuditBatch
<1>11. CASE AuditRejects
  BY <1>11 DEF AuditRejects
<1>12. CASE WriteCommitted
  <2>1. /\ journal'[cur] = [status |-> "committed", request |-> req, before |-> snap]
        /\ \A t \in Ids : t # cur => journal'[t] = journal[t]
    BY <1>12, JournaledStep DEF WriteCommitted, Statuses
  <2>2. \A t \in Ids : ~IsOpen(t)'
    BY <1>12, <2>1 DEF WriteCommitted
  <2>3. AckedIsCommitted'
    BY <1>12, <2>1, OldAckedKept DEF WriteCommitted
  <2>4. QED
    BY <1>12, <2>1, <2>2, <2>3 DEF WriteCommitted
<1>13. ASSUME NEW r \in Records, SavePayloads(r) PROVE IInv'
  <2>1. /\ evidence'[cur] = evidence[cur] \cup {r}
        /\ \A t \in Ids : evidence[t] \subseteq evidence'[t]
    BY <1>13 DEF SavePayloads, TypeOK
  <2>2. OpenInv'
    BY <1>13, <2>1 DEF SavePayloads
  <2>3. StageInv'
    BY <1>13, <2>1 DEF SavePayloads
  <2>4. QED
    BY <1>13, <2>2, <2>3 DEF SavePayloads
<1>14. ASSUME NEW r \in Records, ApplyRecord(r) PROVE IInv'
  <2>1. req.writes[r] \in Contents
    BY <1>14, RequestFields DEF ApplyRecord, TypeOK, Stores
  <2>2. /\ store'[r] = req.writes[r]
        /\ \A q \in Records : q # r => store'[q] = store[q]
    BY <1>14, <2>1, StoreUpdate DEF ApplyRecord, TypeOK
  <2>3. r \in Touched(req) /\ Touched(req) \subseteq Records
    BY <1>14, RequestFields DEF ApplyRecord
  <2>4. OpenInv'
    BY <1>14, <2>2, <2>3 DEF ApplyRecord
  <2>5. BatchInv'
    BY <1>14, <2>2, <2>3 DEF ApplyRecord
  <2>6. StageInv'
    BY <1>14, <2>2, <2>3 DEF ApplyRecord
  <2>7. QED
    BY <1>14, <2>4, <2>5, <2>6 DEF ApplyRecord
<1>15. CASE WriteRolledBack
  <2>1. /\ journal'[cur] = [status |-> "rolled_back", request |-> req, before |-> snap]
        /\ \A t \in Ids : t # cur => journal'[t] = journal[t]
    BY <1>15, JournaledStep DEF WriteRolledBack, Statuses
  <2>2. \A t \in Ids : ~IsOpen(t)'
    BY <1>15, <2>1 DEF WriteRolledBack
  <2>3. AckedIsCommitted'
    BY <1>15, <2>1, OldAckedKept DEF WriteRolledBack
  <2>4. QED
    BY <1>15, <2>1, <2>2, <2>3 DEF WriteRolledBack
<1>16. CASE LeaveOpen
  BY <1>16 DEF LeaveOpen
<1>17. ASSUME NEW r \in Records, RestoreOriginal(r) PROVE IInv'
  <2>1. snap[r] \in Contents
    BY <1>17, RequestFields DEF RestoreOriginal, TypeOK, Stores
  <2>2. /\ store'[r] = snap[r]
        /\ \A q \in Records : q # r => store'[q] = store[q]
    BY <1>17, <2>1, StoreUpdate DEF RestoreOriginal, TypeOK
  <2>3. OpenInv'
    BY <1>17, <2>2 DEF RestoreOriginal
  <2>4. BatchInv'
    <3>1. r \in Touched(req) /\ Touched(req) \subseteq Records
      BY <1>17, RequestFields DEF RestoreOriginal
    <3>2. store = snap => store' = store
      BY <1>17 DEF RestoreOriginal, TypeOK, Stores
    <3>3. QED
      BY <1>17, <2>2, <3>1, <3>2 DEF RestoreOriginal
  <2>5. StageInv'
    BY <1>17, <2>2 DEF RestoreOriginal
  <2>6. QED
    BY <1>17, <2>3, <2>4, <2>5 DEF RestoreOriginal
<1>18. CASE CheckRecovery
  BY <1>18 DEF CheckRecovery
<1>19. CASE AuditRecovery
  BY <1>19 DEF AuditRecovery
<1>20. CASE WriteRecovered
  <2>1. /\ journal'[cur] = [status |-> "rolled_back", request |-> req, before |-> snap]
        /\ \A t \in Ids : t # cur => journal'[t] = journal[t]
    BY <1>20, JournaledStep DEF WriteRecovered, Statuses
  <2>2. \A t \in Ids : ~IsOpen(t)'
    BY <1>20, <2>1 DEF WriteRecovered
  <2>3. AckedIsCommitted'
    BY <1>20, <2>1, OldAckedKept DEF WriteRecovered
  <2>4. QED
    BY <1>20, <2>1, <2>2, <2>3 DEF WriteRecovered
<1>21. ASSUME NEW r \in Records, RestoreFromEvidence(r) PROVE IInv'
  <2>1. snap[r] \in Contents
    BY <1>21, RequestFields DEF RestoreFromEvidence, TypeOK, Stores
  <2>2. /\ store'[r] = snap[r]
        /\ \A q \in Records : q # r => store'[q] = store[q]
    BY <1>21, <2>1, StoreUpdate DEF RestoreFromEvidence, TypeOK
  <2>3. OpenInv'
    BY <1>21, <2>2 DEF RestoreFromEvidence
  <2>4. RecoveryInv'
    BY <1>21, <2>2 DEF RestoreFromEvidence
  <2>5. QED
    BY <1>21, <2>3, <2>4 DEF RestoreFromEvidence
<1>22. CASE CleanUp
  <2>1. \A t \in Ids : t # cur => evidence'[t] = evidence[t]
    BY <1>22 DEF CleanUp, TypeOK
  <2>2. ~IsOpen(cur) /\ journal' = journal
    BY <1>22 DEF CleanUp
  <2>3. OpenInv'
    BY <1>22, <2>1, <2>2 DEF CleanUp
  <2>4. EndInv'
    BY <1>22, <2>2 DEF CleanUp, After
  <2>5. QED
    BY <1>22, <2>2, <2>3, <2>4 DEF CleanUp, After
<1>23. CASE Release
  BY <1>23 DEF Release
<1>24. CASE PutFails
  BY <1>24 DEF PutFails
<1>25. CASE CleanUpFails
  <2>1. \A t \in Ids : t # cur => evidence'[t] = evidence[t]
    BY <1>25 DEF CleanUpFails, TypeOK
  <2>2. ~IsOpen(cur) /\ journal' = journal
    BY <1>25 DEF CleanUpFails
  <2>3. OpenInv'
    BY <1>25, <2>1, <2>2 DEF CleanUpFails
  <2>4. EndInv'
    BY <1>25, <2>2 DEF CleanUpFails, After
  <2>5. QED
    BY <1>25, <2>2, <2>3, <2>4 DEF CleanUpFails, After
<1>26. CASE RecoveryFails
  BY <1>26 DEF RecoveryFails
<1>27. CASE Crash
  BY <1>27 DEF Crash
<1>28. ASSUME NEW r \in Records, RestoreFails(r) PROVE IInv'
  BY <1>28 DEF RestoreFails
<1>29. CASE RecoverLock
  BY <1>29 DEF RecoverLock
<1>30. CASE ClearDebris
  BY <1>30 DEF ClearDebris
<1>31. CASE UNCHANGED vars
  BY <1>31 DEF vars
<1>32. QED
  BY <1>1, <1>2, <1>3, <1>4, <1>5, <1>6, <1>7, <1>8, <1>9, <1>10, <1>11, <1>12, <1>13, <1>14, <1>15, <1>16, <1>17, <1>18, <1>19, <1>20, <1>21, <1>22, <1>23, <1>24, <1>25, <1>26, <1>27, <1>28, <1>29, <1>30, <1>31
     DEF Next, Progress, PutProgress, RollbackProgress, RecoveryProgress, Failure

-----------------------------------------------------------------------------
(* The safety theorems                                                     *)

\* The inductive invariant holds of every behaviour.
LEMMA Inductive == Spec => [](TypeInv /\ IInv)
<1>1. Init => TypeInv /\ IInv
  BY TypeInit, InvInit
<1>2. TypeInv /\ IInv /\ [Next]_vars => (TypeInv /\ IInv)'
  BY TypeStep, InvStep
<1>3. QED
  BY <1>1, <1>2, PTL DEF Spec

\* Every variable keeps its type: in particular a journal only ever has a status
\* of the journal schema, and files, payloads and memory agree on their domains.
THEOREM TypeCorrect == Spec => []TypeOK
<1>1. TypeInv /\ IInv => TypeOK
  BY DEF TypeInv
<1>2. QED
  BY <1>1, Inductive, PTL

\* However many processes died at however many steps, at most one transaction
\* is open on disk.
THEOREM AtMostOneOpen == Spec => []OneOpenTransaction
<1>1. TypeInv /\ IInv => OneOpenTransaction
  BY DEF IInv
<1>2. QED
  BY <1>1, Inductive, PTL

\* recover-transaction never refuses an open transaction for drift or missing
\* evidence: what put_records left behind is always enough to undo it.
THEOREM AlwaysRecoverable == Spec => []OpenIsRecoverable
<1>1. TypeInv /\ IInv => OpenIsRecoverable
  <2> SUFFICES ASSUME TypeInv, IInv, NEW t \in Ids, IsOpen(t)
               PROVE  ~Drifted(t) /\ ~EvidenceMissing(t)
    BY DEF OpenIsRecoverable
  <2>1. Undoable(t)
    BY DEF IInv, OpenInv
  <2>2. ~Drifted(t)
    BY <2>1 DEF Undoable, Drifted
  <2>3. ~EvidenceMissing(t)
    BY <2>1 DEF Undoable, EvidenceMissing
  <2>4. QED
    BY <2>2, <2>3
<1>2. QED
  BY <1>1, Inductive, PTL

\* No crash, rollback or recovery takes back a batch that a caller was told is
\* committed.
THEOREM AckedStaysCommitted == Spec => []AckedIsCommitted
<1>1. TypeInv /\ IInv => AckedIsCommitted
  BY DEF IInv
<1>2. QED
  BY <1>1, Inductive, PTL

-----------------------------------------------------------------------------
(* The logical contents: the store with its open transaction undone        *)

UndoOf(j, s) ==
  [r \in Records |->
     IF \E t \in Ids : j[t].status \in OpenStatuses /\ r \in Touched(j[t].request)
     THEN j[CHOOSE t \in Ids : j[t].status \in OpenStatuses].before[r]
     ELSE s[r]]

\* The logical contents are a function of the journals and the store.
LEMMA LogicalIs == Logical = UndoOf(journal, store) /\ Logical' = UndoOf(journal', store')
  BY DEF Logical, UndoOf, IsOpen

\* With nothing open, undoing changes nothing.
LEMMA UndoNothing ==
  ASSUME NEW j, NEW s \in Stores, \A t \in Ids : j[t].status \notin OpenStatuses
  PROVE  UndoOf(j, s) = s
  BY DEF UndoOf, Stores

\* With one transaction open, undoing restores the records it touches.
LEMMA UndoOne ==
  ASSUME NEW j, NEW s, NEW t \in Ids, j[t].status \in OpenStatuses,
         \A u \in Ids : j[u].status \in OpenStatuses => u = t
  PROVE  \A r \in Records :
           UndoOf(j, s)[r] =
             IF r \in Touched(j[t].request) THEN j[t].before[r] ELSE s[r]
<1>1. (CHOOSE u \in Ids : j[u].status \in OpenStatuses) = t
  OBVIOUS
<1>2. QED
  BY <1>1 DEF UndoOf

\* The undone store is a function of the records.
LEMMA UndoIsFunction ==
  ASSUME NEW j, NEW s
  PROVE  UndoOf(j, s) = [r \in Records |-> UndoOf(j, s)[r]]
  BY DEF UndoOf

\* While a batch is in progress, undoing it gives what it read.
LEMMA UndoneIsRead == TypeInv /\ IInv /\ pc \in BatchSteps => Logical = snap
<1> SUFFICES ASSUME TypeInv, IInv, pc \in BatchSteps PROVE Logical = snap
  OBVIOUS
<1>1. CASE \A t \in Ids : ~IsOpen(t)
  <2>1. cur \in Ids /\ journal[cur].status = "none"
    BY <1>1 DEF TypeInv, ControlInv, IInv, BatchInv, IsOpen, BatchSteps, PutSteps,
                RollbackSteps
  <2>2. store = snap
    BY <2>1 DEF IInv, BatchInv
  <2>3. QED
    BY <1>1, <2>2, UndoNothing, LogicalIs DEF TypeInv, TypeOK, IsOpen
<1>2. CASE \E t \in Ids : IsOpen(t)
  <2>1. /\ cur \in Ids /\ IsOpen(cur) /\ \A t \in Ids : IsOpen(t) => t = cur
        /\ journal[cur].request = req /\ journal[cur].before = snap
    BY <1>2 DEF IInv, BatchInv, IsOpen, OpenStatuses
  <2>2. /\ journal[cur].status \in OpenStatuses
        /\ \A t \in Ids : journal[t].status \in OpenStatuses => t = cur
    BY <2>1 DEF IsOpen
  <2>3. \A r \in Records :
          UndoOf(journal, store)[r] = IF r \in Touched(req) THEN snap[r] ELSE store[r]
    BY <2>1, <2>2, UndoOne
  <2>4. \A r \in Records \ Touched(req) : store[r] = snap[r]
    BY DEF IInv, BatchInv
  <2>5. \A r \in Records : UndoOf(journal, store)[r] = snap[r]
    BY <2>3, <2>4
  <2>6. snap = [r \in Records |-> snap[r]]
    BY DEF TypeInv, TypeOK, Stores
  <2>7. UndoOf(journal, store) = snap
    BY <2>5, <2>6, UndoIsFunction
  <2>8. QED
    BY <2>7, LogicalIs
<1>3. QED
  BY <1>1, <1>2

-----------------------------------------------------------------------------
(* Refinement                                                              *)

\* A step that writes no journal of another status changes no outcome.
LEMMA SameOutcomes ==
  ASSUME \A t \in Ids : \/ journal'[t] = journal[t]
                        \/ /\ journal[t].status \in OpenStatuses \cup {"none"}
                           /\ journal'[t].status \in OpenStatuses \cup {"none"}
  PROVE  [t \in Ids |-> Outcome(t)]' = [t \in Ids |-> Outcome(t)]
<1>1. \A t \in Ids : Outcome(t)' = Outcome(t)
  BY DEF Outcome, OpenStatuses
<1>2. QED
  BY <1>1

\* Closing a transaction gives its id an outcome and no other one.
LEMMA ClosedOutcome ==
  ASSUME cur \in Ids, NEW s \in {"committed", "rolled_back"},
         journal[cur].status \in OpenStatuses \cup {"none"},
         journal'[cur] = [status |-> s, request |-> req, before |-> snap],
         \A t \in Ids : t # cur => journal'[t] = journal[t]
  PROVE  /\ [t \in Ids |-> Outcome(t)][cur] = AS!Unused
         /\ [t \in Ids |-> Outcome(t)]' =
              [[t \in Ids |-> Outcome(t)] EXCEPT ![cur] =
                 [state |-> IF s = "committed" THEN "applied" ELSE "dropped",
                  request |-> req]]
<1> DEFINE out == [t \in Ids |-> Outcome(t)]
<1>1. Outcome(cur) = AS!Unused
  BY DEF Outcome, OpenStatuses, AS!Unused
<1>2. \A t \in Ids : t = cur =>
        Outcome(t)' = [state |-> IF s = "committed" THEN "applied" ELSE "dropped",
                       request |-> req]
  <2> SUFFICES ASSUME NEW t \in Ids, t = cur
               PROVE  Outcome(t)' = [state |-> IF s = "committed" THEN "applied"
                                               ELSE "dropped", request |-> req]
    OBVIOUS
  <2>1. journal'[t].status = s /\ journal'[t].request = req
    OBVIOUS
  <2>2. CASE s = "committed"
    BY <2>1, <2>2 DEF Outcome
  <2>3. CASE s = "rolled_back"
    BY <2>1, <2>3 DEF Outcome
  <2>4. QED
    BY <2>2, <2>3
<1>3. \A t \in Ids : t # cur => Outcome(t)' = Outcome(t)
  BY DEF Outcome
<1>4. out' = [t \in Ids |-> IF t = cur THEN [state |-> IF s = "committed" THEN "applied"
                                                      ELSE "dropped", request |-> req]
                            ELSE out[t]]
  BY <1>2, <1>3
<1>5. out[cur] = AS!Unused
  BY <1>1
<1>6. QED
  BY <1>4, <1>5

\* Initial states are initial states of the atomic store.
LEMMA RefineInit == Init => AS!Init
<1> SUFFICES ASSUME Init PROVE AS!Init
  OBVIOUS
<1>1. \A t \in Ids : ~IsOpen(t) /\ Outcome(t) = AS!Unused
  BY DEF Init, IsOpen, NoJournal, OpenStatuses, Outcome, AS!Unused
<1>2. Logical = store
  BY <1>1, UndoNothing, LogicalIs, BatchAssumption DEF Init, IsOpen
<1>3. QED
  BY <1>1, <1>2 DEF Init, AS!Init

\* No step of a command but a file replacement shows.
LEMMA QuietStep ==
  ASSUME UNCHANGED <<store, journal>>
  PROVE  UNCHANGED <<Logical, [t \in Ids |-> Outcome(t)]>>
  BY LogicalIs DEF Outcome

\* While a put is in progress, what it read stays the logical contents.
LEMMA PutStep ==
  ASSUME TypeInv, IInv, TypeInv', IInv', pc \in BatchSteps, pc' \in BatchSteps,
         snap' = snap, \A t \in Ids : t # cur => journal'[t] = journal[t],
         journal'[cur].status \in OpenStatuses \cup {"none"}
  PROVE  UNCHANGED <<Logical, [t \in Ids |-> Outcome(t)]>>
<1>1. Logical = snap
  BY UndoneIsRead
<1>2. (TypeInv /\ IInv /\ pc \in BatchSteps => Logical = snap)'
  BY UndoneIsRead, PTL
<1>3. Logical' = snap'
  BY <1>2
<1>4. journal[cur].status \in OpenStatuses \cup {"none"}
  BY DEF IInv, BatchInv
<1>5. [t \in Ids |-> Outcome(t)]' = [t \in Ids |-> Outcome(t)]
  BY <1>4, SameOutcomes
<1>6. QED
  BY <1>1, <1>3, <1>5

\* The commit of the journal is the abstract batch.
LEMMA RefineCommit ==
  ASSUME TypeInv, IInv, TypeInv', IInv', WriteCommitted
  PROVE  AS!Apply(cur, req)
<1>1. cur \in Ids /\ req \in Requests /\ pc \in BatchSteps
  BY DEF WriteCommitted, Advance, TypeInv, ControlInv, WorkSteps, BatchSteps, PutSteps
<1>2. /\ journal'[cur] = [status |-> "committed", request |-> req, before |-> snap]
      /\ \A t \in Ids : t # cur => journal'[t] = journal[t]
  BY <1>1, JournaledStep DEF WriteCommitted, Statuses, TypeInv
<1>3. /\ journal[cur].status \in OpenStatuses \cup {"none"}
      /\ \A t \in Ids : t # cur => journal[t].status \notin OpenStatuses
      /\ AS!Admissible(snap, req)
  BY <1>1 DEF IInv, BatchInv, IsOpen
<1>4. Logical = snap
  BY <1>1, UndoneIsRead
<1>5. store = AS!Effect(snap, req) /\ store \in Legal
  BY DEF WriteCommitted, Advance, IInv, StageInv
<1>6. Logical' = store'
  <2>1. \A t \in Ids : journal'[t].status \notin OpenStatuses
    BY <1>2, <1>3 DEF OpenStatuses
  <2>2. store' \in Stores
    BY DEF TypeInv, TypeOK
  <2>3. UndoOf(journal', store') = store'
    BY <2>1, <2>2, UndoNothing
  <2>4. QED
    BY <2>3, LogicalIs
<1>7. store' = store
  BY DEF WriteCommitted
<1>8. /\ [t \in Ids |-> Outcome(t)][cur] = AS!Unused
      /\ [t \in Ids |-> Outcome(t)]' =
           [[t \in Ids |-> Outcome(t)] EXCEPT ![cur] =
              [state |-> "applied", request |-> req]]
  BY <1>1, <1>2, <1>3, ClosedOutcome
<1>9. QED
  BY <1>3, <1>4, <1>5, <1>6, <1>7, <1>8 DEF AS!Apply

\* Closing a transaction as rolled back drops the abstract batch.
LEMMA RefineDrop ==
  ASSUME TypeInv, IInv, TypeInv', IInv', WriteRolledBack \/ WriteRecovered
  PROVE  AS!Drop(cur, req)
<1>1. cur \in Ids /\ req \in Requests
  BY DEF WriteRolledBack, WriteRecovered, Advance, TypeInv, ControlInv, WorkSteps,
         RollbackSteps
<1>2. /\ journal'[cur] = [status |-> "rolled_back", request |-> req, before |-> snap]
      /\ \A t \in Ids : t # cur => journal'[t] = journal[t]
  BY <1>1, JournaledStep DEF WriteRolledBack, WriteRecovered, Statuses, TypeInv
<1>3. /\ journal[cur].status \in OpenStatuses \cup {"none"}
      /\ \A t \in Ids : t # cur => journal[t].status \notin OpenStatuses
  <2>1. CASE WriteRolledBack
    BY <2>1, <1>1 DEF WriteRolledBack, Advance, IInv, BatchInv, BatchSteps, RollbackSteps,
                      IsOpen
  <2>2. CASE WriteRecovered
    BY <2>2, <1>1 DEF WriteRecovered, Advance, IInv, RecoveryInv, OneOpenTransaction, IsOpen
  <2>3. QED
    BY <2>1, <2>2
<1>4. Logical = store
  <2>1. CASE WriteRolledBack
    <3>1. pc \in BatchSteps /\ pc = "rollback" /\ left = {}
      BY <2>1 DEF WriteRolledBack, Advance, BatchSteps, RollbackSteps
    <3>2. \A r \in Records : store[r] = snap[r]
      BY <3>1 DEF IInv, BatchInv, StageInv
    <3>3. store = snap
      BY <3>2 DEF TypeInv, TypeOK, Stores
    <3>4. QED
      BY <3>1, <3>3, UndoneIsRead
  <2>2. CASE WriteRecovered
    <3>1. /\ IsOpen(cur) /\ journal[cur].request = req /\ journal[cur].before = snap
          /\ \A r \in Touched(req) : store[r] = snap[r]
      BY <2>2 DEF WriteRecovered, Advance, IInv, RecoveryInv
    <3>2. \A r \in Records : UndoOf(journal, store)[r] = store[r]
      <4>1. \A r \in Records :
              UndoOf(journal, store)[r] =
                IF r \in Touched(req) THEN snap[r] ELSE store[r]
        BY <1>1, <1>3, <3>1, UndoOne DEF IsOpen
      <4>2. QED
        BY <3>1, <4>1
    <3>3. store = [r \in Records |-> store[r]]
      BY DEF TypeInv, TypeOK, Stores
    <3>4. UndoOf(journal, store) = store
      BY <3>2, <3>3, UndoIsFunction
    <3>5. QED
      BY <3>4, LogicalIs
  <2>3. QED
    BY <2>1, <2>2
<1>5. Logical' = store'
  <2>1. \A t \in Ids : journal'[t].status \notin OpenStatuses
    BY <1>2, <1>3 DEF OpenStatuses
  <2>2. store' \in Stores
    BY DEF TypeInv, TypeOK
  <2>3. UndoOf(journal', store') = store'
    BY <2>1, <2>2, UndoNothing
  <2>4. QED
    BY <2>3, LogicalIs
<1>6. store' = store
  BY DEF WriteRolledBack, WriteRecovered
<1>7. /\ [t \in Ids |-> Outcome(t)][cur] = AS!Unused
      /\ [t \in Ids |-> Outcome(t)]' =
           [[t \in Ids |-> Outcome(t)] EXCEPT ![cur] =
              [state |-> "dropped", request |-> req]]
  BY <1>1, <1>2, <1>3, ClosedOutcome
<1>8. QED
  BY <1>4, <1>5, <1>6, <1>7 DEF AS!Drop

\* Restoring a record leaves the logical contents alone.
LEMMA RefineRestore ==
  ASSUME TypeInv, IInv, TypeInv', IInv', NEW r \in Records, RestoreFromEvidence(r)
  PROVE  UNCHANGED <<Logical, [t \in Ids |-> Outcome(t)]>>
<1>0. /\ cur \in Ids /\ journal[cur].status \in OpenStatuses
      /\ \A t \in Ids : journal[t].status \in OpenStatuses => t = cur
  BY DEF RestoreFromEvidence, Advance, TypeInv, ControlInv, IInv, RecoveryInv,
         OneOpenTransaction, IsOpen
<1>1. r \in Touched(req) /\ journal[cur].request = req /\ journal[cur].before = snap
  BY DEF RestoreFromEvidence, Advance, TypeInv, ControlInv, IInv, RecoveryInv, StageInv,
         OneOpenTransaction, IsOpen
<1>2. snap[r] \in Contents
  BY DEF TypeInv, TypeOK, Stores
<1>3. journal' = journal /\ \A q \in Records : q # r => store'[q] = store[q]
  BY <1>2, StoreUpdate DEF RestoreFromEvidence, TypeInv, TypeOK
<1>4. \A q \in Records :
        UndoOf(journal, store)[q] = IF q \in Touched(req) THEN snap[q] ELSE store[q]
  <2>1. \A q \in Records :
          UndoOf(journal, store)[q] = IF q \in Touched(journal[cur].request)
                                   THEN journal[cur].before[q] ELSE store[q]
    BY <1>0, UndoOne
  <2>2. QED
    BY <1>1, <2>1
<1>5. \A q \in Records :
        UndoOf(journal, store')[q] = IF q \in Touched(req) THEN snap[q] ELSE store'[q]
  <2>1. \A q \in Records :
          UndoOf(journal, store')[q] = IF q \in Touched(journal[cur].request)
                                   THEN journal[cur].before[q] ELSE store'[q]
    BY <1>0, UndoOne
  <2>2. QED
    BY <1>1, <2>1
<1>6. \A q \in Records : UndoOf(journal, store)[q] = UndoOf(journal, store')[q]
  BY <1>1, <1>3, <1>4, <1>5
<1>7. UndoOf(journal, store) = UndoOf(journal, store')
  BY <1>6, UndoIsFunction
<1>8. [t \in Ids |-> Outcome(t)]' = [t \in Ids |-> Outcome(t)]
  BY <1>3 DEF Outcome
<1>9. QED
  <2>1. Logical' = UndoOf(journal, store')
    BY <1>3, LogicalIs
  <2>2. Logical = UndoOf(journal, store)
    BY LogicalIs
  <2>3. QED
    BY <1>7, <1>8, <2>1, <2>2

\* Every step is a step of the atomic store or a stutter.
LEMMA RefineStep ==
  TypeInv /\ IInv /\ TypeInv' /\ IInv' /\ [Next]_vars =>
    [AS!Next]_<<Logical, [t \in Ids |-> Outcome(t)]>>
<1> SUFFICES ASSUME TypeInv, IInv, TypeInv', IInv', [Next]_vars
             PROVE  \/ AS!Next
                    \/ UNCHANGED <<Logical, [t \in Ids |-> Outcome(t)]>>
  OBVIOUS
<1>1. ASSUME NEW t \in Ids, NEW rq \in Requests, AcquireForPut(t, rq)
      PROVE UNCHANGED <<store, journal>>
  BY <1>1 DEF AcquireForPut, files
<1>2. ASSUME NEW t \in Ids, AcquireForRecovery(t) PROVE UNCHANGED <<store, journal>>
  BY <1>2 DEF AcquireForRecovery, files
<1>3. ASSUME NEW r \in Records, SavePayloads(r) \/ RestoreFails(r) PROVE UNCHANGED <<store, journal>>
  BY <1>3 DEF SavePayloads, RestoreFails, files
<1>4. ASSUME Replay \/ Refuse \/ Accept \/ MakePayloadDir \/ AuditBatch
             \/ AuditRejects \/ LeaveOpen \/ CheckRecovery \/ AuditRecovery
      PROVE UNCHANGED <<store, journal>>
  BY <1>4 DEF Replay, Refuse, Accept, MakePayloadDir, AuditBatch, AuditRejects, LeaveOpen, CheckRecovery, AuditRecovery, files
<1>5. ASSUME CleanUp \/ Release \/ PutFails \/ CleanUpFails \/ RecoveryFails
             \/ Crash \/ RecoverLock \/ ClearDebris \/ UNCHANGED vars
      PROVE UNCHANGED <<store, journal>>
  BY <1>5 DEF CleanUp, Release, PutFails, CleanUpFails, RecoveryFails, Crash, RecoverLock, ClearDebris, files, vars
<1>6. ASSUME NEW r \in Records, ApplyRecord(r) \/ RestoreOriginal(r)
      PROVE UNCHANGED <<Logical, [t \in Ids |-> Outcome(t)]>>
  <2>1. /\ pc \in BatchSteps /\ pc' \in BatchSteps
        /\ snap' = snap /\ journal' = journal /\ cur' = cur
    BY <1>6 DEF ApplyRecord, RestoreOriginal, Advance, BatchSteps, PutSteps, RollbackSteps
  <2>2. journal[cur].status \in OpenStatuses \cup {"none"}
    BY <2>1 DEF IInv, BatchInv
  <2>3. QED
    BY <2>1, <2>2, PutStep
<1>7. ASSUME WritePreparing \/ WritePrepared \/ WriteApplying
      PROVE UNCHANGED <<Logical, [t \in Ids |-> Outcome(t)]>>
  <2>1. /\ pc \in BatchSteps /\ pc' \in BatchSteps /\ snap' = snap
        /\ \E s \in OpenStatuses : Journaled(s)
    BY <1>7 DEF WritePreparing, WritePrepared, WriteApplying, Advance, memory, BatchSteps,
               PutSteps, OpenStatuses
  <2>2. cur \in Ids /\ req \in Requests
    BY <2>1 DEF TypeInv, ControlInv, BatchSteps, WorkSteps, PutSteps, RollbackSteps
  <2>3. PICK s \in OpenStatuses : Journaled(s)
    BY <2>1
  <2>4. /\ \A t \in Ids : t # cur => journal'[t] = journal[t]
        /\ journal'[cur] = [status |-> s, request |-> req, before |-> snap]
    BY <2>2, <2>3, JournaledStep DEF TypeInv, Statuses
  <2>5. QED
    BY <2>1, <2>4, PutStep
<1>8. ASSUME NEW r \in Records, RestoreFromEvidence(r)
      PROVE UNCHANGED <<Logical, [t \in Ids |-> Outcome(t)]>>
  BY <1>8, RefineRestore
<1>9. CASE WriteCommitted
  <2>1. cur \in Ids /\ req \in Requests
    BY <1>9 DEF WriteCommitted, Advance, TypeInv, ControlInv, WorkSteps, PutSteps
  <2>2. QED
    BY <1>9, <2>1, RefineCommit DEF AS!Next
<1>10. CASE WriteRolledBack \/ WriteRecovered
  <2>1. cur \in Ids /\ req \in Requests
    BY <1>10 DEF WriteRolledBack, WriteRecovered, Advance, TypeInv, ControlInv, WorkSteps,
                RollbackSteps
  <2>2. QED
    BY <1>10, <2>1, RefineDrop DEF AS!Next
<1>11. QED
  BY <1>1, <1>2, <1>3, <1>4, <1>5, <1>6, <1>7, <1>8, <1>9, <1>10, QuietStep
     DEF Next, Progress, PutProgress, RollbackProgress, RecoveryProgress, Failure

\* put_records with its journals, crashes, rollbacks and recoveries implements
\* the atomic store: each batch takes effect whole, once, on contents that meet
\* its preconditions and with a result the audit accepts, or not at all.
THEOREM Refinement == Spec => ImplementsAtomicStore
<1>1. Init => AS!Init
  BY RefineInit
<1>2. TypeInv /\ IInv /\ (TypeInv /\ IInv)' /\ [Next]_vars =>
        [AS!Next]_<<Logical, [t \in Ids |-> Outcome(t)]>>
  BY RefineStep
<1>3. QED
  BY <1>1, <1>2, Inductive, PTL DEF Spec, ImplementsAtomicStore, AS!Spec

-----------------------------------------------------------------------------
(* What a committed batch wrote stays, as a consequence of the refinement   *)

Outcomes == [t \in Ids |-> Outcome(t)]

InPlace(out, contents) ==
  \A t \in Ids :
    out[t].state = "applied" =>
      \A r \in Touched(out[t].request) :
        \/ contents[r] = out[t].request.writes[r]
        \/ \E s \in Ids \ {t} : out[s].state = "applied" /\ r \in Touched(out[s].request)

\* An abstract step keeps what a committed batch wrote, unless another batch that
\* commits writes it too.
LEMMA InPlaceStep ==
  InPlace(Outcomes, Logical) /\ [AS!Next]_<<Logical, Outcomes>>
    => InPlace(Outcomes, Logical)'
<1> SUFFICES ASSUME InPlace(Outcomes, Logical), [AS!Next]_<<Logical, Outcomes>>
             PROVE  InPlace(Outcomes', Logical')
  BY DEF InPlace
<1>1. ASSUME NEW t \in Ids, NEW rq \in Requests, AS!Apply(t, rq)
      PROVE  InPlace(Outcomes', Logical')
  <2>1. /\ Outcomes[t] = AS!Unused
        /\ Outcomes' = [Outcomes EXCEPT ![t] = [state |-> "applied", request |-> rq]]
        /\ Logical' = AS!Effect(Logical, rq)
    BY <1>1 DEF AS!Apply, Outcomes
  <2>2. /\ Outcomes'[t] = [state |-> "applied", request |-> rq]
        /\ \A s \in Ids : s # t => Outcomes'[s] = Outcomes[s]
    BY <2>1 DEF Outcomes
  <2>3. \A r \in Records :
          Logical'[r] = IF r \in Touched(rq) THEN rq.writes[r] ELSE Logical[r]
    BY <2>1, EffectAt
  <2>4. \A q : Touched(q) \subseteq Records
    BY DEF Touched
  <2>5. Outcomes[t].state = "unused"
    BY <2>1 DEF AS!Unused
  <2>6. QED
    BY <2>2, <2>3, <2>4, <2>5 DEF InPlace
<1>2. ASSUME NEW t \in Ids, NEW rq \in Requests, AS!Drop(t, rq)
      PROVE  InPlace(Outcomes', Logical')
  <2>1. /\ Outcomes[t] = AS!Unused
        /\ Outcomes' = [Outcomes EXCEPT ![t] = [state |-> "dropped", request |-> rq]]
        /\ Logical' = Logical
    BY <1>2 DEF AS!Drop, Outcomes
  <2>2. /\ Outcomes'[t] = [state |-> "dropped", request |-> rq]
        /\ \A s \in Ids : s # t => Outcomes'[s] = Outcomes[s]
    BY <2>1 DEF Outcomes
  <2>3. Outcomes[t].state = "unused"
    BY <2>1 DEF AS!Unused
  <2>4. QED
    BY <2>1, <2>2, <2>3 DEF InPlace
<1>3. CASE UNCHANGED <<Logical, Outcomes>>
  BY <1>3
<1>4. QED
  BY <1>1, <1>2, <1>3 DEF AS!Next

\* With no transaction open, what a committed batch wrote is still there, unless
\* another committed batch wrote the same record: no crash, rollback or recovery
\* of other batches disturbs it.
THEOREM CommittedStaysInPlace == Spec => []CommittedInPlace
<1>1. Init => InPlace(Outcomes, Logical)
  <2> SUFFICES ASSUME Init PROVE InPlace(Outcomes, Logical)
    OBVIOUS
  <2>1. \A t \in Ids : Outcomes[t].state = "unused"
    BY DEF Init, NoJournal, Outcome, Outcomes
  <2>2. QED
    BY <2>1 DEF InPlace
<1>2. TypeInv /\ IInv /\ (TypeInv /\ IInv)' /\ [Next]_vars =>
        [AS!Next]_<<Logical, Outcomes>>
  BY RefineStep DEF Outcomes
<1>3. TypeInv /\ InPlace(Outcomes, Logical) => CommittedInPlace
  <2> SUFFICES ASSUME TypeInv, InPlace(Outcomes, Logical), \A t \in Ids : ~IsOpen(t),
                      NEW t \in Ids, journal[t].status = "committed",
                      NEW r \in Touched(journal[t].request)
               PROVE  \/ store[r] = journal[t].request.writes[r]
                      \/ \E s \in Ids \ {t} : /\ journal[s].status = "committed"
                                              /\ r \in Touched(journal[s].request)
    BY DEF CommittedInPlace
  <2>1. Logical = store
    BY UndoNothing, LogicalIs DEF TypeInv, TypeOK, IsOpen
  <2>2. \A s \in Ids :
          /\ Outcomes[s].state = "applied" <=> journal[s].status = "committed"
          /\ journal[s].status = "committed" => Outcomes[s].request = journal[s].request
    BY DEF Outcomes, Outcome
  <2>3. QED
    BY <2>1, <2>2 DEF InPlace
<1>4. QED
  BY <1>1, <1>2, <1>3, InPlaceStep, Inductive, PTL DEF Spec


-----------------------------------------------------------------------------
(* With the audit that guards commits: what it checks suffices for facts to *)
(* agree, and no store escapes it                                           *)

\* A fact that nothing is said to supersede is superseded by nothing, directly or
\* transitively: reciprocity makes both directions of a link say the same.
LEMMA CurrentIsNotSuperseded ==
  ASSUME NEW s \in Stores, Audited(Load(s)),
         NEW source, NEW target \in Current(Load(s))
  PROVE  ~TransitivelySupersedes(Load(s), source, target)
<1> DEFINE m == Load(s)
<1>1. SUFFICES ASSUME NEW r \in DOMAIN m, target \in m[r].supersedes PROVE FALSE
  BY DEF TransitivelySupersedes, Visited
<1>2. r \in Records /\ s[r] \in Values /\ m[r] = Data[s[r]]
  BY <1>1 DEF Load, Stores, Contents
<1>3. m[r].kind # "state"
  BY <1>1, <1>2, AuditAssumption
<1>4. m[target].superseded_by = r
  BY <1>1, <1>3, GuardAssumption DEF Audited, Linked, Superseding
<1>5. m[target].superseded_by = None
  BY DEF Current
<1>6. QED
  BY <1>2, <1>4, <1>5, AuditAssumption

\* The audit compares one fact of a group with the others; that is enough.
LEMMA AuditedFactsAgree ==
  ASSUME NEW s \in Stores, Audited(Load(s)),
         NEW a \in Current(Load(s)), NEW b \in Current(Load(s)),
         Load(s)[a].claim.key = Load(s)[b].claim.key
  PROVE  Load(s)[a].claim.object = Load(s)[b].claim.object
<1> DEFINE m == Load(s)
           key == m[a].claim.key
           base == CHOOSE r \in Group(m, key) : TRUE
<1>1. SUFFICES ASSUME m[a].claim.object # m[b].claim.object PROVE FALSE
  OBVIOUS
<1>2. a \in Group(m, key) /\ b \in Group(m, key)
  BY DEF Group
<1>3. base \in Group(m, key) /\ base \in Current(m)
  BY <1>2 DEF Group
<1>4. PICK right \in {a, b} : m[right].claim.object # m[base].claim.object
  BY <1>1
<1>5. ~TransitivelySupersedes(m, base, right) /\ ~TransitivelySupersedes(m, right, base)
  BY <1>3, CurrentIsNotSuperseded
<1>6. InConflict(m, key)
  BY <1>2, <1>4, <1>5 DEF InConflict
<1>7. m[a].claim \in Claims
  <2>1. a \in Records /\ s[a] \in Values /\ m[a] = Data[s[a]] /\ m[a].claim # None
    BY DEF Current, Load, Stores, Contents
  <2>2. Data[s[a]].claim \in Claims \cup {None}
    BY <2>1, AuditAssumption DEF RecordType
  <2>3. QED
    BY <2>1, <2>2
<1>8. QED
  BY <1>6, <1>7, GuardAssumption DEF Audited

\* No store escapes the audit: with an open transaction undone it is accepted.
LEMMA LogicalIsAudited == Spec => [](Logical \in Legal)
<1>1. AS!Init => Logical \in Legal
  BY DEF AS!Init
<1>2. Logical \in Legal /\ [AS!Next]_<<Logical, [t \in Ids |-> Outcome(t)]>> => (Logical \in Legal)'
  BY DEF AS!Next, AS!Apply, AS!Drop
<1>3. QED
  BY <1>1, <1>2, Refinement, PTL DEF ImplementsAtomicStore, AS!Spec

\* Current facts agree in every reachable state.
THEOREM FactsAlwaysAgree == Spec => []FactsAgree
<1>1. ASSUME Logical \in Legal PROVE FactsAgree
  <2>1. Logical \in Stores /\ Audited(Load(Logical))
    BY <1>1, GuardAssumption DEF AuditedStores
  <2>2. QED
    BY <2>1, AuditedFactsAgree DEF FactsAgree
<1>2. QED
  BY <1>1, LogicalIsAudited, PTL

-----------------------------------------------------------------------------
(* Numbers, finite sets, and functions of steps                            *)

\* Every set of numbers has a least one.
LEMMA LeastNumber ==
  ASSUME NEW S \in SUBSET Nat, S # {}
  PROVE  \E x \in S : \A y \in S : x <= y
<1>1. PICK x \in S : \A y \in S : ~(<<y, x>> \in OpToRel(<, Nat))
  BY NatLessThanWellFounded, WFMin, Zenon
<1>2. \A y \in S : ~(y < x)
  <2> SUFFICES ASSUME NEW y \in S, y < x PROVE FALSE
    OBVIOUS
  <2>1. x \in Nat /\ y \in Nat
    OBVIOUS
  <2>2. <<y, x>> \in OpToRel(<, Nat)
    BY <2>1 DEF OpToRel
  <2>3. QED
    BY <1>1, <2>2
<1>3. \A y \in S : x <= y
  BY <1>2
<1>4. QED
  BY <1>3

\* Induction, as a fact about sets of numbers.
LEMMA NumbersInduction ==
  ASSUME NEW S \in SUBSET Nat, 0 \in S, \A n \in S : n + 1 \in S
  PROVE  S = Nat
<1> SUFFICES ASSUME Nat \ S # {} PROVE FALSE
  OBVIOUS
<1>1. PICK x \in Nat \ S : \A y \in Nat \ S : x <= y
  BY LeastNumber
<1>2. x - 1 \in Nat /\ ~(x <= x - 1)
  BY <1>1
<1>3. x - 1 \in S /\ (x - 1) + 1 = x
  BY <1>1, <1>2
<1>4. QED
  BY <1>1, <1>3

\* A part of a finite set is finite, and smaller without one of its members.
LEMMA Parts ==
  ASSUME NEW S, IsFiniteSet(S), NEW T \in SUBSET S
  PROVE  /\ IsFiniteSet(T) /\ Cardinality(T) \in Nat /\ Cardinality(T) <= Cardinality(S)
         /\ Cardinality(T) = 0 => T = {}
         /\ \A x \in T : Cardinality(T \ {x}) = Cardinality(T) - 1
<1>1. IsFiniteSet(T) /\ Cardinality(T) <= Cardinality(S)
  BY FS_Subset
<1>2. QED
  BY <1>1, FS_CardinalityType, FS_EmptySet, FS_RemoveElement

\* Induction over the numbers up to a bound.
LEMMA UpTo ==
  ASSUME NEW d \in Nat, NEW S, 0 \in S, \A n \in Nat : n < d /\ n \in S => n + 1 \in S
  PROVE  0..d \subseteq S
<1> DEFINE Good == {n \in Nat : n <= d => n \in S}
<1>1. Good \in SUBSET Nat /\ 0 \in Good
  OBVIOUS
<1>2. \A n \in Good : n + 1 \in Good
  OBVIOUS
<1>3. Good = Nat
  <2> HIDE DEF Good
  <2>1. QED
    BY <1>1, <1>2, NumbersInduction
<1>4. QED
  BY <1>3

\* d steps in X, each by its own function: there is a function of where they lead.
MayStep(d, X, first, next) == d \in Nat /\ first \in X /\ next \in [1..d -> [X -> X]]
Leads(d, X, first, next, g) ==
  /\ g \in [0..d -> X]
  /\ g[0] = first /\ \A i \in 1..d : g[i] = next[i][g[i - 1]]

\* Whatever the steps are, there is such a function.
LEMMA LeadsExist ==
  ASSUME NEW d, NEW X, NEW first, NEW next, MayStep(d, X, first, next)
  PROVE  \E g : Leads(d, X, first, next, g)
<1>0. d \in Nat /\ first \in X /\ next \in [1..d -> [X -> X]]
  BY DEF MayStep
<1> DEFINE Good == {n \in Nat : \E g \in [0..n -> X] :
                      g[0] = first /\ \A i \in 1..n : g[i] = next[i][g[i - 1]]}
<1>1. 0 \in Good
  <2> DEFINE g == [i \in 0..0 |-> first]
  <2>1. g \in [0..0 -> X] /\ g[0] = first /\ 1..0 = {}
    BY <1>0
  <2>2. QED
    BY <2>1
<1>2. ASSUME NEW n \in Nat, n < d, n \in Good PROVE n + 1 \in Good
  <2>1. PICK g \in [0..n -> X] : g[0] = first /\ \A i \in 1..n : g[i] = next[i][g[i - 1]]
    BY <1>2
  <2> DEFINE more == [i \in 0..(n + 1) |-> IF i = n + 1 THEN next[n + 1][g[n]] ELSE g[i]]
  <2>2. next[n + 1][g[n]] \in X
    <3>1. n + 1 \in 1..d /\ n \in 0..n
      BY <1>0, <1>2
    <3>2. QED
      BY <1>0, <2>1, <3>1
  <2>3. more \in [0..(n + 1) -> X]
    BY <2>2
  <2>4. more[0] = first /\ \A i \in 0..n : more[i] = g[i]
    BY <2>1
  <2>5. more[n + 1] = next[n + 1][more[n]]
    BY <2>4
  <2> HIDE DEF more
  <2>6. ASSUME NEW i \in 1..(n + 1) PROVE more[i] = next[i][more[i - 1]]
    <3>1. CASE i = n + 1
      BY <2>5, <3>1
    <3>2. CASE i # n + 1
      <4>1. i \in 1..n /\ i \in 0..n /\ i - 1 \in 0..n
        BY <3>2
      <4>2. QED
        BY <2>1, <2>4, <4>1
    <3>3. QED
      BY <3>1, <3>2
  <2>7. QED
    BY <2>3, <2>4, <2>6
<1>3. 0..d \subseteq Good
  <2> HIDE DEF Good
  <2>1. QED
    BY <1>0, <1>1, <1>2, UpTo
<1>4. d \in 0..d
  BY <1>0
<1>5. QED
  BY <1>3, <1>4 DEF Leads


-----------------------------------------------------------------------------
(* The search for cycles of supersession                                   *)

Entries == Records \X BOOLEAN
SearchType == [color : [Records -> 0..2], stack : Seq(Entries), cyclic : BOOLEAN]

\* A list of a finite set has each of its members.
LEMMA ListedIs ==
  ASSUME NEW S, IsFiniteSet(S)
  PROVE  /\ Cardinality(S) \in Nat
         /\ Listed(S) \in [1..Cardinality(S) -> S]
         /\ \A r \in S : \E i \in 1..Cardinality(S) : Listed(S)[i] = r
<1> DEFINE n == Cardinality(S)
<1>1. n \in Nat /\ Surjection(1..n, S) # {}
  BY FS_CardinalityType DEF ExistsBijection, Bijection
<1>2. PICK q \in [1..n -> S] : \A r \in S : \E i \in 1..n : q[i] = r
  BY <1>1 DEF Surjection
<1>3. /\ Listed(S) \in [1..n -> S]
      /\ \A r \in S : \E i \in 1..n : Listed(S)[i] = r
  BY <1>2, Zenon DEF Listed
<1>4. QED
  BY <1>1, <1>3

\* What a visit pushes are the records that it is given, to be visited.
LEMMA UnvisitedIs ==
  ASSUME NEW S \in SUBSET Records
  PROVE  /\ Unvisited(S) \in Seq(Entries) /\ Len(Unvisited(S)) = Cardinality(S)
         /\ Cardinality(S) \in Nat
         /\ \A i \in 1..Cardinality(S) : Unvisited(S)[i][1] \in S /\ ~Unvisited(S)[i][2]
         /\ \A t \in S : \E i \in 1..Cardinality(S) : Unvisited(S)[i][1] = t
<1> DEFINE n == Cardinality(S)
           u == [i \in 1..n |-> <<Listed(S)[i], FALSE>>]
<1>1. /\ n \in Nat /\ Listed(S) \in [1..n -> S]
      /\ \A r \in S : \E i \in 1..n : Listed(S)[i] = r
  BY AuditAssumption, Parts, ListedIs
<1>2. Unvisited(S) = u
  BY DEF Unvisited
<1> HIDE DEF n
<1>3. \A i \in 1..n : u[i] = <<Listed(S)[i], FALSE>> /\ Listed(S)[i] \in S
  BY <1>1
<1>4. u \in [1..n -> Entries]
  BY <1>3 DEF Entries
<1> HIDE DEF u
<1>5. u \in Seq(Entries) /\ Len(u) = n
  <2>1. \A P : u \in [1..n -> P] => u \in Seq(P) /\ Len(u) = n
    BY <1>1
  <2>2. QED
    BY <1>4, <2>1, Zenon
<1>6. ASSUME NEW i \in 1..n PROVE u[i][1] = Listed(S)[i] /\ ~u[i][2]
  <2> DEFINE x == Listed(S)[i]
  <2>1. u[i] = <<x, FALSE>>
    BY <1>3, Zenon
  <2> HIDE DEF x
  <2>2. u[i][1] = x /\ ~u[i][2]
    BY <2>1
  <2>3. QED
    BY <2>2 DEF x
<1>7. QED
  BY <1>1, <1>2, <1>3, <1>5, <1>6 DEF n

\* A stack without its top.
LEMMA FrontIs ==
  ASSUME NEW S, NEW st \in Seq(S), Len(st) >= 1
  PROVE  /\ Front(st) \in Seq(S) /\ Len(Front(st)) = Len(st) - 1
         /\ \A i \in 1..(Len(st) - 1) : Front(st)[i] = st[i]
<1> DEFINE n == Len(st) - 1
<1>1. n \in Int /\ 1 \in Int /\ n - 1 + 1 = n /\ \A i \in 1..n : 1 + i - 1 = i /\ st[i] \in S
  OBVIOUS
<1>2. n >= 0
  OBVIOUS
<1> HIDE DEF n
<1>3. /\ SubSeq(st, 1, n) \in Seq(S)
      /\ Len(SubSeq(st, 1, n)) = IF 1 <= n THEN n - 1 + 1 ELSE 0
      /\ \A i \in 1..(n - 1 + 1) : SubSeq(st, 1, n)[i] = st[1 + i - 1]
  BY <1>1, SubSeqProperties
<1>4. QED
  BY <1>1, <1>2, <1>3 DEF Front, n

\* A stack with another top, and more on it.
Pushed(st, e, u, new) ==
  /\ Len(new) = Len(st) + Len(u)
  /\ \A i \in 1..(Len(st) - 1) : new[i] = st[i]
  /\ new[Len(st)] = e
  /\ \A i \in 1..Len(u) : new[Len(st) + i] = u[i]

\* A stack whose top is replaced by an entry, with more entries on it.
LEMMA PushedIs ==
  ASSUME NEW S, NEW st \in Seq(S), Len(st) >= 1, NEW e \in S, NEW u \in Seq(S)
  PROVE  /\ Front(st) \o <<e>> \o u \in Seq(S)
         /\ Pushed(st, e, u, Front(st) \o <<e>> \o u)
<1> DEFINE f == Front(st)
           g == f \o <<e>>
           L == Len(st)
<1>1. f \in Seq(S) /\ Len(f) = L - 1 /\ \A i \in 1..(L - 1) : f[i] = st[i]
  BY FrontIs
<1>2. L \in Nat /\ L >= 1
  OBVIOUS
<1> HIDE DEF f, L
<1>3. g \in Seq(S) /\ Len(g) = L /\ g[L] = e /\ \A i \in 1..(L - 1) : g[i] = f[i]
  BY <1>1, <1>2
<1> HIDE DEF g
<1>4. /\ g \o u \in Seq(S) /\ Len(g \o u) = L + Len(u)
      /\ \A i \in 1..L : (g \o u)[i] = g[i]
      /\ \A i \in 1..Len(u) : (g \o u)[L + i] = u[i]
  BY <1>2, <1>3
<1> DEFINE new == g \o u
<1>5. new = Front(st) \o <<e>> \o u
  BY DEF f, g
<1>6. /\ new \in Seq(S) /\ Len(new) = L + Len(u) /\ \A i \in 1..L : new[i] = g[i]
      /\ \A i \in 1..Len(u) : new[L + i] = u[i]
  BY <1>4
<1> HIDE DEF new
<1>7. ASSUME NEW i \in 1..(L - 1) PROVE new[i] = st[i]
  <2>1. i \in 1..L
    BY <1>2
  <2>2. QED
    BY <1>1, <1>3, <1>6, <2>1
<1>8. new[L] = e
  BY <1>2, <1>3, <1>6
<1>9. new \in Seq(S) /\ Pushed(st, e, u, new)
  BY <1>6, <1>7, <1>8 DEF Pushed, L
<1>10. QED
  BY <1>5, <1>9, Zenon

\* Each record of S supersedes one of S.
Cycle(adjacency, S) == S # {} /\ \A r \in S : adjacency[r] \cap S # {}

\* The active records are those with an entry to leave, each one.
ActiveInv(color, st) ==
  /\ \A i \in 1..Len(st) : st[i][2] => color[st[i][1]] = 1
  /\ \A r \in Records : color[r] = 1 => \E i \in 1..Len(st) : st[i][2] /\ st[i][1] = r
  /\ \A i, j \in 1..Len(st) : st[i][2] /\ st[j][2] /\ st[i][1] = st[j][1] => i = j

\* Every entry is superseded by the last active record below it.
ChainInv(adjacency, st) ==
  \A i, j \in 1..Len(st) :
    i < j /\ st[i][2] /\ (\A k \in (i + 1)..(j - 1) : ~st[k][2])
      => st[j][1] \in adjacency[st[i][1]]

\* What an active record supersedes is done, or still above it.
PendingInv(adjacency, color, st) ==
  \A i \in 1..Len(st) : st[i][2] =>
    \A t \in adjacency[st[i][1]] :
      color[t] = 2 \/ \E j \in (i + 1)..Len(st) : st[j][1] = t

\* What a record that is done supersedes is done, and there is no cycle of them.
DoneInv(adjacency, color) ==
  /\ \A r \in Records : color[r] = 2 => \A t \in adjacency[r] : color[t] = 2
  /\ \A S \in SUBSET {r \in Records : color[r] = 2} : ~Cycle(adjacency, S)

\* The search below the top began with an active record.
RootInv(color, st) ==
  Len(st) >= 1 => st[1][2] \/ (Len(st) = 1 /\ color[st[1][1]] = 0)

Sound(adjacency, color, st) ==
  /\ ActiveInv(color, st) /\ ChainInv(adjacency, st) /\ PendingInv(adjacency, color, st)
  /\ DoneInv(adjacency, color) /\ RootInv(color, st)

\* The active records from one on, the last of which supersedes the first, are a
\* cycle.
LEMMA ChainCloses ==
  ASSUME NEW adjacency \in [Records -> SUBSET Records],
         NEW st \in Seq(Entries), ChainInv(adjacency, st),
         NEW l \in 1..Len(st), st[l][2], \A k \in 1..Len(st) : k > l => ~st[k][2],
         NEW m \in 1..l, st[m][2], st[m][1] \in adjacency[st[l][1]]
  PROVE  \E S \in SUBSET Records : Cycle(adjacency, S)
<1> DEFINE active == {k \in m..l : st[k][2]}
           S == {st[k][1] : k \in active}
<1>0. Len(st) \in Nat /\ \A k \in 1..Len(st) : st[k] \in Entries
  OBVIOUS
<1>1. m \in active /\ l \in active /\ \A k \in active : k \in 1..Len(st) /\ k \in Nat
  BY <1>0
<1>2. S \in SUBSET Records
  BY <1>0, <1>1 DEF Entries
<1>3. ASSUME NEW i \in active PROVE adjacency[st[i][1]] \cap S # {}
  <2>1. CASE i = l
    BY <1>1, <2>1
  <2>2. CASE i # l
    <3> DEFINE above == {k \in active : i < k}
    <3>1. above \in SUBSET Nat /\ l \in above
      BY <1>1, <2>2
    <3>2. PICK j \in above : \A k \in above : j <= k
      BY <3>1, LeastNumber
    <3>3. \A k \in (i + 1)..(j - 1) : ~st[k][2]
      <4> SUFFICES ASSUME NEW k \in (i + 1)..(j - 1), st[k][2] PROVE FALSE
        OBVIOUS
      <4>1. k \in m..l /\ i < k /\ k < j
        BY <1>1, <3>2
      <4>2. k \in above
        BY <4>1
      <4>3. QED
        BY <1>1, <3>2, <4>1, <4>2
    <3>4. st[j][1] \in adjacency[st[i][1]]
      BY <1>1, <3>2, <3>3 DEF ChainInv
    <3>5. QED
      BY <3>2, <3>4
  <2>3. QED
    BY <2>1, <2>2
<1>4. S # {} /\ \A r \in S : adjacency[r] \cap S # {}
  BY <1>1, <1>3
<1> HIDE DEF S
<1>5. QED
  BY <1>2, <1>4 DEF Cycle

\* Without its top, a stack is in order if what the top was is done.
LEMMA PopIsSound ==
  ASSUME NEW adjacency \in [Records -> SUBSET Records], NEW color \in [Records -> 0..2],
         NEW st \in Seq(Entries), Len(st) >= 1,
         ChainInv(adjacency, st), RootInv(color, st), NEW after \in [Records -> 0..2],
         Len(st) > 1 => st[1][2],
         \A i \in 1..Len(st) : st[i][2] => \A t \in adjacency[st[i][1]] :
           after[t] = 2 \/ \E j \in (i + 1)..(Len(st) - 1) : st[j][1] = t
  PROVE  /\ ChainInv(adjacency, Front(st)) /\ RootInv(after, Front(st))
         /\ PendingInv(adjacency, after, Front(st))
<1> DEFINE L == Len(st)  f == Front(st)
<1>1. L \in Nat /\ L >= 1 /\ Len(f) = L - 1 /\ \A i \in 1..(L - 1) : f[i] = st[i]
  BY FrontIs
<1>2. L = Len(st)
  OBVIOUS
<1> HIDE DEF f, L
<1>3. ChainInv(adjacency, f)
  <2> SUFFICES ASSUME NEW i \in 1..(L - 1), NEW j \in 1..(L - 1), i < j, f[i][2],
                      \A k \in (i + 1)..(j - 1) : ~f[k][2]
               PROVE  f[j][1] \in adjacency[f[i][1]]
    BY <1>1 DEF ChainInv
  <2>1. \A k \in (i + 1)..(j - 1) : ~st[k][2]
    <3> SUFFICES ASSUME NEW k \in (i + 1)..(j - 1) PROVE ~st[k][2]
      OBVIOUS
    <3>1. k \in 1..(L - 1)
      BY <1>1
    <3>2. QED
      BY <1>1, <3>1
  <2>2. i \in 1..Len(st) /\ j \in 1..Len(st) /\ st[i][2]
    BY <1>1, <1>2
  <2>3. st[j][1] \in adjacency[st[i][1]]
    BY <2>1, <2>2 DEF ChainInv
  <2>4. QED
    BY <1>1, <2>3
<1>4. PendingInv(adjacency, after, f)
  <2> SUFFICES ASSUME NEW i \in 1..(L - 1), f[i][2], NEW t \in adjacency[f[i][1]]
               PROVE  after[t] = 2 \/ \E j \in (i + 1)..(L - 1) : f[j][1] = t
    BY <1>1 DEF PendingInv
  <2>1. i \in 1..Len(st) /\ st[i] = f[i]
    BY <1>1, <1>2
  <2>2. after[t] = 2 \/ \E j \in (i + 1)..(L - 1) : st[j][1] = t
    BY <1>2, <2>1
  <2>3. \A j \in (i + 1)..(L - 1) : f[j] = st[j]
    BY <1>1
  <2>4. QED
    BY <2>2, <2>3
<1>5. RootInv(after, f)
  BY <1>1, <1>2 DEF RootInv
<1>6. QED
  BY <1>3, <1>4, <1>5 DEF f

\* A record that is met again when it is done is dropped.
LEMMA SkipIsSound ==
  ASSUME NEW adjacency \in [Records -> SUBSET Records], NEW color \in [Records -> 0..2],
         NEW st \in Seq(Entries), Len(st) >= 1, Sound(adjacency, color, st),
         ~st[Len(st)][2], color[st[Len(st)][1]] = 2
  PROVE  Sound(adjacency, color, Front(st))
<1> DEFINE L == Len(st)  f == Front(st)
<1>1. L \in Nat /\ L >= 1 /\ Len(f) = L - 1 /\ \A i \in 1..(L - 1) : f[i] = st[i]
  BY FrontIs
<1>2. L = Len(st)
  OBVIOUS
<1> HIDE DEF f, L
<1>3. ActiveInv(color, f)
  <2>1. \A i \in 1..Len(st) : st[i][2] => i \in 1..(L - 1)
    <3> SUFFICES ASSUME NEW i \in 1..Len(st), st[i][2] PROVE i \in 1..(L - 1)
      OBVIOUS
    <3>1. i # L
      BY <1>2
    <3>2. QED
      BY <1>1, <1>2, <3>1
  <2>2. \A i \in 1..(L - 1) : i \in 1..Len(st) /\ f[i] = st[i]
    BY <1>1, <1>2
  <2>3. \A i \in 1..(L - 1) : f[i][2] => color[f[i][1]] = 1
    BY <2>2 DEF Sound, ActiveInv
  <2>4. ASSUME NEW t \in Records, color[t] = 1
        PROVE  \E i \in 1..(L - 1) : f[i][2] /\ f[i][1] = t
    <3>1. PICK i \in 1..Len(st) : st[i][2] /\ st[i][1] = t
      BY <2>4 DEF Sound, ActiveInv
    <3>2. QED
      BY <2>1, <2>2, <3>1
  <2>5. \A i, j \in 1..(L - 1) : f[i][2] /\ f[j][2] /\ f[i][1] = f[j][1] => i = j
    BY <2>2 DEF Sound, ActiveInv
  <2>6. QED
    BY <1>1, <2>3, <2>4, <2>5 DEF ActiveInv
<1>4. L > 1 => st[1][2]
  BY <1>1, <1>2 DEF Sound, RootInv
<1>5. ASSUME NEW i \in 1..Len(st), st[i][2], NEW t \in adjacency[st[i][1]]
      PROVE  color[t] = 2 \/ \E j \in (i + 1)..(Len(st) - 1) : st[j][1] = t
  <2>1. color[t] = 2 \/ \E j \in (i + 1)..Len(st) : st[j][1] = t
    BY <1>5 DEF Sound, PendingInv
  <2>2. \A j \in (i + 1)..Len(st) : j = Len(st) \/ j \in (i + 1)..(Len(st) - 1)
    BY <1>1, <1>2
  <2>3. QED
    BY <2>1, <2>2
<1>6. /\ ChainInv(adjacency, f) /\ RootInv(color, f)
      /\ PendingInv(adjacency, color, f)
  BY <1>2, <1>4, <1>5, PopIsSound DEF Sound, f
<1>7. QED
  BY <1>3, <1>6 DEF Sound, f

\* A record is left when all that it supersedes is done.
LEMMA LeaveIsSound ==
  ASSUME NEW adjacency \in [Records -> SUBSET Records], NEW color \in [Records -> 0..2],
         NEW st \in Seq(Entries), Len(st) >= 1, Sound(adjacency, color, st),
         NEW r \in Records, st[Len(st)][2], st[Len(st)][1] = r
  PROVE  Sound(adjacency, [color EXCEPT ![r] = 2], Front(st))
<1> DEFINE L == Len(st)  f == Front(st)  after == [color EXCEPT ![r] = 2]
<1>1. L \in Nat /\ L >= 1 /\ Len(f) = L - 1 /\ \A i \in 1..(L - 1) : f[i] = st[i]
  BY FrontIs
<1>2. L = Len(st) /\ L \in 1..Len(st) /\ after \in [Records -> 0..2]
  BY <1>1
<1>3. color[r] = 1 /\ after[r] = 2 /\ \A t \in Records : t # r => after[t] = color[t]
  BY <1>2 DEF Sound, ActiveInv
<1>4. \A i \in 1..Len(st) : st[i][1] \in Records
  BY DEF Entries
<1> HIDE DEF f, L, after
<1>5. ActiveInv(after, f)
  <2>1. \A i \in 1..(L - 1) : i \in 1..Len(st) /\ f[i] = st[i]
    BY <1>1, <1>2
  <2>2. ASSUME NEW i \in 1..(L - 1), st[i][2] PROVE st[i][1] # r
    <3>1. i \in 1..Len(st) /\ i # L
      BY <1>1, <2>1
    <3>2. QED
      BY <1>2, <2>2, <3>1 DEF Sound, ActiveInv
  <2>3. ASSUME NEW t \in Records, after[t] = 1
        PROVE  \E i \in 1..(L - 1) : f[i][2] /\ f[i][1] = t
    <3>1. t # r /\ color[t] = 1
      BY <1>3, <2>3
    <3>2. PICK i \in 1..Len(st) : st[i][2] /\ st[i][1] = t
      BY <3>1 DEF Sound, ActiveInv
    <3>3. i # L
      BY <1>2, <3>1, <3>2
    <3>4. i \in 1..(L - 1)
      BY <1>1, <1>2, <3>3
    <3>5. QED
      BY <2>1, <3>2, <3>4
  <2>4. \A i \in 1..(L - 1) : f[i][2] => after[f[i][1]] = 1
    BY <1>3, <1>4, <2>1, <2>2 DEF Sound, ActiveInv
  <2>5. \A i, j \in 1..(L - 1) : f[i][2] /\ f[j][2] /\ f[i][1] = f[j][1] => i = j
    BY <2>1 DEF Sound, ActiveInv
  <2>6. QED
    BY <1>1, <2>3, <2>4, <2>5 DEF ActiveInv
<1>6. L > 1 => st[1][2]
  BY <1>1, <1>2 DEF Sound, RootInv
<1>7. ASSUME NEW i \in 1..Len(st), st[i][2], NEW t \in adjacency[st[i][1]]
      PROVE  after[t] = 2 \/ \E j \in (i + 1)..(Len(st) - 1) : st[j][1] = t
  <2>1. color[t] = 2 \/ \E j \in (i + 1)..Len(st) : st[j][1] = t
    BY <1>7 DEF Sound, PendingInv
  <2>2. \A j \in (i + 1)..Len(st) : j = Len(st) \/ j \in (i + 1)..(Len(st) - 1)
    <3>1. Len(st) \in Nat /\ i \in Nat
      OBVIOUS
    <3>2. QED
      BY <3>1
  <2>3. t \in Records
    BY <1>4
  <2>4. QED
    BY <1>3, <2>1, <2>2, <2>3
<1>8. /\ ChainInv(adjacency, f) /\ RootInv(after, f)
      /\ PendingInv(adjacency, after, f)
  BY <1>2, <1>6, <1>7, PopIsSound DEF Sound, f
<1>9. DoneInv(adjacency, after)
  <2>1. \A t \in adjacency[r] : color[t] = 2
    <3>1. (L + 1)..Len(st) = {}
      BY <1>1, <1>2
    <3>2. QED
      BY <1>2, <3>1 DEF Sound, PendingInv
  <2>2. \A x \in Records : color[x] = 2 => \A t \in adjacency[x] : color[t] = 2
    BY DEF Sound, DoneInv
  <2>3. \A x \in Records : after[x] = 2 => \A t \in adjacency[x] : color[t] = 2
    BY <1>3, <2>1, <2>2
  <2>4. ASSUME NEW S \in SUBSET {x \in Records : after[x] = 2}, Cycle(adjacency, S) PROVE FALSE
    <3> DEFINE T == S \ {r}
    <3>1. ASSUME NEW x \in S PROVE \E t \in adjacency[x] \cap S : t # r
      <4>1. PICK t \in adjacency[x] \cap S : TRUE
        BY <2>4 DEF Cycle
      <4>2. color[t] = 2
        BY <2>3, <4>1
      <4>3. t # r
        BY <1>3, <4>2
      <4>4. QED
        BY <4>1, <4>3
    <3>2. T \in SUBSET {x \in Records : color[x] = 2}
      BY <1>3
    <3>3. Cycle(adjacency, T)
      BY <2>4, <3>1 DEF Cycle
    <3> HIDE DEF T
    <3>4. QED
      BY <3>2, <3>3 DEF Sound, DoneInv
  <2>5. \A x \in Records : after[x] = 2 => \A t \in adjacency[x] : after[t] = 2
    BY <1>3, <2>3
  <2>6. QED
    BY <2>4, <2>5 DEF DoneInv
<1>10. QED
  BY <1>5, <1>8, <1>9 DEF Sound, f, after

\* What the stack is after a visit that is to visit n records.
VisitLeaves(st, r, next, n, new) ==
  /\ n \in Nat /\ new \in Seq(Entries) /\ Len(new) = Len(st) + n
  /\ \A i \in 1..(Len(st) - 1) : new[i] = st[i]
  /\ new[Len(st)] = <<r, TRUE>>
  /\ \A i \in (Len(st) + 1)..(Len(st) + n) : ~new[i][2] /\ new[i][1] \in next
  /\ \A t \in next : \E i \in (Len(st) + 1)..(Len(st) + n) : new[i][1] = t

\* A record that closes no cycle is visited, and what it supersedes is to be.
LEMMA VisitIsSound ==
  ASSUME NEW adjacency \in [Records -> SUBSET Records], NEW color \in [Records -> 0..2],
         NEW st \in Seq(Entries), Len(st) >= 1, Sound(adjacency, color, st),
         NEW r \in Records, ~st[Len(st)][2], st[Len(st)][1] = r, color[r] = 0,
         \A t \in adjacency[r] : t # r /\ color[t] # 1,
         NEW next \in SUBSET adjacency[r], \A t \in adjacency[r] : color[t] = 0 => t \in next,
         NEW n, NEW new, VisitLeaves(st, r, next, n, new)
  PROVE  Sound(adjacency, [color EXCEPT ![r] = 1], new)
<1> DEFINE L == Len(st)  after == [color EXCEPT ![r] = 1]
<1>0. /\ n \in Nat /\ new \in Seq(Entries) /\ Len(new) = Len(st) + n
      /\ \A i \in 1..(Len(st) - 1) : new[i] = st[i]
      /\ new[Len(st)] = <<r, TRUE>>
      /\ \A i \in (Len(st) + 1)..(Len(st) + n) : ~new[i][2] /\ new[i][1] \in adjacency[r]
      /\ \A t \in adjacency[r] : color[t] = 0 =>
           \E i \in (Len(st) + 1)..(Len(st) + n) : new[i][1] = t
  BY DEF VisitLeaves
<1>1. /\ n \in Nat /\ L \in Nat /\ L >= 1 /\ L \in 1..Len(new) /\ L = Len(st) /\ Len(new) = L + n
      /\ \A i \in 1..(L - 1) : new[i] = st[i]
      /\ \A i \in 1..(L - 1) : i \in 1..Len(new) /\ i \in 1..Len(st)
  BY <1>0
<1>2. new[L][1] = r /\ new[L][2] /\ st[L][1] = r /\ ~st[L][2]
  BY <1>0
<1>3. \A i \in (L + 1)..(L + n) : ~new[i][2] /\ new[i][1] \in adjacency[r]
  BY <1>0
<1>4. \A t \in adjacency[r] : color[t] = 0 => \E i \in (L + 1)..(L + n) : new[i][1] = t
  BY <1>0
<1>5. after[r] = 1 /\ \A t \in Records : t # r => after[t] = color[t]
  OBVIOUS
<1>6. \A i \in 1..Len(st) : st[i][1] \in Records
  BY DEF Entries
<1> HIDE DEF after, L
<1>7. \A i \in 1..Len(new) : i \in 1..(L - 1) \/ i = L \/ i \in (L + 1)..(L + n)
  BY <1>1
<1>8. ASSUME NEW i \in 1..Len(new), new[i][2] PROVE i = L \/ (i \in 1..(L - 1) /\ st[i][2])
  BY <1>1, <1>3, <1>7, <1>8
<1>9. ASSUME NEW i \in 1..(L - 1), st[i][2] PROVE color[st[i][1]] = 1 /\ st[i][1] # r
  BY <1>1, <1>9 DEF Sound, ActiveInv
<1>10. ActiveInv(after, new)
  <2>1. ASSUME NEW i \in 1..Len(new), new[i][2] PROVE after[new[i][1]] = 1
    <3>1. CASE i = L
      BY <1>2, <1>5, <3>1
    <3>2. CASE i \in 1..(L - 1) /\ st[i][2]
      BY <1>1, <1>5, <1>6, <1>9, <3>2
    <3>3. QED
      BY <1>8, <2>1, <3>1, <3>2
  <2>2. ASSUME NEW t \in Records, after[t] = 1
        PROVE  \E i \in 1..Len(new) : new[i][2] /\ new[i][1] = t
    <3>1. CASE t = r
      BY <1>1, <1>2, <3>1
    <3>2. CASE t # r
      <4>1. color[t] = 1
        BY <1>5, <2>2, <3>2
      <4>2. PICK i \in 1..Len(st) : st[i][2] /\ st[i][1] = t
        BY <4>1 DEF Sound, ActiveInv
      <4>3. i # L
        BY <1>2, <4>2
      <4>4. i \in 1..(L - 1)
        BY <1>1, <4>3
      <4>5. QED
        BY <1>1, <4>2, <4>4
    <3>3. QED
      BY <3>1, <3>2
  <2>3. ASSUME NEW i \in 1..Len(new), NEW j \in 1..Len(new), new[i][2], new[j][2], new[i][1] = new[j][1]
        PROVE  i = j
    <3>1. (i = L \/ (i \in 1..(L - 1) /\ st[i][2])) /\ (j = L \/ (j \in 1..(L - 1) /\ st[j][2]))
      BY <1>8, <2>3
    <3>2. CASE i \in 1..(L - 1) /\ st[i][2] /\ j \in 1..(L - 1) /\ st[j][2]
      <4>1. /\ i \in 1..Len(st) /\ j \in 1..Len(st)
            /\ st[i][1] = st[j][1]
        BY <1>1, <2>3, <3>2
      <4>2. QED
        BY <3>2, <4>1 DEF Sound, ActiveInv
    <3>3. CASE i = L \/ j = L
      BY <1>1, <1>2, <1>9, <2>3, <3>1, <3>3
    <3>4. QED
      BY <3>1, <3>2, <3>3
  <2>4. QED
    BY <2>1, <2>2, <2>3 DEF ActiveInv
<1>11. ChainInv(adjacency, new)
  <2> SUFFICES ASSUME NEW i \in 1..Len(new), NEW j \in 1..Len(new), i < j, new[i][2],
                      \A k \in (i + 1)..(j - 1) : ~new[k][2]
               PROVE  new[j][1] \in adjacency[new[i][1]]
    BY DEF ChainInv
  <2>1. CASE i = L
    <3>1. j \in (L + 1)..(L + n)
      BY <1>1, <2>1
    <3>2. QED
      BY <1>2, <1>3, <2>1, <3>1
  <2>2. CASE i \in 1..(L - 1) /\ st[i][2]
    <3>1. ~(j > L)
      <4>1. j > L => L \in (i + 1)..(j - 1)
        BY <1>1, <2>2
      <4>2. QED
        BY <1>2, <4>1
    <3>2. j \in 1..Len(st) /\ i \in 1..Len(st)
      BY <1>1, <2>2, <3>1
    <3>3. \A k \in (i + 1)..(j - 1) : k \in 1..(L - 1)
      BY <1>1, <2>2, <3>1
    <3>4. \A k \in (i + 1)..(j - 1) : ~st[k][2]
      BY <1>1, <3>3
    <3>5. st[j][1] \in adjacency[st[i][1]]
      BY <2>2, <3>2, <3>4 DEF Sound, ChainInv
    <3>6. j = L \/ j \in 1..(L - 1)
      BY <1>1, <3>1
    <3>7. new[j][1] = st[j][1] /\ new[i][1] = st[i][1]
      BY <1>1, <1>2, <2>2, <3>6
    <3>8. QED
      BY <3>5, <3>7
  <2>3. QED
    BY <1>8, <2>1, <2>2
<1>12. PendingInv(adjacency, after, new)
  <2> SUFFICES ASSUME NEW i \in 1..Len(new), new[i][2], NEW t \in adjacency[new[i][1]]
               PROVE  after[t] = 2 \/ \E j \in (i + 1)..Len(new) : new[j][1] = t
    BY DEF PendingInv
  <2>1. CASE i = L
    <3>1. t \in adjacency[r] /\ t \in Records /\ t # r /\ color[t] \in {0, 2}
      BY <1>2, <2>1
    <3>2. QED
      BY <1>1, <1>4, <1>5, <2>1, <3>1
  <2>2. CASE i \in 1..(L - 1) /\ st[i][2]
    <3>1. t \in adjacency[st[i][1]] /\ t \in Records /\ i \in 1..Len(st)
      BY <1>1, <1>6, <2>2
    <3>2. color[t] = 2 \/ \E j \in (i + 1)..Len(st) : st[j][1] = t
      BY <2>2, <3>1 DEF Sound, PendingInv
    <3>3. CASE color[t] = 2
      BY <1>5, <3>1, <3>3
    <3>4. CASE \E j \in (i + 1)..Len(st) : st[j][1] = t
      <4>1. PICK j \in (i + 1)..Len(st) : st[j][1] = t
        BY <3>4
      <4>2. j \in (i + 1)..Len(new) /\ (j = L \/ j \in 1..(L - 1))
        BY <1>1, <2>2, <4>1
      <4>3. new[j][1] = st[j][1]
        BY <1>1, <1>2, <4>2
      <4>4. QED
        BY <4>1, <4>2, <4>3
    <3>5. QED
      BY <3>2, <3>3, <3>4
  <2>3. QED
    BY <1>8, <2>1, <2>2
<1>13. DoneInv(adjacency, after)
  <2>1. {x \in Records : after[x] = 2} = {x \in Records : color[x] = 2}
    BY <1>5
  <2>2. ASSUME NEW x \in Records, after[x] = 2, NEW t \in adjacency[x] PROVE after[t] = 2
    <3>1. color[x] = 2 /\ t \in Records
      BY <1>5, <2>2
    <3>2. color[t] = 2
      BY <3>1 DEF Sound, DoneInv
    <3>3. QED
      BY <1>5, <3>1, <3>2
  <2>3. QED
    BY <2>1, <2>2 DEF Sound, DoneInv
<1>14. RootInv(after, new)
  <2>1. CASE L = 1
    BY <1>2, <2>1 DEF RootInv
  <2>2. CASE L # 1
    <3>1. st[1][2] /\ 1 \in 1..(L - 1)
      BY <1>1, <2>2 DEF Sound, RootInv
    <3>2. QED
      BY <1>1, <3>1 DEF RootInv
  <2>3. QED
    BY <2>1, <2>2
<1>15. QED
  BY <1>10, <1>11, <1>12, <1>13, <1>14 DEF Sound, after

\* A search that has nothing on its stack goes on with a record that it has not met.
LEMMA RestartIsSound ==
  ASSUME NEW adjacency \in [Records -> SUBSET Records], NEW color \in [Records -> 0..2],
         NEW st \in Seq(Entries), Len(st) = 0, Sound(adjacency, color, st),
         NEW r \in Records, color[r] = 0
  PROVE  Sound(adjacency, color, <<<<r, FALSE>>>>)
<1> DEFINE new == <<<<r, FALSE>>>>
<1>1. Len(new) = 1 /\ new[1] = <<r, FALSE>>
  OBVIOUS
<1> HIDE DEF new
<1>2. new[1][1] = r /\ ~new[1][2] /\ \A i \in 1..Len(new) : i = 1
  BY <1>1
<1>3. \A t \in Records : color[t] # 1
  BY DEF Sound, ActiveInv
<1>4. ActiveInv(color, new) /\ ChainInv(adjacency, new) /\ PendingInv(adjacency, color, new)
  BY <1>1, <1>2, <1>3 DEF ActiveInv, ChainInv, PendingInv
<1>5. QED
  BY <1>1, <1>2, <1>4 DEF Sound, RootInv, new

\* A record that is met while it is active closes a cycle: when it is visited, by
\* what it supersedes, or when it comes up again.
LEMMA VisitCloses ==
  ASSUME NEW adjacency \in [Records -> SUBSET Records], NEW color \in [Records -> 0..2],
         NEW st \in Seq(Entries), Len(st) >= 1, Sound(adjacency, color, st),
         NEW r \in Records, ~st[Len(st)][2], st[Len(st)][1] = r,
         NEW t \in adjacency[r], t = r \/ color[t] = 1
  PROVE  \E S \in SUBSET Records : Cycle(adjacency, S)
<1> DEFINE L == Len(st)  e == <<r, TRUE>>  new == [st EXCEPT ![L] = e]
<1>1. L \in Nat /\ L >= 1 /\ L \in 1..Len(st) /\ L = Len(st) /\ st[L][1] = r /\ ~st[L][2]
  OBVIOUS
<1>2. e \in Entries /\ e[1] = r /\ e[2]
  BY DEF Entries
<1> HIDE DEF e
<1>3. /\ new \in Seq(Entries) /\ Len(new) = Len(st) /\ new[L] = e
      /\ \A i \in 1..Len(st) : i # L => new[i] = st[i]
  BY <1>1, <1>2
<1> HIDE DEF new, L
<1>4. ChainInv(adjacency, new)
  <2> SUFFICES ASSUME NEW i \in 1..Len(st), NEW j \in 1..Len(st), i < j, new[i][2],
                      \A k \in (i + 1)..(j - 1) : ~new[k][2]
               PROVE  new[j][1] \in adjacency[new[i][1]]
    BY <1>3 DEF ChainInv
  <2>1. i # L /\ i \in 1..Len(st)
    BY <1>1
  <2>2. \A k \in (i + 1)..(j - 1) : k \in 1..Len(st) /\ k # L
    BY <1>1
  <2>3. \A k \in (i + 1)..(j - 1) : ~st[k][2]
    BY <1>3, <2>2
  <2>4. st[j][1] \in adjacency[st[i][1]]
    BY <1>3, <2>1, <2>3 DEF Sound, ChainInv
  <2>5. new[j][1] = st[j][1]
    BY <1>1, <1>2, <1>3
  <2>6. QED
    BY <1>3, <2>1, <2>4, <2>5
<1>5. \E m \in 1..L : new[m][2] /\ new[m][1] = t
  <2>1. CASE t = r
    BY <1>1, <1>2, <1>3, <2>1
  <2>2. CASE color[t] = 1
    <3>1. PICK m \in 1..Len(st) : st[m][2] /\ st[m][1] = t
      BY <2>2 DEF Sound, ActiveInv
    <3>2. m # L
      BY <1>1, <3>1
    <3>3. QED
      BY <1>1, <1>3, <3>1, <3>2
  <2>3. QED
    BY <2>1, <2>2
<1>6. PICK m \in 1..L : new[m][2] /\ new[m][1] = t
  BY <1>5
<1>7. new[L][2] /\ new[L][1] = r /\ L \in 1..Len(new) /\ \A k \in 1..Len(new) : k > L => ~new[k][2]
  BY <1>1, <1>2, <1>3
<1>8. new[m][1] \in adjacency[new[L][1]]
  BY <1>6, <1>7
<1>9. QED
  BY <1>3, <1>4, <1>6, <1>7, <1>8, ChainCloses

\* A record that is met again while it is active closes a cycle.
LEMMA MeetingCloses ==
  ASSUME NEW adjacency \in [Records -> SUBSET Records], NEW color \in [Records -> 0..2],
         NEW st \in Seq(Entries), Len(st) >= 1, Sound(adjacency, color, st),
         ~st[Len(st)][2], color[st[Len(st)][1]] = 1
  PROVE  \E S \in SUBSET Records : Cycle(adjacency, S)
<1> DEFINE L == Len(st)  below == {k \in 1..(L - 1) : st[k][2]}  depths == {L - k : k \in below}
<1>1. L \in Nat /\ L >= 1 /\ L \in 1..Len(st) /\ L = Len(st) /\ ~st[L][2]
  OBVIOUS
<1>2. st[L][1] \in Records /\ color[st[L][1]] = 1
  BY <1>1 DEF Entries
<1> HIDE DEF L
<1>3. PICK m \in 1..Len(st) : st[m][2] /\ st[m][1] = st[L][1]
  BY <1>2 DEF Sound, ActiveInv
<1>4. m \in below
  BY <1>1, <1>3
<1>5. depths \in SUBSET Nat /\ depths # {}
  BY <1>1, <1>4
<1>6. PICK x \in depths : \A y \in depths : x <= y
  BY <1>5, LeastNumber
<1>7. PICK l \in below : x = L - l
  BY <1>6
<1>8. \A k \in below : k <= l
  <2> SUFFICES ASSUME NEW k \in below PROVE k <= l
    OBVIOUS
  <2>1. L - k \in depths
    OBVIOUS
  <2>2. L - l <= L - k
    BY <1>6, <1>7, <2>1
  <2>3. QED
    BY <1>1, <2>2
<1>9. \A k \in (l + 1)..(L - 1) : ~st[k][2]
  BY <1>1, <1>8
<1>10. l \in 1..Len(st) /\ l < L /\ st[l][2] /\ m \in 1..l
  BY <1>1, <1>4, <1>8
<1>11. st[L][1] \in adjacency[st[l][1]]
  BY <1>1, <1>9, <1>10 DEF Sound, ChainInv
<1>12. \A k \in 1..Len(st) : k > l => ~st[k][2]
  <2> SUFFICES ASSUME NEW k \in 1..Len(st), k > l PROVE ~st[k][2]
    OBVIOUS
  <2>1. k = L \/ k \in (l + 1)..(L - 1)
    BY <1>1, <1>10
  <2>2. QED
    BY <1>1, <1>9, <2>1
<1>13. ChainInv(adjacency, st) /\ st[m][1] \in adjacency[st[l][1]]
  BY <1>3, <1>11 DEF Sound
<1>14. QED
  BY <1>3, <1>10, <1>12, <1>13, ChainCloses

-----------------------------------------------------------------------------
(* What the search has still to do                                         *)

\* The records that the search has not met.  It is over when it has found a cycle, or
\* has no entry and no such record left.
White(d) == {r \in Records : d.color[r] = 0}
Over(d) == d.cyclic \/ (d.stack = <<>> /\ White(d) = {})

\* A search that has found a cycle is right, and one that has not is in order.
SearchInv(adjacency, d) ==
  /\ d \in SearchType
  /\ d.cyclic => \E S \in SUBSET Records : Cycle(adjacency, S)
  /\ ~d.cyclic => Sound(adjacency, d.color, d.stack)

\* The steps to come, at most.  A record that the search has just restarted from
\* has been counted.
Cost(d) ==
  Cardinality(White(d)) * (Cardinality(Records) + 3) + Len(d.stack)
    - (IF Len(d.stack) = 1 /\ ~d.stack[1][2] THEN 2 ELSE 0)

\* e is in order, and nearer to the end than d.
Advances(adjacency, d, e) ==
  /\ SearchInv(adjacency, e)
  /\ Over(e) \/ Cost(e) < Cost(d)

\* The records not yet met are finitely many, and one fewer without one.
LEMMA WhiteIs ==
  ASSUME NEW d \in SearchType
  PROVE  /\ Cardinality(Records) \in Nat /\ Cardinality(White(d)) \in Nat
         /\ Cardinality(White(d)) <= Cardinality(Records)
         /\ IsFiniteSet(White(d))
         /\ Cardinality(White(d)) = 0 => White(d) = {}
         /\ \A r \in White(d) : Cardinality(White(d) \ {r}) = Cardinality(White(d)) - 1
         /\ \A T \in SUBSET White(d) : Cardinality(T) <= Cardinality(White(d))
<1>1. White(d) \in SUBSET Records /\ IsFiniteSet(Records)
  BY AuditAssumption DEF White
<1>2. /\ IsFiniteSet(White(d)) /\ Cardinality(White(d)) \in Nat
      /\ Cardinality(White(d)) <= Cardinality(Records)
      /\ Cardinality(White(d)) = 0 => White(d) = {}
      /\ \A r \in White(d) : Cardinality(White(d) \ {r}) = Cardinality(White(d)) - 1
  BY <1>1, Parts
<1>3. \A T \in SUBSET White(d) : Cardinality(T) <= Cardinality(White(d))
  BY <1>2, Parts
<1>4. QED
  BY <1>1, <1>2, <1>3, FS_CardinalityType

\* A search that goes on from an empty stack.
LEMMA RestartAdvances ==
  ASSUME NEW adjacency \in [Records -> SUBSET Records], NEW d, SearchInv(adjacency, d),
         ~d.cyclic, d.stack = <<>>, White(d) # {}
  PROVE  Advances(adjacency, d, Restart(d))
<1> DEFINE r == CHOOSE x \in White(d) : TRUE  new == <<<<r, FALSE>>>>  e == Restart(d)
<1>1. r \in Records /\ d.color[r] = 0
  <2>1. r \in White(d)
    BY Zenon
  <2> HIDE DEF r
  <2>2. QED
    BY <2>1 DEF White
<1>2. e = [d EXCEPT !.stack = new]
  BY Zenon DEF Restart, White
<1> HIDE DEF r
<1>3. d \in SearchType /\ Sound(adjacency, d.color, d.stack)
  BY DEF SearchInv
<1>4. new \in Seq(Entries) /\ Len(new) = 1 /\ ~new[1][2]
  <2> DEFINE x == <<r, FALSE>>
  <2>1. x \in Entries /\ ~x[2]
    BY <1>1 DEF Entries
  <2> HIDE DEF x
  <2>2. <<x>> \in Seq(Entries) /\ Len(<<x>>) = 1 /\ <<x>>[1] = x
    BY <2>1
  <2>3. QED
    BY <2>1, <2>2 DEF x
<1>5. Sound(adjacency, d.color, new)
  <2>1. d.color \in [Records -> 0..2] /\ d.stack \in Seq(Entries) /\ Len(d.stack) = 0
    BY <1>3 DEF SearchType
  <2>2. QED
    BY <1>1, <1>3, <2>1, RestartIsSound
<1> HIDE DEF new, e
<1>6. e \in SearchType /\ e.color = d.color /\ e.stack = new /\ e.cyclic = d.cyclic
  BY <1>2, <1>3, <1>4 DEF SearchType
<1>7. SearchInv(adjacency, e)
  BY <1>5, <1>6 DEF SearchInv
<1>8. White(e) = White(d)
  BY <1>6 DEF White
<1> DEFINE w == Cardinality(White(d)) * (Cardinality(Records) + 3)
<1>9. w \in Int
  BY <1>3, WhiteIs
<1>10. Cost(e) = w + 1 - 2 /\ Cost(d) = w + 0 - 0
  BY <1>4, <1>6, <1>8 DEF Cost
<1> HIDE DEF w
<1>11. QED
  BY <1>7, <1>9, <1>10 DEF Advances, e

\* A stack that is popped, of a search that stays in order.
LEMMA PopAdvances ==
  ASSUME NEW adjacency \in [Records -> SUBSET Records], NEW d, SearchInv(adjacency, d),
         ~d.cyclic, Len(d.stack) >= 1, NEW e \in SearchType, ~e.cyclic,
         e.stack = Front(d.stack), White(e) = White(d),
         Len(d.stack) = 1 => d.stack[1][2], Sound(adjacency, e.color, e.stack)
  PROVE  Advances(adjacency, d, e)
<1> DEFINE L == Len(d.stack)
<1>1. d \in SearchType /\ d.stack \in Seq(Entries) /\ L \in Nat
  BY DEF SearchInv, SearchType
<1>2. Len(e.stack) = L - 1 /\ \A i \in 1..(L - 1) : e.stack[i] = d.stack[i]
  BY <1>1, FrontIs
<1>3. d.stack[1][2]
  BY <1>1 DEF SearchInv, Sound, RootInv
<1> DEFINE w == Cardinality(White(d)) * (Cardinality(Records) + 3)
<1>4. w \in Int
  BY <1>1, WhiteIs
<1>5. Cost(d) = w + L - 0
  BY <1>3 DEF Cost
<1>6. Cost(e) = w + (L - 1) - 0
  <2>1. L - 1 = 1 => e.stack[1][2]
    <3> SUFFICES ASSUME L - 1 = 1 PROVE e.stack[1][2]
      OBVIOUS
    <3> HIDE DEF L
    <3>1. 1 \in 1..(L - 1)
      OBVIOUS
    <3>2. e.stack[1] = d.stack[1]
      BY <1>2, <3>1
    <3>3. QED
      BY <1>3, <3>2
  <2>2. QED
    BY <1>2, <2>1 DEF Cost
<1> HIDE DEF w, L
<1>7. Cost(e) < Cost(d)
  BY <1>1, <1>4, <1>5, <1>6
<1>8. QED
  BY <1>7 DEF Advances, SearchInv

\* An entry of a record to leave.
LEMMA LeaveAdvances ==
  ASSUME NEW adjacency \in [Records -> SUBSET Records], NEW d, SearchInv(adjacency, d),
         ~d.cyclic, Len(d.stack) >= 1, NEW r \in Records,
         d.stack[Len(d.stack)][1] = r, d.stack[Len(d.stack)][2]
  PROVE  Advances(adjacency, d, Leave(d, r))
<1> DEFINE e == Leave(d, r)
           after == [d.color EXCEPT ![r] = 2]
<1>1. d \in SearchType /\ d.stack \in Seq(Entries) /\ d.color \in [Records -> 0..2]
      /\ d.cyclic \in BOOLEAN /\ Sound(adjacency, d.color, d.stack)
  BY DEF SearchInv, SearchType
<1>2. Front(d.stack) \in Seq(Entries) /\ after \in [Records -> 0..2]
  BY <1>1, FrontIs
<1>3. e \in SearchType /\ e.color = after /\ e.stack = Front(d.stack) /\ ~e.cyclic
  BY <1>1, <1>2 DEF Leave, SearchType
<1>4. Sound(adjacency, after, Front(d.stack))
  BY <1>1, LeaveIsSound
<1>5. White(e) = White(d)
  <2>1. d.color[r] = 1
    <3>1. Len(d.stack) \in 1..Len(d.stack)
      BY <1>1
    <3>2. QED
      BY <1>1, <3>1 DEF Sound, ActiveInv
  <2>2. \A t \in Records : after[t] = 0 <=> d.color[t] = 0
    BY <1>1, <2>1
  <2> HIDE DEF after, e
  <2>3. QED
    BY <1>3, <2>2 DEF White
<1>6. Len(d.stack) = 1 => d.stack[1][2]
  OBVIOUS
<1> HIDE DEF e, after
<1>7. Advances(adjacency, d, e)
  BY <1>3, <1>4, <1>5, <1>6, PopAdvances
<1>8. QED
  BY <1>7 DEF e

\* An entry of a record that has been met since it was pushed.
LEMMA MeetAdvances ==
  ASSUME NEW adjacency \in [Records -> SUBSET Records], NEW d, SearchInv(adjacency, d),
         ~d.cyclic, Len(d.stack) >= 1, NEW r \in Records,
         d.stack[Len(d.stack)][1] = r, ~d.stack[Len(d.stack)][2], d.color[r] # 0
  PROVE  Advances(adjacency, d, [d EXCEPT !.stack = Front(@), !.cyclic = d.color[r] = 1])
<1> DEFINE again == d.color[r] = 1
           e == [d EXCEPT !.stack = Front(@), !.cyclic = again]
<1>1. d \in SearchType /\ d.stack \in Seq(Entries) /\ d.color \in [Records -> 0..2]
      /\ Sound(adjacency, d.color, d.stack)
  BY DEF SearchInv, SearchType
<1>2. Front(d.stack) \in Seq(Entries)
  BY <1>1, FrontIs
<1>3. again \in BOOLEAN
  OBVIOUS
<1> HIDE DEF again
<1>4. /\ e \in SearchType /\ e.color = d.color /\ e.stack = Front(d.stack)
      /\ e.cyclic = again
  BY <1>1, <1>2, <1>3 DEF SearchType
<1> HIDE DEF e
<1>5. CASE again
  <2>1. \E S \in SUBSET Records : Cycle(adjacency, S)
    BY <1>1, <1>5, MeetingCloses DEF again
  <2>2. e.cyclic
    BY <1>4, <1>5
  <2>3. Advances(adjacency, d, e)
    BY <1>4, <2>1, <2>2 DEF Advances, SearchInv, Over
  <2>4. QED
    BY <2>3 DEF e, again
<1>6. CASE ~again
  <2>1. d.color[r] = 2
    BY <1>1, <1>6 DEF again
  <2>2. Sound(adjacency, d.color, Front(d.stack))
    BY <1>1, <2>1, SkipIsSound
  <2>3. Len(d.stack) = 1 => d.stack[1][2]
    BY <1>1, <2>1 DEF Sound, RootInv
  <2>4. White(e) = White(d)
    BY <1>4 DEF White
  <2>5. Advances(adjacency, d, e)
    BY <1>4, <1>6, <2>2, <2>3, <2>4, PopAdvances
  <2>6. QED
    BY <2>5 DEF e, again
<1>7. QED
  BY <1>5, <1>6

\* A visit pushes what it is to visit.
LEMMA VisitPushes ==
  ASSUME NEW st \in Seq(Entries), Len(st) >= 1, NEW r \in Records, NEW next \in SUBSET Records
  PROVE  VisitLeaves(st, r, next, Cardinality(next),
                 Front(st) \o <<<<r, TRUE>>>> \o Unvisited(next))
<1> DEFINE n == Cardinality(next)  u == Unvisited(next)  L == Len(st)  e == <<r, TRUE>>
           new == Front(st) \o <<e>> \o u
<1>1. /\ u \in Seq(Entries) /\ Len(u) = n /\ n \in Nat
      /\ \A i \in 1..n : u[i][1] \in next /\ ~u[i][2]
      /\ \A t \in next : \E i \in 1..n : u[i][1] = t
  BY UnvisitedIs
<1>2. e \in Entries
  BY DEF Entries
<1>3. L \in Nat /\ L >= 1
  OBVIOUS
<1> HIDE DEF n, u, e
<1>4. new \in Seq(Entries) /\ Pushed(st, e, u, new)
  BY <1>1, <1>2, PushedIs
<1> HIDE DEF L, new
<1>6. /\ new \in Seq(Entries) /\ Len(new) = L + n
      /\ \A i \in 1..(L - 1) : new[i] = st[i]
      /\ new[L] = e
      /\ \A i \in 1..n : new[L + i] = u[i]
  BY <1>1, <1>4 DEF Pushed, L
<1>7. ASSUME NEW i \in (L + 1)..(L + n) PROVE ~new[i][2] /\ new[i][1] \in next
  <2>1. i - L \in 1..n /\ L + (i - L) = i
    BY <1>1, <1>3
  <2>2. new[i] = u[i - L]
    BY <1>6, <2>1
  <2>3. QED
    BY <1>1, <2>1, <2>2
<1>8. ASSUME NEW t \in next PROVE \E i \in (L + 1)..(L + n) : new[i][1] = t
  <2>1. PICK i \in 1..n : u[i][1] = t
    BY <1>1
  <2>2. L + i \in (L + 1)..(L + n)
    BY <1>1, <1>3
  <2>3. QED
    BY <1>6, <2>1, <2>2
<1>9. VisitLeaves(st, r, next, n, new)
  BY <1>1, <1>6, <1>7, <1>8, Zenon DEF VisitLeaves, L, e
<1>10. QED
  BY <1>9 DEF n, u, e, new

\* What is left to do after a visit, where w records are white of all, and n are pushed.
LEMMA VisitsCost ==
  ASSUME NEW all \in Nat, NEW w \in Nat, NEW n \in Nat, n <= w - 1, w <= all, NEW L \in Nat,
         NEW root \in 0..2
  PROVE  (w - 1) * (all + 3) + (L + n) - 0 < w * (all + 3) + L - root
<1> DEFINE total == w * (all + 3)  less == (w - 1) * (all + 3)
<1>1. \A a, b \in Int : (a - 1) * b = a * b - b /\ a * b \in Int
  OBVIOUS
<1>2. w \in Int /\ all + 3 \in Int
  OBVIOUS
<1>3. total \in Int /\ less = total - (all + 3)
  BY <1>1, <1>2
<1> HIDE DEF total, less
<1>4. less + (L + n) - 0 < total + L - root
  BY <1>3
<1>5. QED
  BY <1>4 DEF total, less

\* A record met for the first time.
LEMMA VisitAdvances ==
  ASSUME NEW adjacency \in [Records -> SUBSET Records], NEW d, SearchInv(adjacency, d),
         ~d.cyclic, Len(d.stack) >= 1, NEW r \in Records,
         d.stack[Len(d.stack)][1] = r, ~d.stack[Len(d.stack)][2], d.color[r] = 0
  PROVE  Advances(adjacency, d, Visit(adjacency, d, r))
<1> DEFINE e == Visit(adjacency, d, r)
           st == d.stack
           next == {t \in adjacency[r] : d.color[t] = 0 /\ t # r}
           n == Cardinality(next)
           new == Front(st) \o <<<<r, TRUE>>>> \o Unvisited(next)
           after == [d.color EXCEPT ![r] = 1]
           closes == \E t \in adjacency[r] : t = r \/ d.color[t] = 1
<1>1. d \in SearchType /\ st \in Seq(Entries) /\ d.color \in [Records -> 0..2]
      /\ Sound(adjacency, d.color, st) /\ Len(st) \in Nat
  BY DEF SearchInv, SearchType
<1>2. e = [color |-> after, stack |-> new, cyclic |-> closes]
  BY Zenon DEF Visit
<1>3. after \in [Records -> 0..2] /\ closes \in BOOLEAN
  BY <1>1
<1>4. /\ next \in SUBSET Records
      /\ \A t \in next : t \in adjacency[r] /\ t # r /\ d.color[t] = 0
      /\ \A t \in adjacency[r] : d.color[t] = 0 /\ t # r => t \in next
      /\ Len(st) >= 1 /\ st[Len(st)][1] = r /\ ~st[Len(st)][2]
  OBVIOUS
<1>5. new = Front(st) \o <<<<r, TRUE>>>> \o Unvisited(next)
  OBVIOUS
<1> HIDE DEF closes, e, new, after, next, st
<1>6. VisitLeaves(st, r, next, n, new)
  BY <1>1, <1>4, VisitPushes DEF new
<1>10. new \in Seq(Entries) /\ n \in Nat /\ Len(new) = Len(st) + n
  BY <1>6 DEF VisitLeaves
<1> HIDE DEF n
<1>7. e \in SearchType /\ e.color = after /\ e.stack = new /\ e.cyclic = closes
  BY <1>2, <1>3, <1>10 DEF SearchType
<1>8. CASE closes
  <2>1. \E S \in SUBSET Records : Cycle(adjacency, S)
    BY <1>1, <1>4, <1>8, VisitCloses DEF closes
  <2>2. e.cyclic
    BY <1>7, <1>8
  <2>3. Advances(adjacency, d, e)
    BY <1>7, <2>1, <2>2 DEF Advances, SearchInv, Over
  <2>4. QED
    BY <2>3 DEF e
<1>9. CASE ~closes
  <2>1. \A t \in adjacency[r] : t # r /\ d.color[t] # 1
    BY <1>9 DEF closes
  <2>2. next \in SUBSET adjacency[r] /\ \A t \in adjacency[r] : d.color[t] = 0 => t \in next
    BY <1>4, <2>1
  <2>3. Sound(adjacency, after, new)
    BY <1>1, <1>4, <1>6, <2>1, <2>2, VisitIsSound DEF after
  <2>4. SearchInv(adjacency, e)
    BY <1>7, <1>9, <2>3 DEF SearchInv
  <2> DEFINE W == White(d)  w == Cardinality(W)  all == Cardinality(Records)
             root == IF Len(st) = 1 /\ ~st[1][2] THEN 2 ELSE 0
  <2>5. White(e) = W \ {r} /\ r \in W /\ next \in SUBSET (W \ {r})
    <3>1. \A t \in Records : after[t] = 0 <=> t # r /\ d.color[t] = 0
      BY <1>1 DEF after
    <3>2. QED
      BY <1>4, <1>7, <3>1 DEF White
  <2>6. /\ all \in Nat /\ w \in Nat /\ w <= all /\ IsFiniteSet(W)
        /\ Cardinality(W \ {r}) = w - 1
    BY <1>1, <2>5, WhiteIs
  <2>7. n <= w - 1
    <3>1. W \ {r} \in SUBSET W
      OBVIOUS
    <3>2. IsFiniteSet(W \ {r})
      BY <2>6, <3>1, Parts
    <3>3. QED
      BY <2>5, <2>6, <3>2, Parts DEF n
  <2>8. Cost(d) = w * (all + 3) + Len(st) - root
    BY Zenon DEF Cost, st
  <2>9. ~(Len(new) = 1 /\ ~new[1][2])
    <3> SUFFICES ASSUME Len(new) = 1 PROVE new[1][2]
      OBVIOUS
    <3>1. Len(st) = 1
      BY <1>1, <1>4, <1>10
    <3>2. new[1] = <<r, TRUE>>
      BY <1>6, <3>1 DEF VisitLeaves
    <3>3. QED
      BY <3>2
  <2>10. Cost(e) = (w - 1) * (all + 3) + (Len(st) + n) - 0
    <3>1. Cardinality(White(e)) = w - 1
      BY <2>5, <2>6
    <3>2. Cost(e) = Cardinality(White(e)) * (all + 3) + Len(e.stack)
                    - (IF Len(e.stack) = 1 /\ ~e.stack[1][2] THEN 2 ELSE 0)
      BY Zenon DEF Cost
    <3> HIDE DEF w
    <3>3. QED
      BY <1>7, <1>10, <2>9, <3>1, <3>2, Zenon
  <2>11. root \in 0..2
    OBVIOUS
  <2> HIDE DEF w, all, W, root
  <2>12. Cost(e) < Cost(d)
    BY <1>1, <1>10, <2>6, <2>7, <2>8, <2>10, <2>11, VisitsCost
  <2>13. QED
    BY <2>4, <2>12 DEF Advances, e
<1>11. QED
  BY <1>8, <1>9

\* Every step of the search keeps it in order, and brings it nearer to its end.
LEMMA StepAdvances ==
  ASSUME NEW adjacency \in [Records -> SUBSET Records], NEW d, SearchInv(adjacency, d)
  PROVE  /\ SearchInv(adjacency, SearchStep(adjacency, d))
         /\ Over(d) => Over(SearchStep(adjacency, d))
         /\ Over(SearchStep(adjacency, d)) \/ Cost(SearchStep(adjacency, d)) < Cost(d)
<1> DEFINE e == SearchStep(adjacency, d)
           top == d.stack[Len(d.stack)]
<1>1. CASE Over(d)
  <2>1. e = d
    <3>1. CASE d.cyclic
      BY <3>1, Zenon DEF SearchStep
    <3>2. CASE ~d.cyclic /\ d.stack = <<>> /\ White(d) = {}
      BY <3>2, Zenon DEF SearchStep, Restart, White
    <3>3. QED
      BY <1>1, <3>1, <3>2 DEF Over
  <2> HIDE DEF e
  <2>2. QED
    BY <1>1, <2>1 DEF e
<1>2. CASE ~Over(d) /\ d.stack = <<>>
  <2>1. e = Restart(d) /\ ~d.cyclic /\ White(d) # {}
    BY <1>2, Zenon DEF SearchStep, Over
  <2>2. Advances(adjacency, d, Restart(d))
    BY <1>2, <2>1, RestartAdvances
  <2> HIDE DEF e
  <2>3. QED
    BY <1>2, <2>1, <2>2 DEF Advances, e
<1>3. CASE ~Over(d) /\ d.stack # <<>>
  <2>1. ~d.cyclic /\ d \in SearchType /\ d.stack \in Seq(Entries)
    BY <1>3 DEF Over, SearchInv, SearchType
  <2>2. Len(d.stack) \in Nat /\ Len(d.stack) >= 1 /\ top \in Entries
    BY <1>3, <2>1
  <2>3. top[1] \in Records
    BY <2>2 DEF Entries
  <2>4. Advances(adjacency, d, e)
    <3>1. CASE top[2]
      <4>1. e = Leave(d, top[1])
        BY <1>3, <2>1, <3>1, Zenon DEF SearchStep
      <4>2. Advances(adjacency, d, Leave(d, top[1]))
        BY <2>1, <2>2, <2>3, <3>1, LeaveAdvances
      <4> HIDE DEF e
      <4>3. QED
        BY <4>1, <4>2
    <3>2. CASE ~top[2] /\ d.color[top[1]] = 0
      <4>1. e = Visit(adjacency, d, top[1])
        BY <1>3, <2>1, <3>2, Zenon DEF SearchStep
      <4>2. Advances(adjacency, d, Visit(adjacency, d, top[1]))
        BY <2>1, <2>2, <2>3, <3>2, VisitAdvances
      <4> HIDE DEF e
      <4>3. QED
        BY <4>1, <4>2
    <3>3. CASE ~top[2] /\ d.color[top[1]] # 0
      <4>1. e = [d EXCEPT !.stack = Front(@), !.cyclic = d.color[top[1]] = 1]
        BY <1>3, <2>1, <3>3, Zenon DEF SearchStep
      <4>2. Advances(adjacency, d, [d EXCEPT !.stack = Front(@), !.cyclic = d.color[top[1]] = 1])
        BY <2>1, <2>2, <2>3, <3>3, MeetAdvances
      <4> HIDE DEF e
      <4>3. QED
        BY <4>1, <4>2, Zenon
    <3>4. QED
      BY <3>1, <3>2, <3>3
  <2> HIDE DEF e
  <2>5. QED
    BY <1>3, <2>4 DEF Advances, e
<1>4. QED
  BY <1>1, <1>2, <1>3

\* The search begins in order, with all that it has to do before it.
LEMMA SearchBegins ==
  ASSUME NEW adjacency \in [Records -> SUBSET Records]
  PROVE  SearchInv(adjacency, Search0) /\ Cost(Search0) = SearchBound /\ SearchBound \in Nat
<1> DEFINE d == Search0  N == Cardinality(Records)
<1>1. d \in SearchType /\ d.stack = <<>> /\ ~d.cyclic /\ \A r \in Records : d.color[r] = 0
  BY DEF Search0, SearchType
<1>2. Len(d.stack) = 0 /\ 1..0 = {}
  BY <1>1
<1> HIDE DEF d
<1>3. ActiveInv(d.color, d.stack)
  BY <1>1, <1>2 DEF ActiveInv
<1>4. ChainInv(adjacency, d.stack) /\ PendingInv(adjacency, d.color, d.stack) /\ RootInv(d.color, d.stack)
  BY <1>2 DEF ChainInv, PendingInv, RootInv
<1>5. DoneInv(adjacency, d.color)
  <2>1. {r \in Records : d.color[r] = 2} = {}
    BY <1>1
  <2>2. QED
    BY <1>1, <2>1 DEF DoneInv, Cycle
<1>6. SearchInv(adjacency, d)
  BY <1>1, <1>3, <1>4, <1>5 DEF SearchInv, Sound
<1>7. White(d) = Records /\ N \in Nat
  BY <1>1, WhiteIs DEF White
<1>8. N * (N + 3) \in Nat
  <2>1. \A a, b \in Nat : a * b \in Nat
    OBVIOUS
  <2> HIDE DEF N
  <2>2. N + 3 \in Nat
    BY <1>7
  <2>3. QED
    BY <1>7, <2>1, <2>2
<1>9. Cost(d) = N * (N + 3) + 0 - 0
  <2>1. Cost(d) = Cardinality(White(d)) * (N + 3) + Len(d.stack)
                  - (IF Len(d.stack) = 1 /\ ~d.stack[1][2] THEN 2 ELSE 0)
    BY Zenon DEF Cost
  <2>2. Len(d.stack) # 1
    BY <1>2
  <2>3. QED
    BY <1>2, <1>7, <2>1, <2>2, Zenon
<1> DEFINE all == N * (N + 3)
<1>10. SearchBound = all
  BY DEF SearchBound
<1> HIDE DEF all
<1>11. Cost(d) = all /\ all \in Nat
  <2>1. Cost(d) = all + 0 - 0 /\ all \in Nat
    BY <1>8, <1>9 DEF all
  <2>2. QED
    BY <2>1
<1>12. QED
  BY <1>6, <1>10, <1>11 DEF d

\* What a search costs is a number, and a search with nothing left to do is over.
LEMMA CostIs ==
  ASSUME NEW adjacency \in [Records -> SUBSET Records], NEW d, SearchInv(adjacency, d)
  PROVE  Cost(d) \in Int /\ (Cost(d) <= 0 => Over(d))
<1> DEFINE w == Cardinality(White(d))  N == Cardinality(Records)  total == w * (N + 3)
           L == Len(d.stack)  root == IF L = 1 /\ ~d.stack[1][2] THEN 2 ELSE 0
<1>1. d \in SearchType /\ d.stack \in Seq(Entries) /\ d.color \in [Records -> 0..2] /\ L \in Nat
  BY DEF SearchInv, SearchType
<1>2. w \in Nat /\ N \in Nat /\ (w = 0 => White(d) = {})
  BY <1>1, WhiteIs
<1>3. Cost(d) = total + L - root
  BY Zenon DEF Cost
<1>4. total \in Nat /\ (w = 0 => total = 0) /\ (w # 0 => total >= 3)
  <2>1. \A a, b \in Nat : a * b \in Nat
    OBVIOUS
  <2>2. \A a, b \in Nat : (a + 1) * b = a * b + b
    OBVIOUS
  <2> HIDE DEF w, N
  <2> DEFINE b == N + 3
  <2>3. b \in Nat /\ b >= 3
    BY <1>2
  <2> HIDE DEF b
  <2>4. w * b \in Nat
    BY <1>2, <2>1, <2>3
  <2>5. w = 0 => w * b = 0
    BY <2>3
  <2>6. ASSUME w # 0 PROVE w * b >= 3
    <3> DEFINE v == w - 1
    <3>1. v \in Nat /\ w = v + 1
      BY <1>2, <2>6
    <3> HIDE DEF v
    <3>2. v * b \in Nat /\ w * b = v * b + b
      BY <2>1, <2>2, <2>3, <3>1
    <3>3. QED
      BY <2>3, <3>2
  <2>7. QED
    BY <2>4, <2>5, <2>6 DEF b
<1>5. root \in Nat /\ root <= 2
  OBVIOUS
<1> HIDE DEF total
<1>6. Cost(d) \in Int
  BY <1>1, <1>3, <1>4, <1>5
<1>7. ASSUME ~d.cyclic, L >= 1, L = 1, ~d.stack[1][2] PROVE w # 0
  <2>1. d.color[d.stack[1][1]] = 0 /\ d.stack[1][1] \in Records
    BY <1>1, <1>7 DEF SearchInv, Sound, RootInv, Entries
  <2>2. d.stack[1][1] \in White(d)
    BY <2>1 DEF White
  <2>3. QED
    BY <1>1, <2>2, WhiteIs, FS_EmptySet
<1>8. ASSUME Cost(d) <= 0, ~d.cyclic PROVE d.stack = <<>> /\ White(d) = {}
  <2>1. CASE L = 0
    <3>1. d.stack = <<>>
      BY <1>1, <2>1
    <3>2. root = 0
      BY <2>1
    <3> HIDE DEF w, L, root
    <3>3. total <= 0
      BY <1>3, <1>4, <1>8, <2>1, <3>2
    <3>4. QED
      BY <1>2, <1>4, <3>1, <3>3
  <2>2. CASE L >= 1 /\ L = 1 /\ ~d.stack[1][2]
    <3>1. w # 0
      BY <1>7, <1>8, <2>2
    <3> HIDE DEF w, L, root
    <3>2. QED
      BY <1>1, <1>3, <1>4, <1>5, <1>8, <2>2, <3>1
  <2>3. CASE L >= 1 /\ ~(L = 1 /\ ~d.stack[1][2])
    <3>1. root = 0
      BY <2>3
    <3> HIDE DEF w, L, root
    <3>2. QED
      BY <1>1, <1>3, <1>4, <1>8, <2>3, <3>1
  <2>4. QED
    BY <1>1, <2>1, <2>2, <2>3
<1>9. QED
  BY <1>6, <1>8 DEF Over

\* The states of a search, one after each number of its steps.
Searches(adjacency, after) ==
  /\ DOMAIN after = 0..SearchBound
  /\ after[0] = {Search0}
  /\ \A n \in 1..SearchBound : after[n] = {SearchStep(adjacency, d) : d \in after[n - 1]}

\* There is such a sequence, and the audit's answer is its last state's.
LEMMA SearchExists ==
  ASSUME NEW adjacency \in [Records -> SUBSET Records]
  PROVE  \E after : /\ Searches(adjacency, after)
                    /\ HasSupersessionCycle(adjacency) <=> \E d \in after[SearchBound] : d.cyclic
<1> DEFINE Good == {d \in SearchType : SearchInv(adjacency, d)}
           X == SUBSET Good
           next == [i \in 1..SearchBound |-> [s \in X |-> {SearchStep(adjacency, d) : d \in s}]]
<1>1. Search0 \in Good /\ SearchBound \in Nat
  BY SearchBegins DEF SearchInv
<1>2. \A d \in Good : SearchStep(adjacency, d) \in Good
  BY StepAdvances DEF SearchInv
<1> HIDE DEF Good
<1>3. next \in [1..SearchBound -> [X -> X]]
  BY <1>2
<1>4. {Search0} \in X
  BY <1>1
<1>5. \A i \in 1..SearchBound, s \in X : next[i][s] = {SearchStep(adjacency, d) : d \in s}
  OBVIOUS
<1> HIDE DEF X, next
<1>6. MayStep(SearchBound, X, {Search0}, next)
  BY <1>1, <1>3, <1>4 DEF MayStep
<1>7. PICK g : Leads(SearchBound, X, {Search0}, next, g)
  BY <1>6, LeadsExist
<1>8. /\ g \in [0..SearchBound -> X] /\ g[0] = {Search0}
      /\ \A i \in 1..SearchBound : g[i] = next[i][g[i - 1]]
  BY <1>7 DEF Leads
<1> DEFINE Is(after) == after = [n \in 0..SearchBound |->
             IF n = 0 THEN {Search0} ELSE {SearchStep(adjacency, d) : d \in after[n - 1]}]
<1>9. \A n \in 0..SearchBound :
        g[n] = IF n = 0 THEN {Search0} ELSE {SearchStep(adjacency, d) : d \in g[n - 1]}
  <2> SUFFICES ASSUME NEW n \in 0..SearchBound, n # 0
               PROVE  g[n] = {SearchStep(adjacency, d) : d \in g[n - 1]}
    BY <1>8
  <2>1. n \in 1..SearchBound /\ n - 1 \in 0..SearchBound
    BY <1>1
  <2>2. g[n - 1] \in X
    BY <1>8, <2>1
  <2>3. QED
    BY <1>5, <1>8, <2>1, <2>2, Zenon
<1>10. Is(g)
  <2>1. g = [n \in 0..SearchBound |-> g[n]]
    BY <1>8
  <2>2. QED
    BY <1>9, <2>1
<1> DEFINE after == CHOOSE f : Is(f)
<1>11. Is(after)
  BY <1>10, Zenon
<1>12. HasSupersessionCycle(adjacency) <=> \E d \in after[SearchBound] : d.cyclic
  BY Zenon DEF HasSupersessionCycle
<1> HIDE DEF after
<1>13. /\ DOMAIN after = 0..SearchBound
       /\ \A n \in 0..SearchBound : after[n] =
            IF n = 0 THEN {Search0} ELSE {SearchStep(adjacency, d) : d \in after[n - 1]}
  BY <1>11, Zenon
<1>14. after[0] = {Search0}
  <2>1. 0 \in 0..SearchBound
    BY <1>1
  <2>2. QED
    BY <1>13, <2>1, Zenon
<1>15. ASSUME NEW n \in 1..SearchBound
       PROVE  after[n] = {SearchStep(adjacency, d) : d \in after[n - 1]}
  <2>1. n \in 0..SearchBound /\ n # 0
    BY <1>1
  <2>2. QED
    BY <1>13, <2>1, Zenon
<1>16. QED
  BY <1>12, <1>13, <1>14, <1>15, Zenon DEF Searches

\* Each step of a search is in order, and the search is over in time.
LEMMA SearchEnds ==
  ASSUME NEW adjacency \in [Records -> SUBSET Records], NEW after, Searches(adjacency, after)
  PROVE  \E d : after[SearchBound] = {d} /\ SearchInv(adjacency, d) /\ Over(d)
<1> DEFINE InTime(n, d) == /\ after[n] = {d} /\ SearchInv(adjacency, d)
                           /\ Over(d) \/ Cost(d) <= SearchBound - n
           Good == {n \in Nat : \E d : InTime(n, d)}
<1>1. SearchBound \in Nat
  BY SearchBegins
<1>2. 0 \in Good
  <2>1. InTime(0, Search0)
    BY SearchBegins DEF Searches
  <2>2. QED
    BY <2>1
<1>3. ASSUME NEW n \in Nat, n < SearchBound, n \in Good PROVE n + 1 \in Good
  <2>1. PICK d : /\ after[n] = {d} /\ SearchInv(adjacency, d)
                 /\ Over(d) \/ Cost(d) <= SearchBound - n
    BY <1>3
  <2> DEFINE e == SearchStep(adjacency, d)
  <2>2. /\ SearchInv(adjacency, e)
        /\ Over(d) => Over(e)
        /\ Over(e) \/ Cost(e) < Cost(d)
    BY <2>1, StepAdvances
  <2>3. Cost(d) \in Int /\ Cost(e) \in Int
    <3> HIDE DEF e
    <3>1. QED
      BY <2>1, <2>2, CostIs
  <2>4. after[n + 1] = {e}
    <3>1. n + 1 \in 1..SearchBound /\ (n + 1) - 1 = n
      BY <1>1, <1>3
    <3>2. after[n + 1] = {SearchStep(adjacency, c) : c \in after[n]}
      BY <3>1, Zenon DEF Searches
    <3>3. QED
      BY <2>1, <3>2, Zenon
  <2> HIDE DEF e
  <2>5. Over(e) \/ Cost(e) <= SearchBound - (n + 1)
    BY <1>1, <1>3, <2>1, <2>2, <2>3
  <2>6. InTime(n + 1, e)
    BY <2>2, <2>4, <2>5
  <2>7. QED
    BY <2>6
<1>4. 0..SearchBound \subseteq Good
  <2> HIDE DEF Good
  <2>1. QED
    BY <1>1, <1>2, <1>3, UpTo
<1>5. SearchBound \in 0..SearchBound /\ SearchBound - SearchBound = 0
  BY <1>1
<1>6. PICK d : InTime(SearchBound, d)
  BY <1>4, <1>5
<1>7. Over(d)
  BY <1>5, <1>6, CostIs
<1>8. QED
  BY <1>6, <1>7

\* The search finds a cycle exactly if there is one.
LEMMA SearchFinds ==
  ASSUME NEW adjacency \in [Records -> SUBSET Records]
  PROVE  HasSupersessionCycle(adjacency) <=> \E S \in SUBSET Records : Cycle(adjacency, S)
<1>1. PICK after : /\ Searches(adjacency, after)
                   /\ HasSupersessionCycle(adjacency) <=> \E d \in after[SearchBound] : d.cyclic
  BY SearchExists
<1>2. PICK d : after[SearchBound] = {d} /\ SearchInv(adjacency, d) /\ Over(d)
  BY <1>1, SearchEnds
<1>3. HasSupersessionCycle(adjacency) <=> d.cyclic
  BY <1>1, <1>2, Zenon
<1>4. d.cyclic => \E S \in SUBSET Records : Cycle(adjacency, S)
  BY <1>2 DEF SearchInv
<1>5. ASSUME ~d.cyclic PROVE \A S \in SUBSET Records : ~Cycle(adjacency, S)
  <2>1. /\ d.stack = <<>> /\ White(d) = {} /\ Sound(adjacency, d.color, d.stack)
        /\ d.color \in [Records -> 0..2]
    BY <1>2, <1>5 DEF Over, SearchInv, SearchType
  <2>2. \A r \in Records : d.color[r] # 1
    <3>1. 1..Len(d.stack) = {}
      BY <2>1
    <3>2. QED
      BY <2>1, <3>1 DEF Sound, ActiveInv
  <2>3. \A r \in Records : d.color[r] = 2
    <3> DEFINE c == d.color
    <3>1. \A r \in Records : c[r] # 0 /\ c[r] # 1
      BY <2>1, <2>2 DEF White
    <3>2. c \in [Records -> 0..2]
      BY <2>1
    <3> HIDE DEF c
    <3>3. ASSUME NEW r \in Records PROVE c[r] = 2
      <4>1. c[r] \in 0..2 /\ c[r] # 0 /\ c[r] # 1
        BY <3>1, <3>2
      <4>2. QED
        BY <4>1
    <3>4. QED
      BY <3>3 DEF c
  <2>4. QED
    BY <2>1, <2>3 DEF Sound, DoneInv
<1>6. QED
  BY <1>3, <1>4, <1>5

\* Whenever a batch is about to be audited, whatever the records on disk were to
\* supersede, the search of the audit answers in time, and finds a cycle exactly if
\* there is one.
THEOREM CyclesAlwaysFound == Spec => []CyclesAreFound
<1>1. CyclesAreFound
  <2> DEFINE present == DOMAIN Load(store)
             Cyclic(links) == \E S \in (SUBSET present) \ {{}} : \A r \in S : links[r] \cap S # {}
             All(links) == [r \in Records |-> IF r \in present THEN links[r] ELSE {}]
  <2>1. present \in SUBSET Records
    BY DEF Load
  <2> HIDE DEF present
  <2>2. ASSUME NEW links \in [present -> SUBSET present]
        PROVE  HasSupersessionCycle(All(links)) <=> Cyclic(links)
    <3> DEFINE adjacency == All(links)
    <3>1. adjacency \in [Records -> SUBSET Records]
      BY <2>1
    <3>2. /\ \A r \in present : adjacency[r] = links[r]
          /\ \A r \in Records : r \notin present => adjacency[r] = {}
      BY <2>1
    <3> HIDE DEF adjacency
    <3>3. HasSupersessionCycle(adjacency) <=> \E S \in SUBSET Records : Cycle(adjacency, S)
      BY <3>1, SearchFinds
    <3>4. ASSUME NEW S \in SUBSET Records, Cycle(adjacency, S) PROVE Cyclic(links)
      <4>1. S # {} /\ \A r \in S : adjacency[r] \cap S # {}
        BY <3>4 DEF Cycle
      <4>2. S \in SUBSET present
        BY <3>2, <4>1
      <4>3. QED
        BY <3>2, <4>1, <4>2
    <3>5. ASSUME Cyclic(links) PROVE \E S \in SUBSET Records : Cycle(adjacency, S)
      <4>1. PICK S \in (SUBSET present) \ {{}} : \A r \in S : links[r] \cap S # {}
        BY <3>5
      <4>2. S \in SUBSET present /\ S \in SUBSET Records /\ S # {}
        BY <2>1
      <4>3. \A r \in S : adjacency[r] = links[r]
        BY <3>2, <4>2
      <4>4. \A r \in S : adjacency[r] \cap S # {}
        BY <4>1, <4>3, Zenon
      <4>5. QED
        BY <4>2, <4>4 DEF Cycle
    <3>6. QED
      BY <3>3, <3>4, <3>5 DEF adjacency
  <2>3. QED
    BY <2>2, Zenon DEF CyclesAreFound, present
<1>2. QED
  BY <1>1, PTL
=============================================================================
