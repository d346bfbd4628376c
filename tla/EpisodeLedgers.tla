---------------------------- MODULE EpisodeLedgers ----------------------------
(***************************************************************************)
(* The append-only evidence of continuity/store.py: compiled contexts, and *)
(* the orchestration and workflow ledgers.  A ledger is a directory of     *)
(* episodes, each one file with the documents that were new when it was    *)
(* appended, named by their digest.  Every operation is one critical       *)
(* section of the writer lock with one atomic write, so it is one action.  *)
(***************************************************************************)
EXTENDS ExecutionDocuments, Naturals

CONSTANT Submissions  \* the episodes that callers submit to each ledger

W == INSTANCE WorkflowDocuments

Ledgers == {"orchestration", "workflow"}
Document(l) == IF l = "orchestration" THEN ExecutionDocument ELSE W!WorkflowDocument

ASSUME LedgerAssumption ==
  \A l \in Ledgers :
    /\ Submissions[l] \subseteq SUBSET Document(l)
    /\ \A batch \in Submissions[l] : IsFiniteSet(batch)

VARIABLES
  contexts,  \* the stored context bundles
  episodes   \* the episodes of each ledger

evidence == <<contexts, episodes>>

EvidenceTypeOK ==
  /\ contexts \subseteq Contexts
  /\ episodes \in [Ledgers -> SUBSET SUBSET (ExecutionDocument \cup W!WorkflowDocument)]

EvidenceInit ==
  /\ contexts = {}
  /\ episodes = [l \in Ledgers |-> {}]

Stored(l) == UNION episodes[l]

\* _receipt_context_errors: receipts that persist have their context stored.
ReceiptsHaveContexts(D) ==
  \A r \in OfKind(D, "execution_receipt") : r.context \in contexts

Audited(l, D) ==
  IF l = "orchestration" THEN ExecutionOK(D) /\ ReceiptsHaveContexts(D)
  ELSE W!WorkflowOK(D)

\* A bundle is stored once; storing it again finds it there.
StoreContext(x) ==
  /\ x \notin contexts
  /\ contexts' = contexts \cup {x}
  /\ UNCHANGED episodes

\* _append_episode: a document known under its id must be that document, the
\* ledger with the new ones must pass its audit, and only the new ones are
\* written.  If there are none, the call answers with an episode and writes
\* nothing.  The mutant writes what it was given.
AppendEpisode_Whole(l, batch) ==
  /\ ~(batch \subseteq Stored(l))
  /\ Unique(Stored(l) \cup batch)
  /\ Audited(l, Stored(l) \cup batch)
  /\ episodes' = [episodes EXCEPT ![l] = @ \cup {batch}]
  /\ UNCHANGED contexts

AppendEpisode(l, batch) ==
  /\ ~(batch \subseteq Stored(l))
  /\ Unique(Stored(l) \cup batch)
  /\ Audited(l, Stored(l) \cup batch)
  /\ episodes' = [episodes EXCEPT ![l] = @ \cup {batch \ Stored(l)}]
  /\ UNCHANGED contexts

EvidenceNext ==
  \/ \E x \in Contexts : StoreContext(x)
  \/ \E l \in Ledgers : \E batch \in Submissions[l] : AppendEpisode(l, batch)

-----------------------------------------------------------------------------
(* Properties                                                              *)

\* What audit_continuity reads back is in order, however submissions overlap
\* and repeat: each document is in one episode, and each ledger as a whole
\* passes its audit.
LedgersPassAudit ==
  \A l \in Ledgers :
    /\ Audited(l, Stored(l))
    /\ \A e, f \in episodes[l] : e # f => e \cap f = {}

\* The order of the tasks that an audit reports has every task once, after
\* everything it depends on.
TasksAreOrdered ==
  LET tasks == OfKind(Stored("orchestration"), "task")
      order == TopologicalOrder(tasks) IN
  /\ {order[i] : i \in DOMAIN order} = tasks
  /\ \A i, j \in DOMAIN order :
       /\ order[i] = order[j] => i = j
       /\ order[i].id \in order[j].dependencies => i < j
=============================================================================
