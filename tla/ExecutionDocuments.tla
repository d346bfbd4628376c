-------------------------- MODULE ExecutionDocuments --------------------------
(***************************************************************************)
(* The documents of the orchestration ledger and what audit_execution      *)
(* (orchestration/graph.py) demands of a set of them.  A digest is equal   *)
(* exactly when its contents are: a receipt carries the manifest itself.   *)
(***************************************************************************)
EXTENDS FiniteSets, Sequences

CONSTANTS
  DocIds,    \* document ids, of both ledgers
  Contexts   \* digests of compiled context bundles

TaskType == [id : DocIds, kind : {"task"}, manifest : DocIds, dependencies : SUBSET DocIds]
ManifestType == [id : DocIds, kind : {"input_manifest"}, task : DocIds]
WorkerType == [id : DocIds, kind : {"worker"}]
ReceiptType == [id : DocIds, kind : {"execution_receipt"}, task : DocIds,
                worker : DocIds, manifest : ManifestType, context : Contexts]
EvaluationType == [id : DocIds, kind : {"evaluation"}, receipt : DocIds,
                   outcome : {"pass", "fail", "needs_review"}]
ExecutionDocument ==
  TaskType \cup ManifestType \cup WorkerType \cup ReceiptType \cup EvaluationType

OfKind(D, k) == {d \in D : d.kind = k}
IdsOf(D) == {d.id : d \in D}

\* Ids name documents: no two of a set share one.
Unique(D) == \A d, e \in D : d.id = e.id => d = e

-----------------------------------------------------------------------------
(* Task graphs                                                             *)

\* topological_order: again and again a task none of whose dependencies is left.
\* It stops early, at a cycle, when every task left waits for another.  Which of
\* the ready tasks goes first (the least id) does not matter here.  The mutant
\* takes a task as soon as one of its dependencies is done.
TopologicalOrder_AnyDependency(T) ==
  LET order[left \in SUBSET T] ==
        LET ready == {t \in left : t.dependencies = {}
                                   \/ \E u \in T \ left : u.id \in t.dependencies} IN
        IF ready = {} THEN <<>>
        ELSE LET t == CHOOSE t \in ready : TRUE IN <<t>> \o order[left \ {t}]
  IN order[T]

TopologicalOrder(T) ==
  LET order[left \in SUBSET T] ==
        LET ready == {t \in left : t.dependencies \cap IdsOf(left) = {}} IN
        IF ready = {} THEN <<>>
        ELSE LET t == CHOOSE t \in ready : TRUE IN <<t>> \o order[left \ {t}]
  IN order[T]

Ordered(T) ==
  /\ \A t \in T : t.dependencies \subseteq IdsOf(T)
  /\ Len(TopologicalOrder(T)) = Cardinality(T)

-----------------------------------------------------------------------------
(* audit_execution                                                         *)

TasksHaveManifests(D) ==
  \A t \in OfKind(D, "task") :
    \E m \in OfKind(D, "input_manifest") : m.id = t.manifest /\ m.task = t.id

ManifestsHaveTasks(D) ==
  \A m \in OfKind(D, "input_manifest") : m.task \in IdsOf(OfKind(D, "task"))

\* A receipt is of a known task and worker, and of the inputs its task has.
ReceiptsHaveSources(D) ==
  \A r \in OfKind(D, "execution_receipt") :
    /\ r.worker \in IdsOf(OfKind(D, "worker"))
    /\ r.task \in IdsOf(OfKind(D, "task"))
    /\ \A t \in OfKind(D, "task"), m \in OfKind(D, "input_manifest") :
         t.id = r.task /\ m.id = t.manifest => r.manifest = m

EvaluationsHaveReceipts(D) ==
  \A e \in OfKind(D, "evaluation") :
    e.receipt \in IdsOf(OfKind(D, "execution_receipt"))

ExecutionOK(D) ==
  /\ Unique(D)
  /\ Ordered(OfKind(D, "task"))
  /\ TasksHaveManifests(D) /\ ManifestsHaveTasks(D)
  /\ ReceiptsHaveSources(D)
  /\ EvaluationsHaveReceipts(D)
=============================================================================
