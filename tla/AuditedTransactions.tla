------------------------- MODULE AuditedTransactions -------------------------
(***************************************************************************)
(* Record transactions with the audit that guards their commits: what the  *)
(* two together promise of the facts in the store.                         *)
(***************************************************************************)
EXTENDS RecordTransactions, RepositoryAudit

\* put_records audits what it is about to commit, under the policy that init
\* writes into a new project.
ASSUME GuardAssumption ==
  /\ Legal = AuditedStores
  /\ RequireReciprocal /\ DetectConflicts

\* Two current facts never claim different objects under one key, whatever
\* batches ran, failed, died or were recovered, with an open one undone.  The
\* audit looks for less: it compares one fact of a group with the others, and
\* forgives a conflict between facts of which one supersedes the other.
FactsAgree ==
  LET records == Load(Logical) IN
  \A a, b \in Current(records) :
    records[a].claim.key = records[b].claim.key =>
      records[a].claim.object = records[b].claim.object

\* The search for cycles finds one exactly if there is one, a set of records of
\* which each supersedes another: whatever the records on disk, which a batch is
\* about to have audited, were to supersede.
CyclesAreFound ==
  pc = "apply" /\ left = {} =>
    LET present == DOMAIN Load(store) IN
    \A links \in [present -> SUBSET present] :
      LET adjacency == [r \in Records |-> IF r \in present THEN links[r] ELSE {}] IN
      HasSupersessionCycle(adjacency) <=>
        \E S \in (SUBSET present) \ {{}} : \A r \in S : links[r] \cap S # {}
=============================================================================
