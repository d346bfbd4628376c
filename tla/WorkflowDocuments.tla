-------------------------- MODULE WorkflowDocuments --------------------------
(***************************************************************************)
(* The documents of the workflow ledger and what audit_workflow            *)
(* (workflow/ledger.py) demands of a set of them.  Roles are configured    *)
(* ones: the schema of a document and its roles are part of its type.      *)
(***************************************************************************)
CONSTANT DocIds

WorkStatuses == {"proposed", "approved", "in_progress", "ready", "accepted", "rejected"}
WorkRequestType == [id : DocIds, kind : {"work_request"}, status : WorkStatuses]
HandoffType == [id : DocIds, kind : {"handoff"}, request : DocIds]
AcceptanceType == [id : DocIds, kind : {"acceptance"}, request : DocIds,
                   handoff : DocIds,
                   outcome : {"accepted", "changes_requested", "rejected"}]
WorkflowDocument == WorkRequestType \cup HandoffType \cup AcceptanceType

Requested(D) == {d \in D : d.kind = "work_request"}
Handoffs(D) == {d \in D : d.kind = "handoff"}
Acceptances(D) == {d \in D : d.kind = "acceptance"}

HandoffsHaveRequests(D) ==
  \A h \in Handoffs(D) : \E q \in Requested(D) : q.id = h.request

\* An acceptance decides a handoff of its own request.
AcceptancesHaveHandoffs(D) ==
  \A a \in Acceptances(D) :
    \E h \in Handoffs(D), q \in Requested(D) :
      h.id = a.handoff /\ q.id = a.request /\ h.request = a.request

\* A handoff is decided once.
DecidedOnce(D) ==
  \A a, b \in Acceptances(D) : a.handoff = b.handoff => a = b

HandedOff(D, q) == {h \in Handoffs(D) : h.request = q.id}
IsAccepted(D, q) ==
  \E h \in HandedOff(D, q), a \in Acceptances(D) :
    a.handoff = h.id /\ a.outcome = "accepted"

\* What a request says of itself is what its handoffs and acceptances say.
StatusesAgree(D) ==
  \A q \in Requested(D) :
    /\ q.status \in {"ready", "accepted"} => HandedOff(D, q) # {}
    /\ q.status = "accepted" <=> IsAccepted(D, q)

WorkflowOK(D) ==
  /\ \A d, e \in D : d.id = e.id => d = e
  /\ HandoffsHaveRequests(D) /\ AcceptancesHaveHandoffs(D)
  /\ DecidedOnce(D) /\ StatusesAgree(D)
=============================================================================
