----------------------------- MODULE AtomicStore -----------------------------
(***************************************************************************)
(* What put_records promises its callers, with no files, journals, locks   *)
(* or crashes in sight: a store of records changed by batches.  A batch    *)
(* submitted under a transaction id takes effect whole and at most once,   *)
(* only on contents its preconditions describe, and only if the outcome is *)
(* one the repository audit accepts; or it is dropped without a trace.     *)
(***************************************************************************)
EXTENDS RecordBatches

CONSTANT Ids  \* transaction ids

Effect(s, rq) ==
  [r \in Records |-> IF r \in Touched(rq) THEN rq.writes[r] ELSE s[r]]

\* New records are new unless overwriting is asked for, and every revision the
\* caller expects is the current one.
Admissible(s, rq) ==
  \A r \in Touched(rq) :
    /\ s[r] = Absent \/ rq.overwrite
    /\ rq.guarded => s[r] = rq.expected[r]

VARIABLES
  contents,  \* what the store holds
  outcome    \* what became of each transaction id, and for which request

Outcomes == [state : {"unused", "applied", "dropped"},
             request : Requests \cup {NoRequest}]
Unused == [state |-> "unused", request |-> NoRequest]

Init ==
  /\ contents \in Legal
  /\ outcome = [t \in Ids |-> Unused]

Apply(t, rq) ==
  /\ outcome[t] = Unused
  /\ Admissible(contents, rq)
  /\ outcome' = [outcome EXCEPT ![t] = [state |-> "applied", request |-> rq]]
  /\ contents' = Effect(contents, rq)
  /\ contents' \in Legal

Drop(t, rq) ==
  /\ outcome[t] = Unused
  /\ outcome' = [outcome EXCEPT ![t] = [state |-> "dropped", request |-> rq]]
  /\ UNCHANGED contents

Next == \E t \in Ids, rq \in Requests : Apply(t, rq) \/ Drop(t, rq)

Spec == Init /\ [][Next]_<<contents, outcome>>
=============================================================================
