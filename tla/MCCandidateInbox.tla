--------------------------- MODULE MCCandidateInbox ---------------------------
EXTENDS CandidateInbox, TLC

CONSTANTS r1, r2, v1, v2, c1, c2, w1, w2

TwoRecords == {r1, r2}
TwoValues == {v1, v2}

\* v2 in the first record refers to the second one.
ReferringStores == {s \in Stores : s[r1] = v2 => s[r2] # Absent}

Create == [record |-> r1, value |-> v1, operation |-> "create", expected |-> Absent]
Update == [record |-> r1, value |-> v2, operation |-> "update", expected |-> v1]

Put(r, v) ==
  [writes |-> [q \in Records |-> IF q = r THEN v ELSE Absent], overwrite |-> TRUE,
   guarded |-> FALSE, expected |-> [q \in Records |-> Absent]]

TwoProposals == {Create, Update}
Puts == {Put(r1, v1), Put(r1, v2), Put(r2, v1)}
AllBatches == Puts \cup {PromotionBatch(p) : p \in TwoProposals}
              \cup {PromotionBatch_Overwrite(p) : p \in TwoProposals}
=============================================================================
