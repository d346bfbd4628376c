------------------------ MODULE MCRecordTransactions ------------------------
EXTENDS AuditedTransactions, TLC

CONSTANTS f1, f2, st, old, superseded, rival, successor, now, k1, t1

ThreeRecords == {f1, f2, st}
Kind == (f1 :> "fact" @@ f2 :> "fact" @@ st :> "state")
TwoClaims == [key : {"owner"}, object : {"alice", "bob"}]
Claim(object) == [key |-> "owner", object |-> object]
Terms == [volatile |-> 7]

Fact(r, status, object) ==
  [id |-> r, kind |-> "fact", classification |-> "internal", role |-> "lead",
   references |-> {}, items |-> {}, status |-> status, supersedes |-> {},
   superseded_by |-> None, fact_class |-> "volatile", verified_at |-> 1,
   review_after |-> None, claim |-> Claim(object)]

Old == Fact(f1, "verified", "alice")
Rival == Fact(f2, "verified", "bob")
Status == [Fact(st, "current", "alice") EXCEPT
             !.kind = "state", !.claim = None, !.verified_at = None]

FiveValues == {old, superseded, rival, successor, now}

\* The first fact, before and after the second one supersedes it.  The second one,
\* contradicting the first and superseding it.
Contained ==
  old :> Old
  @@ superseded :> [Old EXCEPT !.status = "deprecated", !.superseded_by = f2]
  @@ rival :> Rival
  @@ successor :> [Rival EXCEPT !.supersedes = {f1}]
  @@ now :> Status

Batch(w1, w2, overwrite, guarded, e1, e2) ==
  [writes |-> (f1 :> w1 @@ f2 :> w2 @@ st :> Absent), overwrite |-> overwrite,
   guarded |-> guarded, expected |-> (f1 :> e1 @@ f2 :> e2 @@ st :> Absent)]

\* Both facts; a new one, which must not contradict the other; half a link.
Supersede == Batch(superseded, successor, TRUE, FALSE, Absent, Absent)
AssertNew == Batch(Absent, rival, TRUE, TRUE, Absent, Absent)
HalfLink  == Batch(Absent, successor, FALSE, FALSE, Absent, Absent)

Batches == {Supersede, AssertNew, HalfLink}

\* The accepted stores, enumerated from those that hold each value under its own id.
OwnValues ==
  {f1 :> x @@ f2 :> y @@ st :> now :
     x \in {Absent, old, superseded}, y \in {Absent, rival, successor}}
Readings == {[store |-> s, records |-> Load(s)] : s \in OwnValues}
LegalStores == {x.store : x \in {y \in Readings : Audited(y.records)}}
=============================================================================
