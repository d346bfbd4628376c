--------------------------- MODULE MCMutationPlans ---------------------------
EXTENDS MutationPlans, TLC

CONSTANTS r1, r2, v1, v2, p1, p2, a1, a2, w1, w2, x1,
          m1, t1, m2, t2, m3, t3, k1, d1, e1, q1, h1, c1

TwoRecords == {r1, r2}
TwoValues == {v1, v2}

\* v2 in the first record refers to the second one.
ReferringStores == {s \in Stores : s[r1] = v2 => s[r2] # Absent}

AllDocIds == {m1, t1, m2, t2, m3, t3, k1, d1, e1, q1, h1, c1}

Task(t, m, deps) == [id |-> t, kind |-> "task", manifest |-> m, dependencies |-> deps]
Manifest(m, t) == [id |-> m, kind |-> "input_manifest", task |-> t]
Worker == [id |-> k1, kind |-> "worker"]
Receipt(m) == [id |-> d1, kind |-> "execution_receipt", task |-> t1, worker |-> k1,
               manifest |-> m, context |-> x1]
Evaluation(o) == [id |-> e1, kind |-> "evaluation", receipt |-> d1, outcome |-> o]

\* Work for one task and its worker, overlapping submissions of its receipt, two
\* evaluations under one id, a receipt of other inputs, and a task that waits
\* for one that waits for it.
Work == {Task(t1, m1, {}), Manifest(m1, t1), Worker}
Cycle == {Task(t2, m2, {t1, t3}), Manifest(m2, t2), Task(t3, m3, {t2}), Manifest(m3, t3)}
Executions ==
  {Work, Work \cup {Receipt(Manifest(m1, t1))},
   {Receipt(Manifest(m1, t1)), Evaluation("pass")}, {Evaluation("fail")},
   {Receipt(Manifest(m2, t2))}, Cycle}

Asked(s) == [id |-> q1, kind |-> "work_request", status |-> s]
Handoff == [id |-> h1, kind |-> "handoff", request |-> q1]
Acceptance(o) == [id |-> c1, kind |-> "acceptance", request |-> q1, handoff |-> h1,
                  outcome |-> o]
Works == {{Asked("ready"), Handoff}, {Handoff, Acceptance("rejected")},
          {Acceptance("accepted")}}

BothLedgers == [l \in Ledgers |-> IF l = "orchestration" THEN Executions ELSE Works]

Put(x, y, guarded, e, f) ==
  [writes |-> (r1 :> x @@ r2 :> y), overwrite |-> TRUE, guarded |-> guarded,
   expected |-> (r1 :> e @@ r2 :> f)]

Body(rq) == [receipt |-> d1, evaluation |-> e1, context |-> x1, batch |-> rq]
TwoBodies == {Body(Put(v2, v1, TRUE, v1, Absent)), Body(Put(v1, Absent, TRUE, Absent, Absent))}
Puts == {Put(v1, Absent, FALSE, Absent, Absent), Put(v1, v2, FALSE, Absent, Absent)}
AllBatches == Puts \cup {b.batch : b \in TwoBodies}
=============================================================================
