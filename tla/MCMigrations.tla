---------------------------- MODULE MCMigrations ----------------------------
EXTENDS Migrations, TLC

CONSTANTS r1, r2, l1, n1, v1, m1, p1

TwoRecords == {r1, r2}
ThreeValues == {l1, n1, v1}
OneLegacy == {l1}
NewForm == (l1 :> n1)
OneMigrator == {m1}

\* v1 in the first record refers to the second one.
CurrentStores ==
  {s \in Stores : (\A r \in Records : s[r] # l1) /\ (s[r1] = v1 => s[r2] # Absent)}

Put(x, y, overwrite) ==
  [writes |-> (r1 :> x @@ r2 :> y), overwrite |-> overwrite, guarded |-> FALSE,
   expected |-> (r1 :> Absent @@ r2 :> Absent)]

\* One record, both, and a new one only.
ThreeRequests == {Put(v1, Absent, TRUE), Put(v1, v1, TRUE), Put(Absent, n1, FALSE)}
=============================================================================
