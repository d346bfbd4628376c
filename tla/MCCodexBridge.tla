---------------------------- MODULE MCCodexBridge ----------------------------
(* A fact, a decision about it and the current state, with and without a   *)
(* fact that contradicts it; two sessions, one of them with an effect that *)
(* needs a human; and reports that share a receipt id.                     *)
EXTENDS CodexBridge, TLC

CONSTANTS f1, f2, d1, st, early, rival, decided, now,
          p1, p2, h1, h2, task, manifest, worker, receipt, pass, fail

FourRecords == {f1, f2, d1, st}
FourValues == {early, rival, decided, now}
Kind == (f1 :> "fact" @@ f2 :> "fact" @@ d1 :> "decision" @@ st :> "state")
TwoClaims == [key : {"owner"}, object : {"alice", "bob"}]
TermsOfClasses == [volatile |-> 3]

Fact(r, object) ==
  [id |-> r, kind |-> "fact", classification |-> "internal", role |-> "lead",
   references |-> {}, items |-> {}, status |-> "verified", supersedes |-> {},
   superseded_by |-> None, fact_class |-> "volatile", verified_at |-> 1,
   review_after |-> None, claim |-> [key |-> "owner", object |-> object]]

Plain(r, kind) ==
  [Fact(r, "alice") EXCEPT !.kind = kind, !.claim = None, !.verified_at = None]

Contained ==
  early :> Fact(f1, "alice")
  @@ rival :> [Fact(f2, "bob") EXCEPT !.references = {f1}]
  @@ decided :> [Plain(d1, "decision") EXCEPT !.status = "accepted", !.references = {f1},
                                              !.classification = "restricted"]
  @@ now :> [Plain(st, "state") EXCEPT !.status = "current", !.items = {d1}]

Words(title, size, finding) ==
  [title |-> title, metadata |-> {}, body |-> {}, phrases |-> {}, domain |-> "core",
   confidence |-> "high", size |-> size, finding |-> finding]

Texts ==
  early :> Words({"release"}, 3, "none")
  @@ rival :> Words({"rollback"}, 2, "block")
  @@ decided :> Words({}, 3, "warning")
  @@ now :> Words({}, 1, "none")

Store(x) == (f1 :> early @@ f2 :> x @@ d1 :> decided @@ st :> now)
TwoVersions == {Store(Absent), Store(rival)}

Lenient == [classifications |-> {"internal", "restricted"}, fail_on_stale |-> FALSE,
            detect |-> FALSE]
Strict == [Lenient EXCEPT !.fail_on_stale = TRUE, !.detect = TRUE]

Query(classifications, day, items, bytes) ==
  [objective |-> "ship", terms |-> {}, kinds |-> {}, statuses |-> {}, domains |-> {},
   classifications |-> classifications, minimum |-> "low", depth |-> 2, as_of |-> day,
   max_items |-> items, max_bytes |-> bytes]

\* Little room, on the day of the commits; the unrestricted records, when the fact
\* is past its review; the best record only.
Brief == Query({}, 1, 3, 5)
Filtered == Query({"internal"}, 5, 4, 20)
Best == Query({}, 1, 1, 20)

ThreeQueries == {Brief, Filtered, Best}
TwoConfigs == {Lenient, Strict}
TokensOf == [ship |-> {"release"}]

AllDocuments == {task, manifest, worker, receipt, pass, fail}

Task == [id |-> task, kind |-> "task", manifest |-> manifest, dependencies |-> {},
         required |-> {"code"}, risk |-> 1, outputs |-> {"patch"}]
Manifest == [id |-> manifest, kind |-> "input_manifest", task |-> task]
Worker == [id |-> worker, kind |-> "worker", role |-> "lead", adapter |-> "codex",
           capabilities |-> {"code"}, ceiling |-> 2]

Ask(query, effects, approvals) ==
  [query |-> query, role |-> "lead", effects |-> effects, approvals |-> approvals,
   task |-> Task, manifest |-> Manifest, worker |-> Worker]

\* An unapproved deployment, an approved one, a session without one, and an approval
\* of what needs none.
Asked ==
  p1 :> {Ask(Brief, {"write", "deploy"}, <<>>)}
  @@ p2 :> {Ask(Filtered, {"deploy"}, [deploy |-> "change-7"]),
            Ask(Best, {"write"}, <<>>), Ask(Brief, {"write"}, [write |-> "change-7"])}

Pack == [allowed |-> [lead |-> {"write", "deploy"}], human |-> {"deploy"}]

Reported(status, outputs, effects, approvals, evaluation, outcome) ==
  [id |-> receipt, status |-> status, outputs |-> outputs, effects |-> effects,
   approvals |-> approvals, evaluation |-> evaluation, outcome |-> outcome,
   observer |-> "host"]

Unapproved == [write |-> None, deploy |-> None]
\* Two outcomes of the first session, a deployment that it did not allow, and a
\* failed attempt at the second.
Sent ==
  h1 :> {Reported("succeeded", {"patch"}, [write |-> "succeeded", deploy |-> "denied"],
                  Unapproved, pass, "pass"),
         Reported("failed", {}, [deploy |-> "failed"], [deploy |-> "change-7"], fail, "fail")}
  @@ h2 :> {Reported("succeeded", {"patch"}, [write |-> "succeeded", deploy |-> "denied"],
                     Unapproved, fail, "fail"),
            Reported("succeeded", {"patch"}, [write |-> "succeeded", deploy |-> "succeeded"],
                     Unapproved, pass, "pass")}
=============================================================================
