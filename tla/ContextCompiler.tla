--------------------------- MODULE ContextCompiler ---------------------------
(***************************************************************************)
(* Retrieval (context/compiler.py): which records a query selects from a   *)
(* snapshot, in which order, and what of them fits into the budget of a    *)
(* context bundle.  The text of a record is the set of terms that occur in *)
(* it, and a digest is equal exactly when its contents are: a bundle       *)
(* carries its query and its snapshot.                                     *)
(***************************************************************************)
EXTENDS RepositoryAudit

CONSTANTS
  Terms,       \* search terms
  Objectives,  \* what a query is for
  Tokens,      \* the terms in each objective
  Text,        \* what retrieval reads of each value
  Queries,
  WarningDays  \* policy.review_warning_days

F == INSTANCE Functions

Confidence == [none |-> -1, low |-> 0, medium |-> 1, high |-> 2]
StatusScore ==
  [verified |-> 30, accepted |-> 30, provisional |-> 10, proposed |-> 10,
   disputed |-> -5, deprecated |-> -20, superseded |-> -20, rejected |-> -20]

\* size is that of the item in a bundle; finding is what the content inspection
\* says of the record.
TextType ==
  [title : SUBSET Terms, metadata : SUBSET Terms, body : SUBSET Terms,
   phrases : SUBSET Objectives, domain : STRING, confidence : DOMAIN Confidence,
   size : Nat \ {0}, finding : {"none", "warning", "block"}]

\* An empty filter lets everything pass.
QueryType ==
  [objective : Objectives, terms : SUBSET Terms, kinds : SUBSET Kinds,
   statuses : SUBSET STRING, domains : SUBSET STRING, classifications : SUBSET STRING,
   minimum : DOMAIN Confidence, depth : 0..2, as_of : Int,
   max_items : Nat \ {0}, max_bytes : Nat]

ASSUME CompilerAssumption ==
  /\ IsFiniteSet(Terms)
  /\ Tokens \in [Objectives -> SUBSET Terms]
  /\ Text \in [Values -> TextType]
  /\ Queries \subseteq QueryType
  /\ WarningDays \in Nat

-----------------------------------------------------------------------------
(* Filters and direct matches                                              *)

Passes(filter, x) == filter = {} \/ x \in filter

MatchesFilters(v, q) ==
  LET data == Data[v] text == Text[v] IN
  /\ Passes(q.kinds, data.kind)
  /\ data.kind # "state" => Passes(q.statuses, data.status)
  /\ Passes(q.domains, text.domain)
  /\ Passes(q.classifications, data.classification)
  /\ data.kind = "fact" => Confidence[text.confidence] >= Confidence[q.minimum]

Present(s) == {r \in Records : s[r] # Absent}
Eligible(s, q) == {r \in Present(s) : MatchesFilters(s[r], q)}

QueryTerms(q) == q.terms \cup Tokens[q.objective]

Weight(text, t) ==
  (IF t \in text.title THEN 12 ELSE 0) + (IF t \in text.metadata THEN 8 ELSE 0)
    + (IF t \in text.body THEN 4 ELSE 0)

Matches(v, q) ==
  \/ q.objective \in Text[v].phrases
  \/ \E t \in QueryTerms(q) : Weight(Text[v], t) > 0

SumOver(f, S) == F!FoldFunctionOnSet(+, 0, f, S)

StatusPoints(data) ==
  IF data.kind = "state" THEN 25
  ELSE IF data.status \in DOMAIN StatusScore THEN StatusScore[data.status] ELSE 0

\* _direct_rank.
DirectScore(v, q) ==
  StatusPoints(Data[v])
    + (IF q.objective \in Text[v].phrases THEN 24 ELSE 0)
    + SumOver([t \in QueryTerms(q) |-> Weight(Text[v], t)], QueryTerms(q))

-----------------------------------------------------------------------------
(* Relations, and the records that are reached along them                  *)

Targets(v) ==
  LET data == Data[v] IN
  data.references \cup data.supersedes \cup data.items
    \cup (IF data.superseded_by = None THEN {} ELSE {data.superseded_by})

\* _relations: links count in both directions.
Related(s, r, t) ==
  {r, t} \subseteq Present(s) /\ (t \in Targets(s[r]) \/ r \in Targets(s[t]))

\* The order of the ids.
Order == Listed(Records)
Before(r, t) == \E i, j \in DOMAIN Order : i < j /\ Order[i] = r /\ Order[j] = t

Larger(a, b) == IF a > b THEN a ELSE b

\* One more step away from the records found so far: only eligible records are
\* found or passed through, and the first source in the order of ids gives the
\* score.  The mutant goes on from records that it has filtered out.
Widen_Unfiltered(s, q, e) ==
  LET found == {t \in Present(s) \ DOMAIN e.scores : \E r \in e.frontier : Related(s, r, t)}
      source(t) == CHOOSE r \in e.frontier :
                     /\ Related(s, r, t)
                     /\ \A u \in e.frontier : Related(s, u, t) => ~Before(u, r)
  IN [frontier |-> found,
      scores |-> [t \in DOMAIN e.scores \cup found |->
                    IF t \in found THEN Larger(1, e.scores[source(t)] - 20) ELSE e.scores[t]]]

Widen(s, q, e) ==
  LET found == {t \in Eligible(s, q) \ DOMAIN e.scores : \E r \in e.frontier : Related(s, r, t)}
      source(t) == CHOOSE r \in e.frontier :
                     /\ Related(s, r, t)
                     /\ \A u \in e.frontier : Related(s, u, t) => ~Before(u, r)
  IN [frontier |-> found,
      scores |-> [t \in DOMAIN e.scores \cup found |->
                    IF t \in found THEN Larger(1, e.scores[source(t)] - 20) ELSE e.scores[t]]]

Direct(s, q) ==
  LET hits == {r \in Eligible(s, q) : Matches(s[r], q)}
  IN [frontier |-> hits, scores |-> [r \in hits |-> DirectScore(s[r], q)]]

\* _rank_records.
Scores(s, q) ==
  LET after[n \in 0..q.depth] == IF n = 0 THEN Direct(s, q) ELSE Widen(s, q, after[n - 1])
  IN after[q.depth].scores

Ahead(scores, r, t) == scores[r] > scores[t] \/ (scores[r] = scores[t] /\ Before(r, t))

Ranked(scores) ==
  CHOOSE ranked \in [1..Cardinality(DOMAIN scores) -> DOMAIN scores] :
    \A i, j \in DOMAIN ranked : i < j => Ahead(scores, ranked[i], ranked[j])

-----------------------------------------------------------------------------
(* Snapshots                                                               *)

DueDate(v) ==
  IF Data[v].review_after # None THEN Data[v].review_after
  ELSE Data[v].verified_at + TtlDays[Data[v].fact_class]

\* review_queue of the audit of a day.
ReviewQueue(s, day) ==
  LET facts == {r \in Present(s) : Data[s[r]].kind = "fact"}
      expiring == {r \in facts : /\ Data[s[r]].status = "verified"
                                 /\ Data[s[r]].fact_class \notin NoExpiry}
  IN {[id |-> r, reason |-> Data[s[r]].status] :
        r \in {t \in facts : Data[s[t]].status \in {"provisional", "disputed"}}}
     \cup {[id |-> r, reason |-> "stale"] : r \in {t \in expiring : DueDate(s[t]) < day}}
     \cup {[id |-> r, reason |-> "due_soon"] :
             r \in {t \in expiring : DueDate(s[t]) \in day..(day + WarningDays)}}

ConflictsOf(s) == {c.key : c \in {k \in Claims : InConflict(Load(s), k.key)}}

-----------------------------------------------------------------------------
(* compile_context                                                         *)

NothingYet ==
  [items |-> <<>>, bytes |-> 0, warned |-> {}, item_limit |-> 0, policy |-> 0, budget |-> 0]

IsFull(q, chosen) == Len(chosen.items) >= q.max_items
IsBlocked(v) == Text[v].finding = "block"

\* A record that the inspection has only warned of, before its size is looked at.
Inspected(s, chosen, r) ==
  [chosen EXCEPT !.warned = @ \cup {t \in {r} : Text[s[t]].finding = "warning"}]

Fits(q, chosen, v) == chosen.bytes + Text[v].size <= q.max_bytes

\* The next record of the ranking, into what is chosen so far.  The mutant takes
\* nothing more after one that does not fit.
Take_UntilFull(s, q, chosen, r) ==
  IF IsFull(q, chosen) THEN [chosen EXCEPT !.item_limit = @ + 1]
  ELSE IF IsBlocked(s[r]) THEN [chosen EXCEPT !.policy = @ + 1]
  ELSE IF chosen.budget > 0 \/ ~Fits(q, chosen, s[r])
       THEN [Inspected(s, chosen, r) EXCEPT !.budget = @ + 1]
  ELSE [Inspected(s, chosen, r) EXCEPT !.items = Append(@, r),
                                       !.bytes = @ + Text[s[r]].size]

Take(s, q, chosen, r) ==
  IF IsFull(q, chosen) THEN [chosen EXCEPT !.item_limit = @ + 1]
  ELSE IF IsBlocked(s[r]) THEN [chosen EXCEPT !.policy = @ + 1]
  ELSE IF ~Fits(q, chosen, s[r]) THEN [Inspected(s, chosen, r) EXCEPT !.budget = @ + 1]
  ELSE [Inspected(s, chosen, r) EXCEPT !.items = Append(@, r),
                                       !.bytes = @ + Text[s[r]].size]

\* What is chosen of a ranking.
Chosen(s, q, ranked) ==
  LET after[n \in 0..Len(ranked)] ==
        IF n = 0 THEN NothingYet ELSE Take(s, q, after[n - 1], ranked[n])
  IN after[Len(ranked)]

\* _warnings: governed statuses and due reviews.
Warnings(s, selected, reviews) ==
  {[code |-> Data[s[r]].status, id |-> r] :
     r \in {t \in selected : Data[s[t]].status \in
                               {"disputed", "deprecated", "superseded", "rejected"}}}
  \cup {[code |-> w.reason, id |-> w.id] : w \in {v \in reviews : v.id \in selected}}

WarningCodes ==
  {"provisional", "disputed", "deprecated", "superseded", "rejected", "stale", "due_soon",
   "content"}

BundleType ==
  [query : Queries, snapshot : Stores, items : Seq([id : Records, score : Int]),
   bytes : Nat,
   excluded : [filtered : Nat, no_match : Nat, item_limit : Nat, content_policy : Nat,
               content_budget : Nat],
   warnings : SUBSET [code : WarningCodes, id : Records],
   conflicts : SUBSET {c.key : c \in Claims}]

Bundle(snapshot, q) ==
  LET s == snapshot.store
      scores == Scores(s, q)
      chosen == Chosen(s, q, Ranked(scores))
      selected == {chosen.items[i] : i \in DOMAIN chosen.items}
  IN [query |-> q, snapshot |-> s,
      items |-> [i \in DOMAIN chosen.items |->
                   [id |-> chosen.items[i], score |-> scores[chosen.items[i]]]],
      bytes |-> chosen.bytes,
      excluded |-> [filtered |-> Cardinality(Present(s) \ Eligible(s, q)),
                    no_match |-> Cardinality(Eligible(s, q) \ DOMAIN scores),
                    item_limit |-> chosen.item_limit, content_policy |-> chosen.policy,
                    content_budget |-> chosen.budget],
      warnings |-> Warnings(s, selected, snapshot.reviews)
                     \cup {[code |-> "content", id |-> r] : r \in chosen.warned},
      conflicts |-> snapshot.conflicts]

-----------------------------------------------------------------------------
(* What a bundle is to be, without the algorithm                           *)

Selected(b) == {b.items[i].id : i \in DOMAIN b.items}

\* The eligible records at the end of a path of at most depth links, through
\* eligible records, from a direct match.
Within(s, q) ==
  LET eligible == Eligible(s, q)
      links == {l \in eligible \X eligible : Related(s, l[1], l[2])}
  IN {t \in eligible :
        \E n \in 0..q.depth : \E path \in [0..n -> eligible] :
          /\ Matches(s[path[0]], q) /\ path[n] = t
          /\ \A i \in 1..n : <<path[i - 1], path[i]>> \in links}

\* The bundle keeps to its budget, every record of the snapshot is in it or is
\* counted once as excluded, and no record that was found and may be shown would
\* still fit.
KeepsBudget(b) ==
  LET s == b.snapshot q == b.query count == b.excluded IN
  /\ b.bytes = SumOver([r \in Selected(b) |-> Text[s[r]].size], Selected(b))
  /\ b.bytes <= q.max_bytes /\ Len(b.items) <= q.max_items
  /\ Cardinality(Selected(b)) + count.filtered + count.no_match + count.item_limit
       + count.content_policy + count.content_budget = Cardinality(Present(s))
  /\ \A r \in Selected(b) : ~IsBlocked(s[r])
  /\ Len(b.items) < q.max_items =>
       \A r \in Within(s, q) \ Selected(b) :
         IsBlocked(s[r]) \/ b.bytes + Text[s[r]].size > q.max_bytes

\* A bundle is chosen from exactly the records within reach, best first.
FollowsRelations(b) ==
  LET within == Within(b.snapshot, b.query) IN
  /\ Selected(b) \subseteq within
  /\ b.excluded.no_match = Cardinality(Eligible(b.snapshot, b.query) \ within)
  /\ \A i, j \in DOMAIN b.items : i < j => b.items[i].score >= b.items[j].score
=============================================================================
