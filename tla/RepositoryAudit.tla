--------------------------- MODULE RepositoryAudit ---------------------------
(***************************************************************************)
(* The repository audit (core/audit.py) as a predicate on the records that *)
(* it has loaded: each record by itself, its links to others, cycles of    *)
(* supersession, facts past their review date, and facts that contradict   *)
(* each other.                                                             *)
(***************************************************************************)
EXTENDS RecordBatches, Integers, FiniteSets, Sequences

CONSTANTS
  Data,             \* what each value says
  KindOf,           \* the kind of the directory that each record lies in
  StateRecord,      \* the record of the current state
  None,             \* JSON's null
  Claims,           \* what facts claim: keys (subject, predicate, scope) with objects
  Today,            \* a day, as are the dates in records
  TtlDays,          \* ttl_days, by fact class
  NoExpiry,         \* no_expiry_classes
  Classifications,  \* policy.allowed_classifications
  Roles,
  MaxStateItems,
  EnforceCeiling, FailOnStale, RequireReciprocal, DetectConflicts  \* the policy

Kinds == {"fact", "decision", "state"}

\* A record of any kind.  What a kind does not have is None or {}.
RecordType ==
  [id : Records, kind : Kinds, classification : STRING, role : STRING \cup {None},
   references : SUBSET Records, items : SUBSET Records,
   status : STRING, supersedes : SUBSET Records, superseded_by : Records \cup {None},
   fact_class : STRING, verified_at : Int \cup {None}, review_after : Int \cup {None},
   claim : Claims \cup {None}]

ASSUME AuditAssumption ==
  /\ Records # {} /\ IsFiniteSet(Records)
  /\ KindOf \in [Records -> Kinds]
  /\ Data \in [Values -> RecordType]
  /\ \A v \in Values : Data[v].kind = "state" => Data[v].supersedes = {}
  /\ None \notin Records \cup Claims \cup Int
  /\ {EnforceCeiling, FailOnStale, RequireReciprocal, DetectConflicts} \subseteq BOOLEAN

-----------------------------------------------------------------------------
(* One record                                                              *)

\* load_records: the files that are there, read.
Load(s) == [r \in {q \in Records : s[q] # Absent} |-> Data[s[r]]]

\* A verified fact has a date, a due date within its class's term, and is not
\* past it.
Fresh(v) ==
  /\ v.fact_class \in DOMAIN TtlDays \cup NoExpiry
  /\ v.status = "verified" =>
       /\ v.verified_at # None
       /\ v.fact_class \notin NoExpiry =>
            LET maximum == v.verified_at + TtlDays[v.fact_class]
                due == IF v.review_after # None THEN v.review_after ELSE maximum
            IN /\ EnforceCeiling => due <= maximum
               /\ FailOnStale => Today <= due

\* A record lies where its id and kind say, and keeps to the policy.
Proper(r, v) ==
  /\ v.id = r /\ v.kind = KindOf[r]
  /\ v.classification \in Classifications /\ v.role \in Roles \cup {None}
  /\ v.kind = "fact" => Fresh(v)

-----------------------------------------------------------------------------
(* Links                                                                   *)

SupersededStatus(kind) == IF kind = "fact" THEN "deprecated" ELSE "superseded"

\* What a record supersedes is there, of its kind, and says so itself.  The
\* mutant leaves the last to the other record.
Superseding_OneWay(m, r) ==
  \A t \in m[r].supersedes : t \in DOMAIN m /\ m[t].kind = m[r].kind

Superseding(m, r) ==
  \A t \in m[r].supersedes :
    /\ t \in DOMAIN m /\ m[t].kind = m[r].kind
    /\ RequireReciprocal => m[t].superseded_by = r

Superseded(m, r) ==
  LET t == m[r].superseded_by IN
  t # None =>
    /\ m[r].status = SupersededStatus(m[r].kind)
    /\ t \in DOMAIN m /\ m[t].kind = m[r].kind
    /\ RequireReciprocal => r \in m[t].supersedes

Linked(m, r) ==
  /\ m[r].references \subseteq DOMAIN m
  /\ m[r].kind = "state" =>
       m[r].items \subseteq DOMAIN m /\ Cardinality(m[r].items) <= MaxStateItems
  /\ m[r].kind # "state" => Superseding(m, r) /\ Superseded(m, r)

-----------------------------------------------------------------------------
(* _supersession_cycle: a depth-first search with its own stack, whose     *)
(* entries are records to visit (FALSE) or to leave (TRUE).                *)

\* The order of ids is any fixed one.
Listed(S) ==
  CHOOSE q \in [1..Cardinality(S) -> S] : \A r \in S : \E i \in 1..Cardinality(S) : q[i] = r

Unvisited(S) == [i \in 1..Cardinality(S) |-> <<Listed(S)[i], FALSE>>]

Front(q) == SubSeq(q, 1, Len(q) - 1)

Search0 == [color |-> [r \in Records |-> 0], stack |-> <<>>, cyclic |-> FALSE]

Restart(d) ==
  LET white == {r \in Records : d.color[r] = 0} IN
  IF white = {} THEN d ELSE [d EXCEPT !.stack = <<<<CHOOSE r \in white : TRUE, FALSE>>>>]

Leave(d, r) == [d EXCEPT !.stack = Front(@), !.color[r] = 2]

\* An active record met again closes a cycle; the others are pushed.  The mutant
\* only takes a record that supersedes itself.
Visit_Self(adjacency, d, r) ==
  [color  |-> [d.color EXCEPT ![r] = 1],
   stack  |-> Front(d.stack) \o <<<<r, TRUE>>>>
              \o Unvisited({t \in adjacency[r] : d.color[t] = 0 /\ t # r}),
   cyclic |-> r \in adjacency[r]]

Visit(adjacency, d, r) ==
  [color  |-> [d.color EXCEPT ![r] = 1],
   stack  |-> Front(d.stack) \o <<<<r, TRUE>>>>
              \o Unvisited({t \in adjacency[r] : d.color[t] = 0 /\ t # r}),
   cyclic |-> \E t \in adjacency[r] : t = r \/ d.color[t] = 1]

SearchStep(adjacency, d) ==
  IF d.cyclic THEN d
  ELSE IF d.stack = <<>> THEN Restart(d)
  ELSE LET r == d.stack[Len(d.stack)][1] IN
       IF d.stack[Len(d.stack)][2] THEN Leave(d, r)
       ELSE IF d.color[r] = 0 THEN Visit(adjacency, d, r)
       ELSE [d EXCEPT !.stack = Front(@), !.cyclic = d.color[r] = 1]

\* Each record is restarted from, visited and left once, and pushed once by each.
SearchBound == Cardinality(Records) * (Cardinality(Records) + 3)

HasSupersessionCycle(adjacency) ==
  LET after[n \in 0..SearchBound] ==
        IF n = 0 THEN {Search0} ELSE {SearchStep(adjacency, d) : d \in after[n - 1]}
  IN \E d \in after[SearchBound] : d.cyclic

Adjacency(m) ==
  [r \in Records |-> IF r \in DOMAIN m THEN m[r].supersedes \cap DOMAIN m ELSE {}]

-----------------------------------------------------------------------------
(* _audit_conflicts                                                        *)

\* The records that a walk along supersedes visits.
Visited(m, source) ==
  LET seen[n \in 0..Cardinality(Records)] ==
        IF n = 0 THEN {source} \cap DOMAIN m
        ELSE UNION {{r} \cup Adjacency(m)[r] : r \in seen[n - 1]}
  IN seen[Cardinality(Records)] \cap DOMAIN m

TransitivelySupersedes(m, source, target) ==
  \E r \in Visited(m, source) : target \in m[r].supersedes

\* Verified facts that nothing supersedes.
Current(m) ==
  {r \in DOMAIN m : /\ m[r].kind = "fact" /\ m[r].status = "verified"
                     /\ m[r].superseded_by = None /\ m[r].claim # None}

Group(m, key) == {r \in Current(m) : m[r].claim.key = key}

\* One member of a group stands for its value and is compared with those of other
\* values, which are not compared with each other.
InConflict(m, key) ==
  LET group == Group(m, key)
      base == CHOOSE r \in group : TRUE
  IN \E right \in group :
       /\ m[right].claim.object # m[base].claim.object
       /\ ~TransitivelySupersedes(m, base, right)
       /\ ~TransitivelySupersedes(m, right, base)

-----------------------------------------------------------------------------
\* audit_repository, with the state record that the layout asks for.
Audited(m) ==
  /\ StateRecord \in DOMAIN m
  /\ \A r \in DOMAIN m : Proper(r, m[r]) /\ Linked(m, r)
  /\ ~HasSupersessionCycle(Adjacency(m))
  /\ DetectConflicts => \A c \in Claims : ~InConflict(m, c.key)

AuditedStores == {s \in Stores : Audited(Load(s))}
=============================================================================
