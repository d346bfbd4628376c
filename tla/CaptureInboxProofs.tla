-------------------------- MODULE CaptureInboxProofs --------------------------
(***************************************************************************)
(* Theorems about CaptureInbox, for every set of requests and any number   *)
(* of commands cut short at any of their writes.                           *)
(***************************************************************************)
EXTENDS CaptureInbox, FiniteSetTheorems, TLAPS

\* The request of the running command is a declared one, and what it has still
\* to persist is all that is missing of it.
CommandInv ==
  /\ pc # "idle" => cur \in Captures
  /\ pc = "persist" => \A e \in cur.events : e \in left \/ <<cur, e>> \in candidates
  /\ pc = "checkpoint" => cur \in envelopes

RefInv == TypeOK /\ CommandInv /\ References

\* A declared request has the fields of a request.
LEMMA CaptureFields ==
  ASSUME NEW rq \in Captures
  PROVE  /\ rq.source \in Sources /\ rq.events \subseteq Events
         /\ rq.before \in Cursors \cup {NoCursor} /\ rq.after \in Cursors
         /\ rq # NoRequest
  BY CaptureAssumption DEF RequestType

-----------------------------------------------------------------------------
(* Types and references                                                    *)

\* The empty inbox refers to nothing.
LEMMA RefInit == Init => RefInv
  BY CaptureAssumption DEF Init, RefInv, TypeOK, CommandInv, References

\* Every step keeps the types and the references.
LEMMA RefStep == RefInv /\ [Next]_vars => RefInv'
<1> SUFFICES ASSUME RefInv, [Next]_vars PROVE RefInv'
  OBVIOUS
<1> USE CaptureFields, CaptureAssumption DEF RefInv, TypeOK, CommandInv, References
<1>1. ASSUME NEW rq \in Captures, Begin(rq) PROVE RefInv'
  BY <1>1 DEF Begin
<1>2. ASSUME NEW e \in Events, PersistCandidate(e) PROVE RefInv'
  BY <1>2 DEF PersistCandidate
<1>3. CASE WriteEnvelope
  BY <1>3 DEF WriteEnvelope
<1>4. CASE WriteCheckpoint
  BY <1>4 DEF WriteCheckpoint
<1>5. CASE CutShort
  BY <1>5 DEF CutShort
<1>6. CASE UNCHANGED vars
  BY <1>6 DEF vars
<1>7. QED
  BY <1>1, <1>2, <1>3, <1>4, <1>5, <1>6 DEF Next, Progress

\* The types and the references hold of every behaviour.
LEMMA RefInductive == Spec => []RefInv
  BY RefInit, RefStep, PTL DEF Spec

\* Every variable of the inbox keeps its type.
THEOREM InboxTypeCorrect == Spec => []TypeOK
<1>1. RefInv => TypeOK
  BY DEF RefInv
<1>2. QED
  BY <1>1, RefInductive, PTL

\* Wherever a command is cut short, the checkpoint's envelope is on disk and so
\* are all candidates of every envelope.
THEOREM NothingDangles == Spec => []References
<1>1. RefInv => References
  BY DEF RefInv
<1>2. QED
  BY <1>1, RefInductive, PTL

-----------------------------------------------------------------------------
(* The checkpoint                                                          *)

\* A replay, however late, never takes a checkpoint back: it moves only from the
\* cursor where the request of its next value starts.
THEOREM CheckpointOnlyAdvances == Spec => CheckpointAdvances
<1> DEFINE Moves ==
      \A s \in Sources :
        checkpoint'[s] # checkpoint[s] =>
          checkpoint'[s] # NoRequest /\ checkpoint'[s].before = CursorOf(s)
<1>1. RefInv /\ [Next]_vars => [Moves]_vars
  <2> SUFFICES ASSUME RefInv, Next PROVE Moves
    OBVIOUS
  <2>1. CASE WriteCheckpoint
    <3>1. cur \in Captures /\ cur.source \in Sources /\ cur # NoRequest
      BY <2>1, CaptureFields DEF WriteCheckpoint, RefInv, CommandInv
    <3>2. QED
      BY <2>1, <3>1 DEF WriteCheckpoint, Advanced, CursorOf, RefInv, TypeOK
  <2>2. CASE ~WriteCheckpoint
    <3>1. UNCHANGED checkpoint
      BY <2>2 DEF Next, Progress, Begin, PersistCandidate, WriteEnvelope, CutShort
    <3>2. QED
      BY <3>1
  <2>3. QED
    BY <2>1, <2>2
<1>2. QED
  BY <1>1, RefInductive, PTL DEF Spec, CheckpointAdvances

-----------------------------------------------------------------------------
(* Forks                                                                   *)

\* Every host only moves forward: cursors have an order that its requests follow.
HostsAdvance ==
  \E rank \in [Cursors \cup {NoCursor} -> Nat] :
    \A rq \in Captures : rank[rq.before] < rank[rq.after]

\* An envelope whose checkpoint is not written yet, by the running command or by
\* one that was cut short.
Pending(rq) == owed[rq.source] = rq \/ (pc = "checkpoint" /\ cur = rq)

\* The envelopes of a source start before its cursor, but for one that starts at
\* it and is pending.
ForkInv(rank) ==
  /\ pc # "idle" => owed[cur.source] \in {NoRequest, cur}
  /\ pc # "idle" => cur \in envelopes \/ cur.before = CursorOf(cur.source)
  /\ \A rq \in envelopes :
       \/ rank[rq.before] < rank[CursorOf(rq.source)]
       \/ rq.before = CursorOf(rq.source) /\ Pending(rq)
  /\ NoFork

\* Every step keeps the forks away, if what was interrupted is replayed first.
LEMMA ForkStep ==
  ASSUME ReplayFirst, NEW rank \in [Cursors \cup {NoCursor} -> Nat],
         \A rq \in Captures : rank[rq.before] < rank[rq.after]
  PROVE  RefInv /\ RefInv' /\ ForkInv(rank) /\ [Next]_vars => ForkInv(rank)'
<1> SUFFICES ASSUME RefInv, RefInv', ForkInv(rank), [Next]_vars PROVE ForkInv(rank)'
  OBVIOUS
<1>1. ASSUME NEW rq \in Captures, Begin(rq) PROVE ForkInv(rank)'
  BY <1>1, CaptureFields
     DEF Begin, Submitted, Accepts, ForkInv, Pending, CursorOf, NoFork, RefInv, TypeOK
<1>2. ASSUME NEW e \in Events, PersistCandidate(e) PROVE ForkInv(rank)'
  BY <1>2 DEF PersistCandidate, ForkInv, Pending, CursorOf, NoFork
<1>3. CASE WriteEnvelope
  <2>1. /\ pc = "persist" /\ pc' = "checkpoint" /\ cur' = cur /\ owed' = owed
        /\ checkpoint' = checkpoint /\ envelopes' = envelopes \cup {cur}
        /\ cur \in Captures
    BY <1>3 DEF WriteEnvelope, RefInv, CommandInv
  <2>2. \A rq : CursorOf(rq.source)' = CursorOf(rq.source)
    BY <2>1 DEF CursorOf
  <2>3. \A rq \in envelopes \cup {cur} :
          \/ rank[rq.before] < rank[CursorOf(rq.source)]
          \/ rq.before = CursorOf(rq.source) /\ Pending(rq)'
    BY <2>1 DEF ForkInv, Pending
  <2>4. \A rq \in envelopes : rq.source = cur.source /\ rq.before = cur.before => rq = cur
    <3> SUFFICES ASSUME NEW rq \in envelopes, rq.source = cur.source,
                        rq.before = cur.before, cur \notin envelopes
                 PROVE  rq = cur
      BY DEF ForkInv, NoFork
    <3>1. cur.before = CursorOf(cur.source) /\ owed[cur.source] \in {NoRequest, cur}
      BY <2>1 DEF ForkInv
    <3>2. rank[rq.before] \in Nat
      BY CaptureFields, <2>1
    <3>3. ~(rank[rq.before] < rank[CursorOf(rq.source)])
      BY <3>1, <3>2
    <3>4. Pending(rq)
      BY <3>3 DEF ForkInv
    <3>5. rq # NoRequest
      BY CaptureFields DEF RefInv, TypeOK
    <3>6. QED
      BY <2>1, <3>1, <3>4, <3>5 DEF Pending
  <2>5. NoFork'
    BY <2>1, <2>4 DEF ForkInv, NoFork
  <2>6. QED
    BY <2>1, <2>2, <2>3, <2>5 DEF ForkInv
<1>4. CASE WriteCheckpoint
  <2>1. /\ pc = "checkpoint" /\ pc' = "idle" /\ envelopes' = envelopes
        /\ checkpoint' = IF CursorOf(cur.source) = cur.before
                         THEN [checkpoint EXCEPT ![cur.source] = cur] ELSE checkpoint
        /\ cur \in Captures /\ cur \in envelopes /\ cur.source \in Sources
    BY <1>4, CaptureFields DEF WriteCheckpoint, Advanced, RefInv, CommandInv
  <2>2. /\ owed'[cur.source] = NoRequest
        /\ \A s \in Sources : s # cur.source => owed'[s] = owed[s]
    BY <1>4, <2>1 DEF WriteCheckpoint, ForkInv, RefInv, TypeOK
  <2>3. ASSUME NEW rq \in envelopes
        PROVE  \/ rank[rq.before] < rank[CursorOf(rq.source)']
               \/ rq.before = CursorOf(rq.source)' /\ Pending(rq)'
    <3>1. rq \in Captures /\ rq.source \in Sources
      BY CaptureFields DEF RefInv, TypeOK
    <3>2. CASE rq.source # cur.source
      <4>1. CursorOf(rq.source)' = CursorOf(rq.source)
        BY <2>1, <3>1, <3>2 DEF CursorOf, RefInv, TypeOK
      <4>2. Pending(rq) => Pending(rq)'
        BY <2>2, <3>1, <3>2 DEF Pending
      <4>3. QED
        BY <4>1, <4>2 DEF ForkInv
    <3>3. CASE rq.source = cur.source /\ CursorOf(cur.source) = cur.before
      <4>1. CursorOf(rq.source)' = cur.after
        BY <2>1, <3>3, CaptureFields DEF CursorOf, RefInv, TypeOK
      <4>2. rq.before = cur.before \/ rank[rq.before] < rank[cur.before]
        BY <3>3 DEF ForkInv
      <4>3. /\ rank[rq.before] \in Nat /\ rank[cur.before] \in Nat
            /\ rank[cur.after] \in Nat /\ rank[cur.before] < rank[cur.after]
        BY <2>1, <3>1, CaptureFields
      <4>4. QED
        BY <4>1, <4>2, <4>3
    <3>4. CASE rq.source = cur.source /\ CursorOf(cur.source) # cur.before
      <4>1. CursorOf(rq.source)' = CursorOf(rq.source)
        BY <2>1, <3>4 DEF CursorOf
      <4>2. rq.before = CursorOf(rq.source) => ~Pending(rq)
        BY <2>1, <3>1, <3>4, CaptureFields DEF ForkInv, Pending
      <4>3. QED
        BY <4>1, <4>2 DEF ForkInv
    <3>5. QED
      BY <3>2, <3>3, <3>4
  <2>4. QED
    BY <2>1, <2>3 DEF ForkInv, NoFork
<1>5. CASE CutShort
  <2>1. /\ pc # "idle" /\ pc' = "idle" /\ envelopes' = envelopes
        /\ checkpoint' = checkpoint /\ cur \in Captures /\ cur.source \in Sources
    BY <1>5, CaptureFields DEF CutShort, RefInv, CommandInv
  <2>2. /\ owed'[cur.source] = cur
        /\ \A s \in Sources : s # cur.source => owed'[s] = owed[s]
    BY <1>5, <2>1 DEF CutShort, RefInv, TypeOK
  <2>3. \A rq \in envelopes : Pending(rq) => Pending(rq)'
    BY <2>1, <2>2, CaptureFields DEF Pending, ForkInv, RefInv, TypeOK
  <2>4. QED
    BY <2>1, <2>3 DEF ForkInv, NoFork, CursorOf
<1>6. CASE UNCHANGED vars
  BY <1>6 DEF vars, ForkInv, Pending, CursorOf, NoFork
<1>7. QED
  BY <1>1, <1>2, <1>3, <1>4, <1>5, <1>6 DEF Next, Progress

\* A source's checkpoint prevents forks, as docs/architecture.md says, if hosts
\* only move forward and an interrupted request is replayed before a rival.
THEOREM ReplayPreventsForks ==
  ASSUME ReplayFirst, HostsAdvance PROVE Spec => []NoFork
<1>1. PICK rank \in [Cursors \cup {NoCursor} -> Nat] :
        \A rq \in Captures : rank[rq.before] < rank[rq.after]
  BY DEF HostsAdvance
<1>2. Init => ForkInv(rank)
  BY DEF Init, ForkInv, NoFork
<1>3. RefInv /\ RefInv' /\ ForkInv(rank) /\ [Next]_vars => ForkInv(rank)'
  BY <1>1, ForkStep
<1>4. ForkInv(rank) => NoFork
  BY DEF ForkInv
<1>5. QED
  BY <1>2, <1>3, <1>4, RefInductive, PTL DEF Spec

-----------------------------------------------------------------------------
(* Chains                                                                  *)

\* The envelopes that a source has left behind its cursor.
Behind(rank, s) == {rq \in EnvelopesOf(s) : rank[rq.before] < rank[CursorOf(s)]}

\* The walk from the null cursor over the requests of a set to a checkpoint.
IsWalk(rank, requests, last, n, q) ==
  /\ q \in [1..n -> requests]
  /\ \A rq \in requests : \E i \in 1..n : q[i] = rq
  /\ \A i, j \in 1..n : i < j => rank[q[i].before] < rank[q[j].before]
  /\ \A i \in 2..n : q[i].before = q[i - 1].after
  /\ n = 0 => last = NoRequest
  /\ n > 0 => q[1].before = NoCursor /\ q[n] = last

WalkInv(rank) ==
  \A s \in Sources : \E n \in Nat : \E q \in [1..n -> Captures] :
    IsWalk(rank, Behind(rank, s), checkpoint[s], n, q)

\* A candidate without its envelope is of the running command, or of one that was
\* cut short and is owed.
OrphanInv ==
  \A c \in candidates :
    c[1] \in envelopes \/ owed[c[1].source] = c[1] \/ (pc = "persist" /\ cur = c[1])

\* A walk is continued by the request that starts where it ends.
LEMMA WalkGrows ==
  ASSUME NEW rank \in [Cursors \cup {NoCursor} -> Nat],
         NEW requests \in SUBSET Captures, NEW last, NEW n \in Nat, NEW q,
         IsWalk(rank, requests, last, n, q),
         NEW rq \in Captures,
         rq.before = IF last = NoRequest THEN NoCursor ELSE last.after,
         \A p \in requests : rank[p.before] < rank[rq.before],
         NEW w, w = [i \in 1..(n + 1) |-> IF i = n + 1 THEN rq ELSE q[i]]
  PROVE  IsWalk(rank, requests \cup {rq}, rq, n + 1, w)
<1>1. /\ q \in [1..n -> requests]
      /\ \A p \in requests : \E i \in 1..n : q[i] = p
      /\ \A i, j \in 1..n : i < j => rank[q[i].before] < rank[q[j].before]
      /\ \A i \in 2..n : q[i].before = q[i - 1].after
      /\ n = 0 => last = NoRequest
      /\ n > 0 => q[1].before = NoCursor /\ q[n] = last
  BY DEF IsWalk
<1>2. w[n + 1] = rq /\ \A i \in 1..n : w[i] = q[i] /\ i \in 1..(n + 1) /\ i # n + 1
  OBVIOUS
<1>3. w \in [1..(n + 1) -> requests \cup {rq}]
  BY <1>1
<1>4. \A p \in requests \cup {rq} : \E i \in 1..(n + 1) : w[i] = p
  BY <1>1, <1>2
<1>5. \A i, j \in 1..(n + 1) : i < j => rank[w[i].before] < rank[w[j].before]
  <2> SUFFICES ASSUME NEW i \in 1..(n + 1), NEW j \in 1..(n + 1), i < j
               PROVE  rank[w[i].before] < rank[w[j].before]
    OBVIOUS
  <2>1. i \in 1..n /\ w[i] = q[i] /\ q[i] \in requests
    BY <1>1, <1>2
  <2>2. CASE j = n + 1
    BY <1>2, <2>1, <2>2
  <2>3. CASE j # n + 1
    BY <1>1, <1>2, <2>1, <2>3
  <2>4. QED
    BY <2>2, <2>3
<1>6. \A i \in 2..(n + 1) : w[i].before = w[i - 1].after
  <2> SUFFICES ASSUME NEW i \in 2..(n + 1) PROVE w[i].before = w[i - 1].after
    OBVIOUS
  <2>1. CASE i = n + 1
    <3>1. n > 0 /\ i - 1 = n /\ n \in 1..n
      BY <2>1
    <3>2. q[n] = last /\ last \in Captures
      BY <1>1, <3>1
    <3>3. last # NoRequest
      BY <3>2, CaptureFields
    <3>4. QED
      BY <1>2, <2>1, <3>1, <3>2, <3>3
  <2>2. CASE i # n + 1
    BY <1>1, <1>2, <2>2
  <2>3. QED
    BY <2>1, <2>2
<1>7. w[1].before = NoCursor
  <2>1. CASE n = 0
    BY <1>1, <1>2, <2>1
  <2>2. CASE n # 0
    BY <1>1, <1>2, <2>2
  <2>3. QED
    BY <2>1, <2>2
<1>8. QED
  BY <1>2, <1>3, <1>4, <1>5, <1>6, <1>7 DEF IsWalk

\* Only the step that advances the checkpoint adds to what a source has behind it,
\* and it adds its own request.
LEMMA WalkStep ==
  ASSUME NEW rank \in [Cursors \cup {NoCursor} -> Nat],
         \A rq \in Captures : rank[rq.before] < rank[rq.after],
         RefInv, ForkInv(rank), WalkInv(rank), [Next]_vars
  PROVE  WalkInv(rank)'
<1>1. ASSUME UNCHANGED <<envelopes, checkpoint>> PROVE WalkInv(rank)'
  BY <1>1 DEF WalkInv, Behind, EnvelopesOf, CursorOf
<1>2. CASE WriteEnvelope
  <2>1. /\ envelopes' = envelopes \cup {cur} /\ checkpoint' = checkpoint
        /\ cur \in Captures /\ cur.source \in Sources
        /\ cur \in envelopes \/ cur.before = CursorOf(cur.source)
    BY <1>2, CaptureFields DEF WriteEnvelope, RefInv, CommandInv, ForkInv
  <2>2. rank[cur.before] \in Nat
    BY <2>1, CaptureFields
  <2>3. \A s \in Sources : Behind(rank, s)' = Behind(rank, s)
    BY <2>1, <2>2 DEF Behind, EnvelopesOf, CursorOf
  <2>4. QED
    BY <2>1, <2>3 DEF WalkInv
<1>3. CASE WriteCheckpoint /\ Advanced
  <2>1. /\ cur \in Captures /\ cur \in envelopes /\ cur.source \in Sources
        /\ envelopes' = envelopes /\ checkpoint' = [checkpoint EXCEPT ![cur.source] = cur]
        /\ cur.before = CursorOf(cur.source) /\ cur # NoRequest
    BY <1>3, CaptureFields DEF WriteCheckpoint, Advanced, RefInv, CommandInv
  <2>2. checkpoint \in [Sources -> Captures \cup {NoRequest}] /\ envelopes \subseteq Captures
    BY DEF RefInv, TypeOK
  <2> SUFFICES ASSUME NEW s \in Sources
               PROVE  \E n \in Nat : \E q \in [1..n -> Captures] :
                        IsWalk(rank, Behind(rank, s)', checkpoint'[s], n, q)
    BY DEF WalkInv
  <2>3. PICK n \in Nat : \E q \in [1..n -> Captures] :
          IsWalk(rank, Behind(rank, s), checkpoint[s], n, q)
    BY DEF WalkInv
  <2>4. PICK q \in [1..n -> Captures] : IsWalk(rank, Behind(rank, s), checkpoint[s], n, q)
    BY <2>3
  <2>5. CASE s # cur.source
    <3>1. checkpoint'[s] = checkpoint[s] /\ Behind(rank, s)' = Behind(rank, s)
      BY <2>1, <2>2, <2>5 DEF Behind, EnvelopesOf, CursorOf
    <3>2. QED
      BY <2>4, <3>1
  <2>6. CASE s = cur.source
    <3>1. checkpoint'[s] = cur /\ CursorOf(s)' = cur.after
      BY <2>1, <2>2, <2>6 DEF CursorOf
    <3>2. \A p \in Captures : rank[p.before] \in Nat /\ rank[p.after] \in Nat
      BY CaptureFields
    <3>3. ASSUME NEW p \in EnvelopesOf(s)
          PROVE  rank[p.before] < rank[cur.after] <=> rank[p.before] < rank[cur.before] \/ p = cur
      <4>1. p \in Captures /\ p \in envelopes /\ p.source = s
        BY <2>2 DEF EnvelopesOf
      <4>2. rank[p.before] < rank[cur.before] \/ p.before = cur.before
        BY <2>1, <2>6, <4>1 DEF ForkInv
      <4>3. p.before = cur.before => p = cur
        BY <2>1, <2>6, <4>1 DEF ForkInv, NoFork
      <4>4. QED
        BY <2>1, <3>2, <4>1, <4>2, <4>3
    <3>4. Behind(rank, s)' = Behind(rank, s) \cup {cur}
      <4>1. EnvelopesOf(s)' = EnvelopesOf(s) /\ cur \in EnvelopesOf(s)
        BY <2>1, <2>6 DEF EnvelopesOf
      <4>2. Behind(rank, s)' = {p \in EnvelopesOf(s) : rank[p.before] < rank[cur.after]}
        BY <3>1, <4>1 DEF Behind
      <4>3. Behind(rank, s) = {p \in EnvelopesOf(s) : rank[p.before] < rank[cur.before]}
        BY <2>1, <2>6 DEF Behind
      <4>4. QED
        BY <3>3, <4>1, <4>2, <4>3
    <3>5. Behind(rank, s) \in SUBSET Captures
      BY <2>2 DEF Behind, EnvelopesOf
    <3>6. cur.before = IF checkpoint[s] = NoRequest THEN NoCursor ELSE checkpoint[s].after
      BY <2>1, <2>6 DEF CursorOf
    <3>7. \A p \in Behind(rank, s) : rank[p.before] < rank[cur.before]
      BY <2>1, <2>6 DEF Behind
    <3> DEFINE w == [i \in 1..(n + 1) |-> IF i = n + 1 THEN cur ELSE q[i]]
    <3>8. w \in [1..(n + 1) -> Captures] /\ n + 1 \in Nat
      BY <2>1
    <3>9. w = [i \in 1..(n + 1) |-> IF i = n + 1 THEN cur ELSE q[i]]
      OBVIOUS
    <3> HIDE DEF w
    <3>10. IsWalk(rank, Behind(rank, s) \cup {cur}, cur, n + 1, w)
      BY <2>1, <2>4, <3>5, <3>6, <3>7, <3>9, WalkGrows
    <3>11. QED
      BY <3>1, <3>4, <3>8, <3>10
  <2>7. QED
    BY <2>5, <2>6
<1>4. QED
  BY <1>1, <1>2, <1>3 DEF Next, Progress, Begin, PersistCandidate, WriteCheckpoint, CutShort, vars

\* A command leaves no orphan that nobody owes.
LEMMA OrphanStep ==
  ASSUME ReplayFirst, NEW rank, RefInv, ForkInv(rank), OrphanInv, [Next]_vars
  PROVE  OrphanInv'
<1>1. ASSUME NEW rq \in Captures, Begin(rq) PROVE OrphanInv'
  BY <1>1 DEF Begin, OrphanInv
<1>2. ASSUME NEW e \in Events, PersistCandidate(e) PROVE OrphanInv'
  BY <1>2 DEF PersistCandidate, OrphanInv
<1>3. CASE WriteEnvelope
  BY <1>3 DEF WriteEnvelope, OrphanInv
<1>4. CASE WriteCheckpoint
  <2>1. cur \in envelopes /\ cur.source \in Sources
    BY <1>4, CaptureFields DEF WriteCheckpoint, RefInv, CommandInv
  <2>2. ASSUME NEW c \in candidates, owed[c[1].source] = c[1], c[1] # cur
        PROVE  owed'[c[1].source] = c[1]
    <3>1. c[1] \in Captures /\ c[1].source \in Sources
      BY CaptureFields DEF RefInv, TypeOK
    <3>2. owed \in [Sources -> Captures \cup {NoRequest}]
      BY DEF RefInv, TypeOK
    <3>3. QED
      BY <1>4, <2>1, <2>2, <3>1, <3>2 DEF WriteCheckpoint
  <2>3. QED
    BY <1>4, <2>1, <2>2 DEF WriteCheckpoint, OrphanInv
<1>5. CASE CutShort
  <2>1. /\ owed[cur.source] \in {NoRequest, cur} /\ owed' = [owed EXCEPT ![cur.source] = cur]
        /\ UNCHANGED <<candidates, envelopes>> /\ cur \in Captures
    BY <1>5 DEF CutShort, ForkInv, RefInv, CommandInv
  <2>2. ASSUME NEW c \in candidates, c[1] \notin envelopes
        PROVE  owed'[c[1].source] = c[1]
    <3>1. c[1] \in Captures /\ c[1].source \in Sources /\ c[1] # NoRequest
      BY CaptureFields DEF RefInv, TypeOK
    <3>2. owed \in [Sources -> Captures \cup {NoRequest}]
      BY DEF RefInv, TypeOK
    <3>3. owed[c[1].source] = c[1] \/ cur = c[1]
      BY <2>2 DEF OrphanInv
    <3>4. QED
      BY <2>1, <3>1, <3>2, <3>3
  <2>3. QED
    BY <2>1, <2>2 DEF OrphanInv
<1>6. CASE UNCHANGED vars
  BY <1>6 DEF vars, OrphanInv
<1>7. QED
  BY <1>1, <1>2, <1>3, <1>4, <1>5, <1>6 DEF Next, Progress

\* With nothing owed and nobody at work, all envelopes are behind the cursor, and the
\* walk over them is the chain that audit-capture looks for.
LEMMA WalkIsChain ==
  ASSUME NEW rank \in [Cursors \cup {NoCursor} -> Nat],
         \A rq \in Captures : rank[rq.before] < rank[rq.after],
         RefInv, ForkInv(rank), WalkInv(rank), pc = "idle",
         NEW s \in Sources, owed[s] = NoRequest
  PROVE  ChainIsLinear(s)
<1>1. /\ envelopes \subseteq Captures
      /\ \A rq \in Captures : rank[rq.before] \in Nat /\ rank[rq.after] \in Nat
      /\ \A rq \in Captures : rq # NoRequest
  BY CaptureFields DEF RefInv, TypeOK
<1>2. Behind(rank, s) = EnvelopesOf(s)
  BY <1>1 DEF Behind, EnvelopesOf, ForkInv, Pending
<1>3. PICK n \in Nat : \E q \in [1..n -> Captures] :
        IsWalk(rank, EnvelopesOf(s), checkpoint[s], n, q)
  BY <1>2 DEF WalkInv
<1>4. PICK q \in [1..n -> Captures] : IsWalk(rank, EnvelopesOf(s), checkpoint[s], n, q)
  BY <1>3
<1>5. /\ q \in [1..n -> EnvelopesOf(s)]
      /\ \A rq \in EnvelopesOf(s) : \E i \in 1..n : q[i] = rq
      /\ \A i, j \in 1..n : i < j => rank[q[i].before] < rank[q[j].before]
      /\ \A i \in 2..n : q[i].before = q[i - 1].after
      /\ n = 0 => checkpoint[s] = NoRequest
      /\ n > 0 => q[1].before = NoCursor /\ q[n] = checkpoint[s]
  BY <1>4 DEF IsWalk
<1>6. CASE n = 0
  <2>1. EnvelopesOf(s) = {}
    BY <1>5, <1>6
  <2>2. QED
    BY <1>5, <1>6, <2>1 DEF ChainIsLinear
<1>7. CASE n > 0
  <2>1. \A i, j \in 1..n : i # j => q[i] # q[j] /\ q[i].before # q[j].before
    <3> SUFFICES ASSUME NEW i \in 1..n, NEW j \in 1..n, i # j
                 PROVE  q[i] # q[j] /\ q[i].before # q[j].before
      OBVIOUS
    <3>1. q[i] \in Captures /\ q[j] \in Captures
      BY <1>4
    <3>2. rank[q[i].before] \in Nat /\ rank[q[j].before] \in Nat
      BY <1>1, <3>1
    <3>3. i < j \/ j < i
      OBVIOUS
    <3>4. QED
      BY <1>5, <3>2, <3>3
  <2>2. Cardinality(EnvelopesOf(s)) = n
    <3>1. q \in Bijection(1..n, EnvelopesOf(s))
      BY <1>5, <2>1 DEF Bijection, Injection, Surjection, IsInjective
    <3>2. ExistsBijection(1..n, EnvelopesOf(s))
      BY <3>1 DEF ExistsBijection
    <3>3. QED
      BY <3>2, FS_CountingElements
  <2>3. \A i \in 1..n : q[i].before # q[n].after
    <3> SUFFICES ASSUME NEW i \in 1..n PROVE q[i].before # q[n].after
      OBVIOUS
    <3>1. n \in 1..n /\ q[i] \in Captures /\ q[n] \in Captures
      BY <1>4, <1>7
    <3>2. i = n \/ i < n
      OBVIOUS
    <3>3. rank[q[i].before] < rank[q[n].after]
      <4>1. rank[q[n].before] < rank[q[n].after]
        BY <3>1
      <4>2. /\ rank[q[i].before] \in Nat /\ rank[q[n].before] \in Nat
            /\ rank[q[n].after] \in Nat
        BY <1>1, <3>1
      <4>3. QED
        BY <1>5, <3>1, <3>2, <4>1, <4>2
    <3>4. rank[q[n].after] \in Nat
      BY <1>1, <3>1
    <3>5. QED
      BY <3>3, <3>4
  <2>4. EnvelopesOf(s) # {}
    BY <1>5, <1>7
  <2>5. IsChain(s, q)
    BY <1>5, <1>7, <2>1, <2>2, <2>3 DEF IsChain
  <2>6. QED
    BY <1>5, <2>2, <2>4, <2>5 DEF ChainIsLinear
<1>8. QED
  BY <1>6, <1>7

\* What audit-capture checks holds whenever nothing is owed: the envelopes of each
\* source are one chain from the null cursor to its checkpoint, and no candidate is
\* without its envelope.
THEOREM ChainsStayLinear ==
  ASSUME ReplayFirst, HostsAdvance PROVE Spec => []ChainsAreLinear
<1>1. PICK rank \in [Cursors \cup {NoCursor} -> Nat] :
        \A rq \in Captures : rank[rq.before] < rank[rq.after]
  BY DEF HostsAdvance
<1> DEFINE Inv == RefInv /\ ForkInv(rank) /\ WalkInv(rank) /\ OrphanInv
<1>2. ASSUME Init PROVE ForkInv(rank) /\ WalkInv(rank) /\ OrphanInv
  <2>1. ForkInv(rank) /\ OrphanInv
    BY <1>2 DEF Init, ForkInv, NoFork, OrphanInv
  <2>2. ASSUME NEW s \in Sources
        PROVE  \E n \in Nat : \E q \in [1..n -> Captures] :
                 IsWalk(rank, Behind(rank, s), checkpoint[s], n, q)
    <3> DEFINE q == [i \in 1..0 |-> NoRequest]
    <3>1. Behind(rank, s) = {} /\ checkpoint[s] = NoRequest
      BY <1>2 DEF Init, Behind, EnvelopesOf
    <3>2. q \in [1..0 -> Captures] /\ IsWalk(rank, Behind(rank, s), checkpoint[s], 0, q)
      BY <3>1 DEF IsWalk
    <3>3. QED
      BY <3>2
  <2>3. QED
    BY <2>1, <2>2 DEF WalkInv
<1>3. RefInv /\ RefInv' /\ Inv /\ [Next]_vars => Inv'
  BY <1>1, ForkStep, WalkStep, OrphanStep
<1>4. Inv => ChainsAreLinear
  <2> SUFFICES ASSUME Inv, pc = "idle", NEW s \in Sources, owed[s] = NoRequest
               PROVE  ChainIsLinear(s) /\ NoOrphans(s)
    BY DEF ChainsAreLinear
  <2>1. ChainIsLinear(s)
    BY <1>1, WalkIsChain
  <2>2. ASSUME NEW c \in candidates, c[1].source = s PROVE c[1] \in envelopes
    <3>1. c[1] \in Captures
      BY <2>2 DEF RefInv, TypeOK
    <3>2. QED
      BY <2>2, <3>1, CaptureFields DEF OrphanInv
  <2>3. QED
    BY <2>1, <2>2 DEF NoOrphans
<1>5. Init => Inv
  BY <1>2, RefInit
<1> HIDE DEF Inv
<1>6. QED
  BY <1>3, <1>4, <1>5, RefInductive, PTL DEF Spec
=============================================================================
